--------------------------- MODULE PrivateChatProofs ---------------------------
(***************************************************************************)
(* The gateway is given at most one of the messages that have one id, and  *)
(* once: for any number of messages, ids, handlers, connections and        *)
(* crashes, on either transport.                                           *)
(*                                                                         *)
(* GivenOnce is not inductive: a handler that is about to give the gateway *)
(* a message must know that no other one has or will.  It knows because it *)
(* wrote the id, under the store's lock, when the file did not have it.    *)
(* Between that and the turn the handler owns the id; the invariant says   *)
(* that owners have ids in the file, no two the same, and none of a        *)
(* message the gateway was given already.                                  *)
(*                                                                         *)
(* The second part is about what the platform is told: an answered message *)
(* is never opened again.  A notice and the answers of its message may go  *)
(* over different sockets, scheduled on the client's loop or sent beside   *)
(* it; the invariant says that none waits behind an answer, and that one   *)
(* whose message was answered beside the loop waits for a socket that is   *)
(* gone.                                                                   *)
(***************************************************************************)
EXTENDS PrivateChat, TLAPS

(* A handler that has written its id and has still to give its message.    *)
Owning == {"screen", "notice", "noticing", "turn"}

ChatType ==
    /\ pc \in [Handlers -> Places]
    /\ msg \in [Handlers -> Messages \cup {Free}]
    /\ turns \in [Messages -> Nat]
    /\ \A h \in Handlers : pc[h] # "idle" => msg[h] \in Messages

(* The lock of the dedupe store is held exactly while an id is written.    *)
WriterHoldsMark == \A h \in Handlers : pc[h] = "write" <=> mark = h

(* An id that is being written is new, an id that is owned is in the file. *)
WritesNewId == \A h \in Handlers : pc[h] = "write" => Id(h) \notin seen
OwnsSeenId  == \A h \in Handlers : pc[h] \in Owning => Id(h) \in seen

(* Two owners have different ids.                                          *)
OneOwner ==
    \A h, k \in Handlers :
        h # k /\ pc[h] \in Owning /\ pc[k] \in Owning => Id(h) # Id(k)

(* The id of a message that was given is in the file and nobody owns it.   *)
GivenIsSpent ==
    \A m \in Messages : turns[m] # 0 =>
        /\ IdOf[m] \in seen
        /\ \A h \in Handlers : pc[h] \in Owning => Id(h) # IdOf[m]

(* GivenOnce of a file that was not cut.                                   *)
AtMostOneTurn ==
    \A m, n \in Messages :
        /\ turns[m] <= 1
        /\ IdOf[m] = IdOf[n] /\ m # n => turns[m] = 0 \/ turns[n] = 0

Deduped ==
    WritesNewId /\ OwnsSeenId /\ OneOwner /\ GivenIsSpent /\ AtMostOneTurn

Inductive == ChatType /\ WriterHoldsMark /\ (torn \/ Deduped)

(* A step that gives nothing, writes no id and takes no lock, and after    *)
(* which only a handler that owned its id before owns one.                 *)
Harmless ==
    /\ UNCHANGED <<turns, seen, mark, torn>>
    /\ \A h \in Handlers :
          /\ pc'[h] = "write" <=> pc[h] = "write"
          /\ pc'[h] \in Owning => pc[h] \in Owning
          /\ pc[h] # "idle" => msg'[h] = msg[h]

LEMMA HarmlessKeeps ==
    ASSUME Inductive, Harmless, ChatType'
    PROVE  Inductive'
<1>1. WriterHoldsMark'
  BY DEF Inductive, WriterHoldsMark, Harmless
<1>2. ASSUME Deduped PROVE Deduped'
  <2>. USE <1>2 DEF Deduped, Harmless
  <2>0. \A h \in Handlers :
           pc'[h] \in Owning => pc[h] \in Owning /\ Id(h)' = Id(h)
    BY DEF Owning, Id
  <2>1. WritesNewId'
    BY DEF WritesNewId, Id
  <2>2. OwnsSeenId'
    BY <2>0 DEF OwnsSeenId
  <2>3. OneOwner'
    BY <2>0 DEF OneOwner
  <2>4. GivenIsSpent'
    BY <2>0 DEF GivenIsSpent
  <2>5. AtMostOneTurn'
    BY DEF AtMostOneTurn
  <2>. QED BY <2>1, <2>2, <2>3, <2>4, <2>5
<1>. QED BY <1>1, <1>2 DEF Inductive, Harmless

(* A frame starts a handler that was idle, at the mark.                    *)
LEMMA StartKeeps ==
    ASSUME Inductive, NEW h \in Handlers, NEW m \in Messages, Starts(h, m)
    PROVE  Inductive'
<1>1. /\ pc' = [pc EXCEPT ![h] = "mark"] /\ pc[h] = "idle"
      /\ msg' = [msg EXCEPT ![h] = m]
      /\ UNCHANGED <<turns, seen, mark, torn>>
  BY DEF Starts, dedupe, effects
<1>2. ASSUME NEW k \in Handlers, k # h
      PROVE  pc'[k] = pc[k] /\ msg'[k] = msg[k]
  BY <1>1, <1>2 DEF Inductive, ChatType
<1>3. pc'[h] = "mark"
  BY <1>1 DEF Inductive, ChatType
<1>4. Harmless
  BY <1>1, <1>2, <1>3 DEF Harmless, Owning
<1>5. ChatType'
  <2>1. \A k \in Handlers : k # h => (pc'[k] # "idle" => msg'[k] \in Messages)
    BY <1>2 DEF Inductive, ChatType
  <2>2. msg'[h] \in Messages
    BY <1>1 DEF Inductive, ChatType
  <2>3. /\ pc' \in [Handlers -> Places] /\ turns' \in [Messages -> Nat]
        /\ msg' \in [Handlers -> Messages \cup {Free}]
    BY <1>1 DEF Inductive, ChatType, Places
  <2>. QED BY <2>1, <2>2, <2>3 DEF ChatType
<1>. QED BY <1>4, <1>5, HarmlessKeeps

(* A step of a handler that gives nothing and marks nothing.               *)
LEMMA MoveKeeps ==
    ASSUME Inductive, NEW h \in Handlers, NEW to \in Places,
           pc' = [pc EXCEPT ![h] = to],
           pc[h] \notin {"idle", "write"}, to \notin {"idle", "write"},
           to \in Owning => pc[h] \in Owning,
           UNCHANGED <<msg, turns, seen, mark, torn>>
    PROVE  Inductive'
<1>1. Harmless
  BY DEF Harmless, Inductive, ChatType
<1>2. ChatType'
  BY DEF Inductive, ChatType
<1>. QED BY <1>1, <1>2, HarmlessKeeps

(* check_and_mark: the lock is taken only for an id the file has not.      *)
LEMMA CheckKeeps ==
    ASSUME Inductive, ChatAssumptions, NEW h \in Handlers, CheckSeen(h)
    PROVE  Inductive'
<1>1. UNCHANGED <<msg, turns, seen, torn>> /\ pc[h] = "mark" /\ mark = Free
  BY DEF CheckSeen, Step, effects
<1>2. CASE UNCHANGED mark /\ Goto(h, "done")
  BY <1>1, <1>2, MoveKeeps DEF Goto, Places, Owning
<1>3. CASE mark' = h /\ Id(h) \notin seen /\ Goto(h, "write")
  <2>1. pc' = [pc EXCEPT ![h] = "write"]
    BY <1>3 DEF Goto
  <2>2. pc'[h] = "write" /\ \A k \in Handlers : k # h => pc'[k] = pc[k]
    BY <2>1 DEF Inductive, ChatType
  <2>3. ChatType'
    BY <1>1, <2>1 DEF Inductive, ChatType, Places
  <2>4. \A k \in Handlers : pc[k] # "write"
    BY <1>1 DEF Inductive, WriterHoldsMark, ChatAssumptions
  <2>5. WriterHoldsMark'
    BY <1>3, <2>2, <2>4 DEF WriterHoldsMark
  <2>6. ASSUME Deduped PROVE Deduped'
    <3>. USE <2>6, <1>1, <2>2 DEF Deduped
    <3>1. \A k \in Handlers :
             pc'[k] \in Owning => pc[k] \in Owning /\ Id(k)' = Id(k)
      BY DEF Owning, Id
    <3>2. WritesNewId'
      BY <1>3, <2>4 DEF WritesNewId, Id
    <3>3. OwnsSeenId' /\ OneOwner' /\ GivenIsSpent' /\ AtMostOneTurn'
      BY <3>1 DEF OwnsSeenId, OneOwner, GivenIsSpent, AtMostOneTurn
    <3>. QED BY <3>2, <3>3
  <2>. QED BY <1>1, <2>3, <2>5, <2>6 DEF Inductive
<1>. QED BY <1>2, <1>3 DEF CheckSeen

(* Writing the id makes the handler its owner; whoever owns or has spent   *)
(* an id has one that was in the file already.                             *)
LEMMA WriteKeeps ==
    ASSUME Inductive, ChatAssumptions, NEW h \in Handlers, WriteSeen(h)
    PROVE  Inductive'
<1>1. /\ UNCHANGED <<msg, turns, torn>> /\ pc[h] = "write" /\ mark' = Free
      /\ seen' = seen \cup {Id(h)} /\ pc' = [pc EXCEPT ![h] = "screen"]
  BY DEF WriteSeen, Step, Goto, effects
<1>2. pc'[h] = "screen" /\ \A k \in Handlers : k # h => pc'[k] = pc[k]
  BY <1>1 DEF Inductive, ChatType
<1>3. ChatType'
  BY <1>1 DEF Inductive, ChatType, Places
<1>4. \A k \in Handlers : k # h => pc[k] # "write"
  BY <1>1 DEF Inductive, WriterHoldsMark
<1>5. WriterHoldsMark'
  BY <1>1, <1>2, <1>4 DEF WriterHoldsMark, ChatAssumptions
<1>6. ASSUME Deduped PROVE Deduped'
  <2>. USE <1>6, <1>1, <1>2 DEF Deduped
  <2>1. \A k \in Handlers : Id(k)' = Id(k)
    BY DEF Id
  <2>2. Id(h) \notin seen
    BY DEF WritesNewId
  <2>3. WritesNewId'
    BY <1>4 DEF WritesNewId
  <2>4. OwnsSeenId'
    BY <2>1 DEF OwnsSeenId
  <2>5. ASSUME NEW k \in Handlers, k # h, pc'[k] \in Owning
        PROVE  Id(k)' # Id(h)'
    BY <2>1, <2>2, <2>5 DEF OwnsSeenId
  <2>6. OneOwner'
    BY <2>1, <2>5 DEF OneOwner
  <2>7. ASSUME NEW m \in Messages, turns'[m] # 0
        PROVE  /\ IdOf[m] \in seen'
               /\ \A k \in Handlers : pc'[k] \in Owning => Id(k)' # IdOf[m]
    BY <2>1, <2>2, <2>7 DEF GivenIsSpent
  <2>8. GivenIsSpent' /\ AtMostOneTurn'
    BY <2>7 DEF GivenIsSpent, AtMostOneTurn
  <2>. QED BY <2>3, <2>4, <2>6, <2>8
<1>. QED BY <1>1, <1>3, <1>5, <1>6 DEF Inductive

(* The turn spends the id: its owner gives it up.                          *)
LEMMA TurnKeeps ==
    ASSUME Inductive, NEW h \in Handlers, Turn(h)
    PROVE  Inductive'
<1>1. /\ UNCHANGED <<msg, seen, mark, torn>> /\ pc[h] = "turn"
      /\ turns' = [turns EXCEPT ![msg[h]] = @ + 1]
      /\ \E to \in {"done", "answer"} : pc' = [pc EXCEPT ![h] = to]
  BY DEF Turn, Step, Goto, dedupe
<1>2. /\ pc'[h] \in {"done", "answer"}
      /\ \A k \in Handlers : k # h => pc'[k] = pc[k]
  BY <1>1 DEF Inductive, ChatType
<1>3. msg[h] \in Messages
  BY <1>1 DEF Inductive, ChatType
<1>4. ChatType'
  BY <1>1, <1>3 DEF Inductive, ChatType, Places
<1>5. WriterHoldsMark'
  BY <1>1, <1>2 DEF Inductive, WriterHoldsMark
<1>6. ASSUME Deduped PROVE Deduped'
  <2>. USE <1>6, <1>1, <1>2, <1>3 DEF Deduped
  <2>1. \A k \in Handlers : Id(k)' = Id(k)
    BY DEF Id
  <2>2. \A k \in Handlers : pc'[k] \in Owning => k # h /\ pc[k] \in Owning
    BY DEF Owning
  <2>3. WritesNewId'
    BY <2>1 DEF WritesNewId
  <2>4. OwnsSeenId' /\ OneOwner'
    BY <2>1, <2>2 DEF OwnsSeenId, OneOwner
  <2>5. /\ turns \in [Messages -> Nat]
        /\ turns'[msg[h]] = turns[msg[h]] + 1
        /\ \A m \in Messages : m # msg[h] => turns'[m] = turns[m]
    BY DEF Inductive, ChatType
  <2>6. \A m \in Messages : IdOf[m] = Id(h) => turns[m] = 0
    BY DEF GivenIsSpent, Owning
  <2>7. GivenIsSpent'
    BY <2>1, <2>2, <2>5 DEF GivenIsSpent, OwnsSeenId, OneOwner, Owning, Id
  <2>8. AtMostOneTurn'
    BY <2>5, <2>6 DEF AtMostOneTurn, Id
  <2>. QED BY <2>3, <2>4, <2>7, <2>8
<1>. QED BY <1>1, <1>4, <1>5, <1>6 DEF Inductive

(* A process that dies while an id is written cuts the file; otherwise it  *)
(* leaves the file as it is, and no owner.                                 *)
LEMMA CrashKeeps ==
    ASSUME Inductive, ChatAssumptions, Crash
    PROVE  Inductive'
<1>1. /\ UNCHANGED <<msg, turns>> /\ mark' = Free
      /\ torn' = (torn \/ mark # Free) /\ (mark = Free => seen' = seen)
      /\ pc' = [h \in Handlers |-> IF pc[h] = "idle" THEN "idle" ELSE "done"]
  BY DEF Crash
<1>2. \A h \in Handlers : pc'[h] \notin Owning \cup {"write"}
  BY <1>1 DEF Owning
<1>3. ChatType'
  BY <1>1 DEF Inductive, ChatType, Places
<1>4. WriterHoldsMark'
  BY <1>1, <1>2 DEF WriterHoldsMark, ChatAssumptions
<1>5. ASSUME Deduped, mark = Free PROVE Deduped'
  BY <1>1, <1>2, <1>5 DEF Deduped, WritesNewId, OwnsSeenId, OneOwner,
     GivenIsSpent, AtMostOneTurn
<1>. QED BY <1>1, <1>3, <1>4, <1>5 DEF Inductive

(* The client, the event loop and close() have no part in it.              *)
LEMMA OtherKeeps ==
    ASSUME Inductive, UNCHANGED <<dedupe, pc, msg, turns>>
    PROVE  Inductive'
<1>1. Harmless /\ ChatType'
  BY DEF Inductive, Harmless, ChatType, dedupe
<1>. QED BY <1>1, HarmlessKeeps

(* Screening and replying move a handler on, never back to its mark.       *)
LEMMA ReplyKeeps ==
    ASSUME Inductive, NEW h \in Handlers,
           Screen(h) \/ ReadSocket(h) \/ Send(h) \/ Reply(h)
    PROVE  Inductive'
<1>1. UNCHANGED <<msg, turns, dedupe>>
  BY DEF Screen, ReadSocket, Send, Reply, Step, effects
<1>2. /\ pc[h] \in {"screen", "notice", "answer", "noticing", "answering"}
      /\ \E to \in Places :
            /\ pc' = [pc EXCEPT ![h] = to] /\ to \notin {"idle", "write"}
            /\ to \in Owning => pc[h] \in Owning
  <2>1. CASE Screen(h)
    BY <2>1 DEF Screen, Step, Goto, Places, Owning
  <2>2. CASE ReadSocket(h)
    BY <2>2 DEF ReadSocket, Replied, Goto, Places, Owning
  <2>3. CASE Send(h)
    BY <2>3 DEF Send, Replied, Goto, Places, Owning
  <2>4. CASE Reply(h)
    BY <2>4 DEF Reply, Replied, Step, Goto, Places, Owning
  <2>. QED BY <2>1, <2>2, <2>3, <2>4
<1>. QED BY <1>1, <1>2, MoveKeeps DEF dedupe

-----------------------------------------------------------------------------
(* The strengthened invariant holds of every reachable state.              *)
THEOREM IdsAreOwned == Spec => []Inductive
<1>. USE ChatAssumptions
<1>1. Init => Inductive
  BY DEF Init, Inductive, ChatType, Places, WriterHoldsMark, Deduped,
     WritesNewId, OwnsSeenId, OneOwner, GivenIsSpent, AtMostOneTurn, Owning,
     ChatAssumptions
<1>2. Inductive /\ [Next]_vars => Inductive'
  <2>. SUFFICES ASSUME Inductive, [Next]_vars PROVE Inductive'
    OBVIOUS
  <2>1. CASE \/ ClientLoop \/ Connect \/ ConnectFails \/ SubscribeFails
             \/ SocketCloses
    BY <2>1, OtherKeeps DEF ClientLoop, LoopEnds, PublishLoop, Subscribe,
       ResetLoop, Wake, Connect, ConnectFails, SubscribeFails, SocketCloses,
       ClientStep, handler, effects
  <2>2. CASE Close \/ Flush
    BY <2>2, OtherKeeps DEF Close, Flush, handler, effects
  <2>3. CASE Crash
    BY <2>3, CrashKeeps
  <2>4. ASSUME NEW h \in Handlers, Handle(h)
        PROVE  Inductive'
    BY <2>4, CheckKeeps, WriteKeeps, TurnKeeps, ReplyKeeps DEF Handle
  <2>5. ASSUME NEW h \in Handlers, NEW m \in Messages,
               WeComFrame(h, m) \/ WechatMessage(h, m)
        PROVE  Inductive'
    BY <2>5, StartKeeps DEF WeComFrame, WechatMessage
  <2>6. CASE UNCHANGED vars
    BY <2>6, OtherKeeps DEF vars, handler, effects
  <2>. QED BY <2>1, <2>2, <2>3, <2>4, <2>5, <2>6 DEF Next
<1>. QED BY <1>1, <1>2, PTL DEF Spec

(* Of the messages that have one id the gateway is given at most one.      *)
THEOREM GivenOnceAlways == Spec => []GivenOnce
<1>1. Inductive => GivenOnce
  BY DEF Inductive, Deduped, AtMostOneTurn, GivenOnce
<1>. QED BY <1>1, IdsAreOwned, PTL
-----------------------------------------------------------------------------
(* The order in which the platform is told: the notice, then the answers.  *)

(* Handlers that answer, and messages that were answered or will be.       *)
Answering == {"answer", "answering"}
Said(m) ==
    \/ stream[m] = "closed"
    \/ \E i \in DOMAIN out : out[i][1] = m /\ out[i][2]
    \/ \E h \in Handlers : pc[h] \in Answering /\ msg[h] = m

ReplyType ==
    /\ transport \in {"wecom", "wechat"}
    /\ number \in Nat /\ websocket \in 0..number
    /\ grabbed \in [Handlers -> 0..number]
    /\ out \in Seq(Messages \X BOOLEAN \X (0..number))
    /\ stream \in [Messages -> {"none", "open", "closed"}]

(* The loop of a socket that is connected is known, except between the     *)
(* two assignments; what was scheduled by then is for earlier sockets.     *)
LoopIsKnown ==
    transport = "wecom" /\ ~looping =>
        /\ link \notin {"subscribe", "up"}
        /\ link = "publish" => \A i \in DOMAIN out : out[i][3] < number

(* Only WeCom sends notices.                                               *)
NoticesAreWeCom ==
    transport = "wechat" =>
        /\ \A i \in DOMAIN out : out[i][2]
        /\ \A h \in Handlers : pc[h] \notin {"notice", "noticing"}

(* An answered message is marked, and nobody is about to handle it anew.   *)
SaidIsSpent ==
    \A m \in Messages : Said(m) =>
        /\ IdOf[m] \in seen
        /\ \A h \in Handlers : pc[h] \in Owning => msg[h] # m

(* No notice waits behind an answer; the ones that wait of an answered     *)
(* message are for a socket that is gone.                                  *)
NoticeFirst ==
    /\ \A i, j \in DOMAIN out : i < j /\ out[i][2] /\ ~out[j][2] => out[i][1] # out[j][1]
    /\ \A i \in DOMAIN out :
          ~out[i][2] /\ stream[out[i][1]] = "closed" => out[i][3] < number

Sound == ReplyType /\ LoopIsKnown /\ NoticesAreWeCom /\ (torn \/ (SaidIsSpent /\ NoticeFirst))

(* A step that sends nothing: Said is up to the handlers.                  *)
LEMMA SaidBefore ==
    ASSUME UNCHANGED <<out, stream>>, NEW m, Said(m)'
    PROVE  Said(m) \/ \E h \in Handlers : pc'[h] \in Answering /\ msg'[h] = m
BY DEF Said

(* The client's loop goes on: it opens sockets, and publishes and resets   *)
(* what the replies are sent on.                                           *)
LEMMA ClientSound ==
    ASSUME Sound, UNCHANGED <<transport, dedupe, handler, effects>>,
           number' \in Nat, number <= number', websocket' \in 0..number', LoopIsKnown'
    PROVE  Sound'
<1>1. ReplyType'
  <2>1. 0..number \subseteq 0..number'
    BY DEF Sound, ReplyType
  <2>2. out \in Seq(Messages \X BOOLEAN \X (0..number'))
    BY <2>1 DEF Sound, ReplyType
  <2>3. grabbed \in [Handlers -> 0..number']
    BY <2>1 DEF Sound, ReplyType
  <2> QED BY <2>2, <2>3 DEF Sound, ReplyType, handler, effects
<1>2. NoticesAreWeCom'
  BY DEF Sound, NoticesAreWeCom, handler, effects
<1>3. SaidIsSpent => SaidIsSpent'
  BY DEF SaidIsSpent, Said, handler, effects, dedupe, Owning, Answering
<1>4. NoticeFirst => NoticeFirst'
  <2>1. \A i \in DOMAIN out : out[i][3] \in 0..number
    BY DEF Sound, ReplyType
  <2> QED BY <2>1 DEF NoticeFirst, effects, Sound, ReplyType
<1> QED BY <1>1, <1>2, <1>3, <1>4 DEF Sound, dedupe

LEMMA LoopSound ==
    ASSUME Sound, ChatAssumptions,
           ClientLoop \/ Connect \/ ConnectFails \/ SubscribeFails \/ SocketCloses
    PROVE  Sound'
<1>1. UNCHANGED <<transport, dedupe, handler, effects>>
  BY DEF ClientLoop, LoopEnds, PublishLoop, Subscribe, ResetLoop, Wake, Connect, ConnectFails,
         SubscribeFails, SocketCloses, ClientStep
<1>2. CASE Connect
  <2>1. /\ number' = number + 1 /\ websocket' = number + 1 /\ link' = "publish"
        /\ UNCHANGED <<looping, out>>
    BY <1>1, <1>2 DEF Connect, effects
  <2>2. \A i \in DOMAIN out : out[i][3] \in 0..number
    BY DEF Sound, ReplyType
  <2>3. number \in Nat
    BY DEF Sound, ReplyType
  <2>4. LoopIsKnown'
    BY <2>1, <2>2, <2>3 DEF LoopIsKnown
  <2>5. number' \in Nat /\ number <= number' /\ websocket' \in 0..number'
    BY <2>1, <2>3
  <2> QED BY <1>1, <2>4, <2>5, ClientSound
<1>3. CASE ~Connect
  <2>1. /\ number' = number /\ (websocket' = websocket \/ websocket' = 0) /\ UNCHANGED out
        /\ \/ UNCHANGED looping /\ link' \notin {"publish", "subscribe"}
              /\ (link' = "up" => link = "subscribe")
           \/ looping' = TRUE
           \/ looping' = FALSE /\ link' \notin {"publish", "subscribe", "up"}
    BY <1>1, <1>3
       DEF ClientLoop, LoopEnds, PublishLoop, Subscribe, ResetLoop, Wake, Connect, ConnectFails,
           SubscribeFails, SocketCloses, ClientStep, Failed, effects
  <2>2. LoopIsKnown'
    BY <1>1, <2>1 DEF Sound, LoopIsKnown
  <2>3. number' \in Nat /\ number <= number' /\ websocket' \in 0..number'
    BY <2>1 DEF Sound, ReplyType
  <2> QED BY <1>1, <2>2, <2>3, ClientSound
<1> QED BY <1>2, <1>3

(* The event loop sends what was scheduled first.                          *)
LEMMA FlushSound ==
    ASSUME Sound, Flush
    PROVE  Sound' /\ (torn \/ \A m \in Messages : stream[m] = "closed" => stream'[m] = "closed")
<1> DEFINE e == Head(out)
<1>1. /\ out # <<>> /\ out' = Tail(out)
      /\ stream' = IF transport = "wechat" \/ Live(e[3]) THEN Shown(e[1], e[2]) ELSE stream
      /\ UNCHANGED <<transport, link, number, looping, websocket, grabbed, pc, msg, seen, torn>>
  BY DEF Flush, client, handler, dedupe
<1>2. /\ e = out[1] /\ 1 \in DOMAIN out /\ e \in Messages \X BOOLEAN \X (0..number)
      /\ \A i \in DOMAIN out' : i + 1 \in DOMAIN out /\ out'[i] = out[i + 1] /\ 1 < i + 1
      /\ \A i, j \in DOMAIN out' : i < j => i + 1 < j + 1
  BY <1>1 DEF Sound, ReplyType
<1>3. ReplyType'
  <2>1. out' \in Seq(Messages \X BOOLEAN \X (0..number))
    BY <1>1 DEF Sound, ReplyType
  <2>2. stream' \in [Messages -> {"none", "open", "closed"}]
    BY <1>1, <1>2 DEF Sound, ReplyType, Shown
  <2> QED BY <1>1, <2>1, <2>2 DEF Sound, ReplyType
<1> HIDE DEF e
<1>4. LoopIsKnown' /\ NoticesAreWeCom'
  BY <1>1, <1>2 DEF Sound, LoopIsKnown, NoticesAreWeCom
<1>5. \A m \in Messages :
         stream'[m] = stream[m] \/ (m = e[1] /\ stream'[m] = IF e[2] THEN "closed" ELSE "open")
  BY <1>1, <1>2 DEF Sound, ReplyType, Shown
<1>6. ASSUME SaidIsSpent, NoticeFirst
      PROVE  /\ SaidIsSpent' /\ NoticeFirst'
             /\ \A m \in Messages : stream[m] = "closed" => stream'[m] = "closed"
  <2>1. ASSUME NEW m \in Messages, Said(m)' PROVE Said(m)
    BY <1>1, <1>2, <1>5, <2>1 DEF Said
  <2>2. SaidIsSpent'
    BY <1>1, <1>6, <2>1 DEF SaidIsSpent
  <2>3. ASSUME NEW i \in DOMAIN out', ~out'[i][2], stream'[out'[i][1]] = "closed"
        PROVE  out'[i][3] < number
    <3>1. i + 1 \in DOMAIN out /\ out'[i] = out[i + 1] /\ out'[i][1] \in Messages
      BY <1>2 DEF Sound, ReplyType
    <3>2. CASE out'[i][1] = e[1] /\ e[2]
      BY <1>2, <1>6, <2>3, <3>1, <3>2 DEF NoticeFirst
    <3>3. CASE ~(out'[i][1] = e[1] /\ e[2])
      BY <1>5, <1>6, <2>3, <3>1, <3>3 DEF NoticeFirst
    <3> QED BY <3>2, <3>3
  <2>4. NoticeFirst'
    <3>1. ASSUME NEW i \in DOMAIN out', NEW j \in DOMAIN out', i < j, out'[i][2], ~out'[j][2]
          PROVE  out'[i][1] # out'[j][1]
      BY <1>2, <1>6, <3>1 DEF NoticeFirst
    <3> QED BY <1>1, <2>3, <3>1 DEF NoticeFirst
  <2>5. ASSUME NEW m \in Messages, stream[m] = "closed" PROVE stream'[m] = "closed"
    <3>1. CASE m = e[1] /\ ~e[2]
      <4>1. e[3] < number
        BY <1>2, <1>6, <2>5, <3>1 DEF NoticeFirst
      <4>2. e[3] # number /\ transport # "wechat"
        BY <1>2, <3>1, <4>1 DEF Sound, ReplyType, NoticesAreWeCom
      <4> QED BY <1>1, <2>5, <4>2 DEF Live
    <3>2. CASE ~(m = e[1] /\ ~e[2])
      BY <1>5, <2>5, <3>2
    <3> QED BY <3>1, <3>2
  <2> QED BY <2>2, <2>4, <2>5
<1> QED BY <1>1, <1>3, <1>4, <1>6 DEF Sound

(* A step of one handler that sends nothing; it becomes an answerer only   *)
(* if it owned its id, and an owner only of an id that was not spent.      *)
LEMMA QuietSound ==
    ASSUME Sound, Inductive, NEW h \in Handlers, NEW to,
           pc' = [pc EXCEPT ![h] = to],
           \A k \in Handlers : k # h => msg'[k] = msg[k],
           pc[h] # "idle" => msg'[h] = msg[h],
           UNCHANGED <<transport, link, number, looping, websocket, out, stream, torn>>,
           grabbed' \in [Handlers -> 0..number],
           to \in Answering => pc[h] \in Answering \cup Owning,
           to \in Owning => pc[h] = "write" \/ pc[h] \in Owning,
           pc[h] = "idle" => to \notin Answering \cup Owning,
           to \in {"notice", "noticing"} => transport = "wecom",
           seen \subseteq seen', torn \/ (to \in Owning => Id(h) \in seen')
    PROVE  Sound'
<1>1. pc'[h] = to /\ \A k \in Handlers : k # h => pc'[k] = pc[k]
  BY DEF Inductive, ChatType
<1>2. ReplyType' /\ LoopIsKnown' /\ NoticesAreWeCom'
  BY <1>1 DEF Sound, ReplyType, LoopIsKnown, NoticesAreWeCom
<1>3. ASSUME ~torn PROVE SaidIsSpent' /\ NoticeFirst'
  <2>1. SaidIsSpent /\ NoticeFirst /\ Deduped
    BY <1>3 DEF Sound, Inductive
  <2>2. NoticeFirst'
    BY <2>1 DEF NoticeFirst
  <2>3. ASSUME NEW m \in Messages, Said(m)', ~Said(m)
        PROVE  pc[h] \in Owning /\ to \in Answering /\ msg[h] = m
    <3>1. PICK k \in Handlers : pc'[k] \in Answering /\ msg'[k] = m
      BY <2>3, SaidBefore
    <3>2. k = h
      BY <1>1, <2>3, <3>1 DEF Said
    <3> QED BY <1>1, <2>3, <3>1, <3>2 DEF Said
  <2>4. ASSUME NEW m \in Messages, Said(m)', NEW k \in Handlers, pc'[k] \in Owning
        PROVE  IdOf[m] \in seen' /\ msg'[k] # m
    <3>1. CASE Said(m)
      <4>1. IdOf[m] \in seen /\ \A b \in Handlers : pc[b] \in Owning => msg[b] # m
        BY <2>1, <3>1 DEF SaidIsSpent
      <4>2. CASE k # h \/ pc[h] \in Owning
        BY <1>1, <2>4, <4>1, <4>2 DEF Owning
      <4>3. CASE k = h /\ pc[h] = "write"
        <5>1. Id(h) \notin seen
          BY <2>1, <4>3 DEF Deduped, WritesNewId
        <5> QED BY <4>1, <4>3, <5>1 DEF Id
      <4> QED BY <1>1, <2>4, <4>2, <4>3
    <3>2. CASE ~Said(m)
      <4>1. pc[h] \in Owning /\ to \in Answering /\ msg[h] = m
        BY <2>3, <2>4, <3>2
      <4>2. Id(h) \in seen /\ IdOf[m] = Id(h)
        BY <2>1, <4>1 DEF Deduped, OwnsSeenId, Id
      <4>3. k # h /\ pc[k] \in Owning /\ msg'[k] = msg[k]
        BY <1>1, <2>4, <4>1 DEF Owning, Answering
      <4>4. Id(k) # Id(h)
        BY <2>1, <4>1, <4>3 DEF Deduped, OneOwner
      <4> QED BY <4>1, <4>2, <4>3, <4>4 DEF Id
    <3> QED BY <3>1, <3>2
  <2>5. ASSUME NEW m \in Messages, Said(m)' PROVE IdOf[m] \in seen'
    <3>1. CASE Said(m)
      BY <2>1, <3>1 DEF SaidIsSpent
    <3>2. CASE ~Said(m)
      BY <2>1, <2>3, <2>5, <3>2 DEF Deduped, OwnsSeenId, Id
    <3> QED BY <3>1, <3>2
  <2> QED BY <2>2, <2>4, <2>5 DEF SaidIsSpent
<1> QED BY <1>2, <1>3 DEF Sound

(* Receiving, marking, screening and the turn.                             *)
LEMMA HandlingSound ==
    ASSUME Sound, Inductive, NEW h \in Handlers,
           \/ CheckSeen(h) \/ WriteSeen(h) \/ Screen(h) \/ Turn(h)
           \/ \E m \in Messages : Starts(h, m)
    PROVE  Sound'
<1>1. CASE \E m \in Messages : Starts(h, m)
  <2>1. PICK m \in Messages : Starts(h, m)
    BY <1>1
  <2>2. /\ pc[h] = "idle" /\ pc' = [pc EXCEPT ![h] = "mark"] /\ msg' = [msg EXCEPT ![h] = m]
        /\ UNCHANGED <<transport, link, number, looping, websocket, grabbed, out, stream, torn, seen>>
    BY <2>1 DEF Starts, client, dedupe, effects
  <2>3. \A k \in Handlers : k # h => msg'[k] = msg[k]
    BY <2>2 DEF Inductive, ChatType
  <2>4. grabbed' \in [Handlers -> 0..number]
    BY <2>2 DEF Sound, ReplyType
  <2> QED BY <2>2, <2>3, <2>4, QuietSound DEF Answering, Owning
<1>2. ASSUME CheckSeen(h) \/ WriteSeen(h) \/ Screen(h) \/ Turn(h) PROVE Sound'
  <2>1. /\ UNCHANGED <<transport, link, number, looping, websocket, msg, grabbed, out, stream, torn>>
        /\ seen \subseteq seen'
    BY <1>2 DEF CheckSeen, WriteSeen, Screen, Turn, Step, client, dedupe, effects
  <2>2. grabbed' \in [Handlers -> 0..number]
    BY <2>1 DEF Sound, ReplyType
  <2>3. PICK to :
            /\ pc' = [pc EXCEPT ![h] = to]
            /\ \/ pc[h] = "mark" /\ to \in {"done", "write"}
               \/ pc[h] = "write" /\ to = "screen" /\ Id(h) \in seen'
               \/ pc[h] = "screen" /\ to \in {"done", "answer", "notice", "turn"}
               \/ pc[h] = "turn" /\ to \in {"done", "answer"}
            /\ to = "notice" => transport = "wecom"
    <3>1. CASE CheckSeen(h)
      BY <3>1 DEF CheckSeen, Step, Goto
    <3>2. CASE WriteSeen(h)
      <4>1. /\ pc[h] = "write" /\ pc' = [pc EXCEPT ![h] = "screen"]
            /\ seen' = seen \cup {Id(h)} /\ msg' = msg
        BY <3>2 DEF WriteSeen, Step, Goto
      <4> WITNESS "screen"
      <4> QED BY <4>1
    <3>3. CASE Screen(h)
      BY <3>3 DEF Screen, Step, Goto
    <3>4. CASE Turn(h)
      BY <3>4 DEF Turn, Step, Goto
    <3> QED BY <1>2, <3>1, <3>2, <3>3, <3>4
  <2>4. torn \/ (to \in Owning => Id(h) \in seen')
    <3>1. torn \/ (pc[h] \in Owning => Id(h) \in seen)
      BY DEF Inductive, Deduped, OwnsSeenId
    <3> QED BY <2>1, <2>3, <3>1 DEF Owning
  <2> QED BY <2>1, <2>2, <2>3, <2>4, QuietSound DEF Answering, Owning
<1> QED BY <1>1, <1>2

(* A reply that is scheduled, or sent at once; an answered message is not  *)
(* opened again.                                                           *)
LEMMA ReplySound ==
    ASSUME Sound, Inductive, NEW h \in Handlers, ReadSocket(h) \/ Send(h) \/ Reply(h)
    PROVE  Sound' /\ (torn \/ \A m \in Messages : stream[m] = "closed" => stream'[m] = "closed")
<1> DEFINE m == msg[h]
           finish == pc[h] \in Answering
<1>1. /\ pc[h] \in {"notice", "answer", "noticing", "answering"} /\ m \in Messages
      /\ UNCHANGED <<transport, link, number, looping, websocket, msg, torn, seen>>
  BY DEF ReadSocket, Send, Reply, Step, client, dedupe, Inductive, ChatType
<1>2. /\ grabbed' \in [Handlers -> 0..number]
      /\ grabbed[h] \in 0..number
  <2>1. grabbed' = grabbed \/ \E g \in {0, websocket} : grabbed' = [grabbed EXCEPT ![h] = g]
    BY DEF ReadSocket, Send, Reply
  <2> QED BY <2>1 DEF Sound, ReplyType
<1>3. PICK to :
          /\ pc' = [pc EXCEPT ![h] = to]
          /\ \/ finish /\ to \in {"answer", "answering", "done"}
             \/ ~finish /\ to \in {"turn", "noticing", "done"}
          /\ to = "noticing" => transport = "wecom"
  <2>1. CASE ReadSocket(h)
    BY <2>1 DEF ReadSocket, Replied, Goto, Answering
  <2>2. CASE Send(h)
    BY <2>2 DEF Send, Replied, Goto, Answering
  <2>3. CASE Reply(h)
    BY <2>3 DEF Reply, Replied, Step, Goto, Answering
  <2> QED BY <2>1, <2>2, <2>3
<1>4. \A n \in Messages : Said(n) /\ ~torn => IdOf[n] \in seen /\ (n = m => finish)
  BY <1>1 DEF Sound, SaidIsSpent, Owning, Answering
<1>5. CASE UNCHANGED <<out, stream>>
  <2>1. torn \/ (to \in Owning => Id(h) \in seen')
    BY <1>1, <1>3 DEF Inductive, Deduped, OwnsSeenId, Owning, Answering
  <2>2. Sound'
    BY <1>1, <1>2, <1>3, <1>5, <2>1, QuietSound DEF Answering, Owning
  <2> QED BY <1>5, <2>2
<1>6. ASSUME NEW out2, NEW stream2, out' = out2, stream' = stream2,
             out2 \in Seq(Messages \X BOOLEAN \X (0..number)),
             stream2 \in [Messages -> {"none", "open", "closed"}],
             LoopIsKnown', NoticesAreWeCom', torn \/ NoticeFirst',
             \A n \in Messages : Said(n)' => Said(n) \/ (n = m /\ finish),
             torn \/ \A n \in Messages : stream[n] = "closed" => stream2[n] = "closed"
      PROVE  Sound' /\ (torn \/ \A n \in Messages : stream[n] = "closed" => stream'[n] = "closed")
  <2>1. ReplyType'
    BY <1>1, <1>2, <1>6 DEF Sound, ReplyType
  <2>2. ASSUME ~torn PROVE SaidIsSpent'
    <3>1. SaidIsSpent /\ Deduped
      BY <2>2 DEF Sound, Inductive
    <3>2. \A n \in Messages : Said(n)' => Said(n)
      BY <1>6, <1>1 DEF Said
    <3>3. \A k \in Handlers : pc'[k] \in Owning => pc[k] \in Owning
      BY <1>1, <1>3 DEF Owning, Answering, Inductive, ChatType
    <3> QED BY <1>1, <3>1, <3>2, <3>3 DEF SaidIsSpent
  <2> QED BY <1>1, <1>6, <2>1, <2>2 DEF Sound
<1>7. \A k \in Handlers : pc'[k] \in Answering => pc[k] \in Answering
  BY <1>1, <1>3 DEF Answering, Inductive, ChatType
<1>8. transport = "wechat" => /\ finish /\ to \notin {"notice", "noticing"}
                             /\ \A k \in Handlers : pc'[k] \notin {"notice", "noticing"}
  BY <1>1, <1>3 DEF Sound, NoticesAreWeCom, Answering, Inductive, ChatType
<1>9. ASSUME NEW g \in 0..number, out' = Append(out, <<m, finish, g>>), stream' = stream,
             looping \/ transport = "wechat"
      PROVE  Sound' /\ (torn \/ \A n \in Messages : stream[n] = "closed" => stream'[n] = "closed")
  <2> DEFINE e == <<m, finish, g>>
  <2>1. m \in Messages /\ finish \in BOOLEAN /\ out' = Append(out, e)
    BY <1>1, <1>9
  <2> HIDE DEF m, finish
  <2>2. e \in Messages \X BOOLEAN \X (0..number) /\ e[1] = m /\ e[2] = finish
    BY <1>9, <2>1
  <2> HIDE DEF e
  <2>3. /\ out' \in Seq(Messages \X BOOLEAN \X (0..number))
        /\ \A i \in DOMAIN out' : /\ i \in 1..(Len(out) + 1)
                                  /\ i \in DOMAIN out => out'[i] = out[i]
                                  /\ i \notin DOMAIN out => out'[i] = e /\ i = Len(out) + 1
        /\ DOMAIN out = 1..Len(out) /\ Len(out) \in Nat
    BY <2>1, <2>2 DEF Sound, ReplyType
  <2>4. LoopIsKnown'
    BY <1>1, <1>9 DEF LoopIsKnown, Sound, ReplyType
  <2>5. NoticesAreWeCom'
    <3>1. transport = "wechat" => \A i \in DOMAIN out' : out'[i][2]
      BY <1>8, <2>2, <2>3 DEF Sound, NoticesAreWeCom
    <3> QED BY <1>1, <1>8, <3>1 DEF NoticesAreWeCom
  <2>6. \A n \in Messages : Said(n)' => Said(n) \/ (n = m /\ finish)
    BY <1>1, <1>7, <1>9, <2>2, <2>3 DEF Said
  <2>7. ASSUME ~torn PROVE NoticeFirst'
    <3>1. NoticeFirst
      BY <2>7 DEF Sound
    <3>2. ~finish => ~Said(m)
      BY <1>1, <1>4, <2>7
    <3>3. ASSUME NEW i \in DOMAIN out', NEW j \in DOMAIN out', i < j, out'[i][2], ~out'[j][2]
          PROVE  out'[i][1] # out'[j][1]
      <4>1. i \in DOMAIN out /\ out'[i] = out[i]
        BY <2>3, <3>3
      <4>2. CASE j \in DOMAIN out
        BY <2>3, <3>1, <3>3, <4>1, <4>2 DEF NoticeFirst
      <4>3. CASE j \notin DOMAIN out
        BY <2>2, <2>3, <3>2, <3>3, <4>1, <4>3 DEF Said
      <4> QED BY <4>2, <4>3
    <3>4. ASSUME NEW i \in DOMAIN out', ~out'[i][2], stream[out'[i][1]] = "closed"
          PROVE  out'[i][3] < number
      <4>1. CASE i \in DOMAIN out
        BY <2>3, <3>1, <3>4, <4>1 DEF NoticeFirst
      <4>2. CASE i \notin DOMAIN out
        BY <2>2, <2>3, <3>2, <3>4, <4>2 DEF Said
      <4> QED BY <4>1, <4>2
    <3> QED BY <1>1, <1>9, <3>3, <3>4 DEF NoticeFirst
  <2>8. stream' \in [Messages -> {"none", "open", "closed"}] /\ stream' = stream
    BY <1>9 DEF Sound, ReplyType
  <2> QED BY <1>6, <2>3, <2>4, <2>5, <2>6, <2>7, <2>8
<1>10. ASSUME transport = "wecom", ~looping, Live(grabbed[h]), out' = out, stream' = Shown(m, finish)
       PROVE  Sound' /\ (torn \/ \A n \in Messages : stream[n] = "closed" => stream'[n] = "closed")
  <2>1. /\ stream' \in [Messages -> {"none", "open", "closed"}]
        /\ \A n \in Messages : n # m => stream'[n] = stream[n]
        /\ stream'[m] = IF finish THEN "closed" ELSE "open"
    BY <1>1, <1>10 DEF Shown, Sound, ReplyType
  <2>2. out' \in Seq(Messages \X BOOLEAN \X (0..number))
    BY <1>10 DEF Sound, ReplyType
  <2>3. \A i \in DOMAIN out : out[i][3] < number
    BY <1>10 DEF Sound, LoopIsKnown, Live
  <2> HIDE DEF m, finish
  <2>4. LoopIsKnown' /\ NoticesAreWeCom'
    BY <1>1, <1>8, <1>10 DEF Sound, LoopIsKnown, NoticesAreWeCom
  <2>5. \A n \in Messages : Said(n)' => Said(n) \/ (n = m /\ finish)
    BY <1>1, <1>7, <1>10, <2>1 DEF Said
  <2>6. ASSUME ~torn
        PROVE  /\ NoticeFirst'
               /\ \A n \in Messages : stream[n] = "closed" => stream'[n] = "closed"
    <3>1. NoticeFirst /\ (~finish => ~Said(m))
      BY <1>1, <1>4, <2>6 DEF Sound
    <3> QED BY <1>1, <1>10, <2>1, <2>3, <3>1 DEF NoticeFirst, Said
  <2> QED BY <1>6, <2>1, <2>2, <2>4, <2>5, <2>6
<1>11. \/ UNCHANGED <<out, stream>>
       \/ \E g \in 0..number : /\ out' = Append(out, <<m, finish, g>>) /\ stream' = stream
                               /\ looping \/ transport = "wechat"
       \/ transport = "wecom" /\ ~looping /\ Live(grabbed[h]) /\ out' = out /\ stream' = Shown(m, finish)
  <2>1. CASE ReadSocket(h)
    BY <2>1 DEF ReadSocket
  <2>2. CASE Send(h)
    <3>1. finish = (pc[h] = "answering")
      BY <2>2 DEF Send, Answering
    <3> QED BY <1>2, <2>2, <3>1 DEF Send
  <2>3. CASE Reply(h)
    <3>1. finish /\ 0 \in 0..number
      BY <2>3 DEF Reply, Step, Answering, Sound, ReplyType
    <3>2. out' = Append(out, <<m, finish, 0>>) /\ stream' = stream /\ transport = "wechat"
      <4>1. finish = TRUE
        BY <3>1 DEF Answering
      <4> QED BY <2>3, <4>1 DEF Reply
    <3> QED BY <3>1, <3>2
  <2> QED BY <2>1, <2>2, <2>3
<1> HIDE DEF m, finish
<1> QED BY <1>5, <1>9, <1>10, <1>11

LEMMA CrashSound == ASSUME Sound, ChatAssumptions, Crash PROVE Sound'
<1>1. /\ number' = 0 /\ websocket' = 0 /\ link' = "down" /\ looping' = FALSE /\ out' = <<>>
      /\ grabbed' = [h \in Handlers |-> 0] /\ UNCHANGED <<transport, msg, stream>>
      /\ pc' = [h \in Handlers |-> IF pc[h] = "idle" THEN "idle" ELSE "done"]
      /\ torn' = (torn \/ mark # Free) /\ (mark = Free => seen' = seen)
  BY DEF Crash
<1>2. ReplyType' /\ LoopIsKnown' /\ NoticesAreWeCom'
  BY <1>1 DEF Sound, ReplyType, LoopIsKnown, NoticesAreWeCom
<1>3. ASSUME ~torn' PROVE SaidIsSpent' /\ NoticeFirst'
  <2>1. SaidIsSpent /\ NoticeFirst /\ seen' = seen
    BY <1>1, <1>3 DEF Sound
  <2>2. \A h \in Handlers : pc'[h] \notin Owning \cup Answering
    BY <1>1 DEF Owning, Answering
  <2>3. DOMAIN out' = {}
    BY <1>1
  <2> QED BY <1>1, <2>1, <2>2, <2>3 DEF SaidIsSpent, NoticeFirst, Said
<1> QED BY <1>2, <1>3 DEF Sound

(* Ids are owned and the platform is told in order, in every state; no     *)
(* step opens an answered message again.                                   *)
LEMMA SoundStep ==
    ASSUME Inductive, Sound, [Next]_vars, ChatAssumptions
    PROVE  /\ Sound'
           /\ \A m \in Messages : stream[m] = "closed" /\ ~torn => stream'[m] = "closed"
<1>1. CASE ClientLoop \/ Connect \/ ConnectFails \/ SubscribeFails \/ SocketCloses
  <2>1. UNCHANGED stream
    BY <1>1 DEF ClientLoop, LoopEnds, PublishLoop, Subscribe, ResetLoop, Wake, Connect,
                ConnectFails, SubscribeFails, SocketCloses, ClientStep, effects
  <2> QED BY <1>1, <2>1, LoopSound
<1>2. CASE Close \/ UNCHANGED vars
  <2>1. UNCHANGED <<transport, client, dedupe, handler, effects>>
    BY <1>2 DEF Close, vars
  <2>2. /\ number' \in Nat /\ number <= number' /\ websocket' \in 0..number' /\ LoopIsKnown'
        /\ UNCHANGED stream
    BY <2>1 DEF Sound, ReplyType, LoopIsKnown, client, effects
  <2> QED BY <2>1, <2>2, ClientSound
<1>3. CASE Flush
  BY <1>3, FlushSound
<1>4. CASE Crash
  BY <1>4, CrashSound DEF Crash
<1>5. ASSUME NEW h \in Handlers,
             \/ CheckSeen(h) \/ WriteSeen(h) \/ Screen(h) \/ Turn(h)
             \/ \E m \in Messages : Starts(h, m)
      PROVE  /\ Sound'
             /\ \A m \in Messages : stream[m] = "closed" /\ ~torn => stream'[m] = "closed"
  <2>1. UNCHANGED stream
    BY <1>5 DEF CheckSeen, WriteSeen, Screen, Turn, Starts, effects
  <2> QED BY <1>5, <2>1, HandlingSound
<1>6. ASSUME NEW h \in Handlers, ReadSocket(h) \/ Send(h) \/ Reply(h)
      PROVE  /\ Sound'
             /\ \A m \in Messages : stream[m] = "closed" /\ ~torn => stream'[m] = "closed"
  BY <1>6, ReplySound
<1> QED
  BY <1>1, <1>2, <1>3, <1>4, <1>5, <1>6 DEF Next, Handle, WeComFrame, WechatMessage

(* The platform never sees an answered message opened again, for any       *)
(* number of messages, handlers, answers, sockets and crashes: the notice  *)
(* comes before the answers, also when they go over different sockets, or  *)
(* one over the loop and the other without (respond, _run_async).          *)
THEOREM AnsweredStaysClosed == Spec => StaysClosed
<1> USE ChatAssumptions
<1>1. Init => Sound
  BY DEF Init, Sound, ReplyType, LoopIsKnown, NoticesAreWeCom, SaidIsSpent, NoticeFirst, Said,
         Answering
<1>2. Inductive /\ Sound /\ [Next]_vars => Sound'
  BY SoundStep
<1>3. Inductive /\ Sound /\ [Next]_vars =>
          [\A m \in Messages : stream[m] = "closed" /\ ~torn => stream'[m] = "closed"]_vars
  BY SoundStep
<1> QED
  BY <1>1, <1>2, <1>3, IdsAreOwned, PTL DEF Spec, StaysClosed
=============================================================================
