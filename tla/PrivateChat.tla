----------------------------- MODULE PrivateChat -----------------------------
(***************************************************************************)
(* The private-chat channels WeCom and WeChat: a client that receives      *)
(* messages and sends replies, and a host that passes each message once    *)
(* through the gateway.  The WeCom client keeps a websocket of its own and *)
(* handles every frame in a new thread; the WeChat client runs the handler *)
(* inside the event loop of its SDK.                                       *)
(***************************************************************************)
EXTENDS Naturals, Sequences, FiniteSets

CONSTANTS
    Handlers,       \* handler calls, one per frame received
    Messages,       \* messages of the platform; each may be delivered again
    IdOf,           \* their ids: the platform's, or a digest without one
    Commands,       \* the ones that are management commands
    Ignored,        \* the ones of senders or kinds that are not served
    Free,           \* nobody
    MaxLinks,       \* websocket connections of one life of the process
    MaxAnswers,     \* assistant messages of one turn
    BaseDelay, MaxDelay,    \* reconnect_base_seconds, reconnect_max_seconds
    MaxCrashes

ASSUME ChatAssumptions ==
    /\ Commands \subseteq Messages /\ Ignored \subseteq Messages
    /\ DOMAIN IdOf = Messages
    /\ Free \notin Handlers
    /\ MaxLinks \in Nat \ {0} /\ MaxAnswers \in Nat \ {0} /\ MaxCrashes \in Nat
    /\ BaseDelay \in Nat \ {0} /\ MaxDelay \in Nat /\ BaseDelay <= MaxDelay

VARIABLES
    transport,  \* "wecom" or "wechat"
    link,       \* what the WeCom client's loop is doing
    number,     \* how many websockets were opened: the last one's number
    websocket,  \* WeComAiBotClient._websocket: its number, 0 for None
    looping,    \* _websocket_loop is set
    delay,      \* seconds the next failure is slept
    stop,       \* close() was called
    seen,       \* the dedupe file
    torn,       \* it was truncated and the process died before it was written
    mark,       \* who holds the dedupe store's lock
    pc, msg,    \* per handler: where it is, which message it handles
    grabbed,    \* per handler: the websocket respond() has read
    left,       \* per handler: replies it has still to send
    out,        \* sends that wait for the event loop
    turns,      \* per message: how often the gateway was given it
    stream,     \* per message: what the platform shows
    unlogged,   \* replies that were lost without a word
    crashes

client == <<link, number, websocket, looping, delay>>
dedupe == <<seen, torn, mark>>
handler == <<pc, msg, grabbed, left>>
effects == <<out, turns, stream, unlogged>>
vars == <<transport, client, stop, dedupe, handler, effects, crashes>>

Places == {"idle", "mark", "write", "screen", "notice", "noticing", "turn",
           "answer", "answering", "done"}
Links == {"down", "publish", "subscribe", "up", "ended", "broken", "sleep",
          "stopped"}

Ids == {IdOf[m] : m \in Messages}

TypeOK ==
    /\ transport \in {"wecom", "wechat"} /\ link \in Links
    /\ number \in 0..MaxLinks /\ websocket \in 0..MaxLinks
    /\ looping \in BOOLEAN /\ delay \in BaseDelay..MaxDelay /\ stop \in BOOLEAN
    /\ seen \subseteq Ids /\ torn \in BOOLEAN
    /\ mark \in Handlers \cup {Free}
    /\ pc \in [Handlers -> Places]
    /\ msg \in [Handlers -> Messages \cup {Free}]
    /\ grabbed \in [Handlers -> 0..MaxLinks]
    /\ left \in [Handlers -> 0..MaxAnswers]
    /\ out \in Seq(Messages \X BOOLEAN \X (0..MaxLinks))
    /\ turns \in [Messages -> Nat]
    /\ stream \in [Messages -> {"none", "open", "closed"}]
    /\ unlogged \subseteq Messages /\ crashes \in 0..MaxCrashes

Init ==
    /\ transport \in {"wecom", "wechat"}
    /\ link = "down" /\ number = 0 /\ websocket = 0 /\ looping = FALSE
    /\ delay = BaseDelay /\ stop = FALSE
    /\ seen = {} /\ torn = FALSE /\ mark = Free
    /\ pc = [h \in Handlers |-> "idle"] /\ msg = [h \in Handlers |-> Free]
    /\ grabbed = [h \in Handlers |-> 0] /\ left = [h \in Handlers |-> 0]
    /\ out = <<>> /\ turns = [m \in Messages |-> 0]
    /\ stream = [m \in Messages |-> "none"] /\ unlogged = {}
    /\ crashes = 0

-----------------------------------------------------------------------------
(* The WeCom client's loop: _connect_forever and _receive_until_closed. *)

ClientStep(from) ==
    /\ transport = "wecom" /\ link = from
    /\ UNCHANGED <<transport, stop, dedupe, handler, effects, crashes>>

\* The loop's condition.
LoopEnds ==
    /\ ClientStep("down") /\ stop
    /\ link' = "stopped"
    /\ UNCHANGED <<number, websocket, looping, delay>>

\* ws_connect returns a socket, which is published before its event loop.
Connect ==
    /\ ClientStep("down") /\ ~stop /\ number < MaxLinks
    /\ number' = number + 1 /\ websocket' = number + 1
    /\ link' = "publish"
    /\ UNCHANGED <<looping, delay>>

PublishLoop ==
    /\ ClientStep("publish")
    /\ looping' = TRUE /\ link' = "subscribe"
    /\ UNCHANGED <<number, websocket, delay>>

\* Mutant: a failure ends the loop.
GiveUp == link' = "stopped"

\* An exception: the loop ends after close(), else it sleeps.
Failed == link' = IF stop THEN "stopped" ELSE "sleep"

ConnectFails ==
    /\ ClientStep("down") /\ ~stop /\ number < MaxLinks
    /\ Failed
    /\ UNCHANGED <<number, websocket, looping, delay>>

\* The socket stays published: only receiving takes it back.
SubscribeFails ==
    /\ ClientStep("subscribe") /\ number < MaxLinks
    /\ Failed
    /\ UNCHANGED <<number, websocket, looping, delay>>

Subscribe ==
    /\ ClientStep("subscribe")
    /\ link' = "up" /\ delay' = BaseDelay
    /\ UNCHANGED <<number, websocket, looping>>

\* The platform closes the socket or it breaks; the two fields are reset.
SocketCloses ==
    /\ ClientStep("up") /\ (number < MaxLinks \/ stop)
    /\ websocket' = 0
    /\ link' \in {"ended", "broken"}
    /\ UNCHANGED <<number, looping, delay>>

ResetLoop ==
    /\ \/ ClientStep("ended") /\ link' = "down"
       \/ ClientStep("broken") /\ Failed
    /\ looping' = FALSE
    /\ UNCHANGED <<number, websocket, delay>>

Wake ==
    /\ ClientStep("sleep")
    /\ delay' = IF 2 * delay > MaxDelay THEN MaxDelay ELSE 2 * delay
    /\ link' = "down"
    /\ UNCHANGED <<number, websocket, looping>>

\* close() only sets the flag (WeCom) or forgets the handler (WeChat).
Close ==
    /\ ~stop /\ stop' = TRUE
    /\ UNCHANGED <<transport, client, dedupe, handler, effects, crashes>>

\* The socket with this number can still carry a frame.
Live(n) == link \in {"publish", "subscribe", "up"} /\ n = number

\* What the platform shows once it has a frame.
Shown(m, finish) == [stream EXCEPT ![m] = IF finish THEN "closed" ELSE "open"]

\* The event loop takes the next scheduled send: it arrives, or its failure is
\* logged by the callback.  WeChat's loop is busy while a handler runs.
Busy == \E h \in Handlers : pc[h] \notin {"idle", "done"}
Flush ==
    /\ out # <<>>
    /\ transport = "wechat" => ~Busy
    /\ out' = Tail(out)
    /\ stream' = IF transport = "wechat" \/ Live(Head(out)[3])
                 THEN Shown(Head(out)[1], Head(out)[2]) ELSE stream
    /\ UNCHANGED <<transport, client, stop, dedupe, handler, turns, unlogged,
                   crashes>>

-----------------------------------------------------------------------------
(* Receiving: handle_frame gives the message to a new thread, the SDK's      *)
(* callback handles it in place.                                             *)
Starts(h, m) ==
    /\ pc[h] = "idle"
    /\ pc' = [pc EXCEPT ![h] = "mark"] /\ msg' = [msg EXCEPT ![h] = m]
    /\ UNCHANGED <<transport, client, stop, dedupe, grabbed, left, effects,
                   crashes>>
WeComFrame(h, m) == transport = "wecom" /\ link = "up" /\ Starts(h, m)
WechatMessage(h, m) ==
    transport = "wechat" /\ ~stop /\ ~Busy /\ Starts(h, m)

\* The id an event has: event_from_frame and event_from_message fall back on
\* a digest of sender, time and text, which two messages may share.
Id(h) == IdOf[msg[h]]

Step(h, from) ==
    /\ pc[h] = from
    /\ UNCHANGED <<transport, client, stop, msg, crashes>>
Goto(h, to) == pc' = [pc EXCEPT ![h] = to]

\* Mutant: the ids are read and tested before the lock is taken.
CheckUnlocked(h) ==
    /\ Step(h, "mark")
    /\ \/ Id(h) \in seen /\ Goto(h, "done")
       \/ Id(h) \notin seen /\ Goto(h, "write")
    /\ UNCHANGED <<dedupe, grabbed, left, effects>>

\* check_and_mark: a known id ends the handler, a new one is written.
CheckSeen(h) ==
    /\ Step(h, "mark") /\ mark = Free
    /\ \/ Id(h) \in seen /\ Goto(h, "done") /\ UNCHANGED mark
       \/ Id(h) \notin seen /\ Goto(h, "write") /\ mark' = h
    /\ UNCHANGED <<seen, torn, grabbed, left, effects>>

WriteSeen(h) ==
    /\ Step(h, "write")
    /\ seen' = seen \cup {Id(h)} /\ mark' = Free
    /\ Goto(h, "screen")
    /\ UNCHANGED <<torn, grabbed, left, effects>>

\* normalize_inbound drops what is no text or has no sender; the allowed users
\* were asked before.  _parse_input finds the management commands.
Served(m)    == m \notin Ignored
IsCommand(m) == m \in Commands

\* What is not served is dropped; a command is answered by the host (or raises), a
\* message of WeCom is first acknowledged.  The binding is the gateway's.
Screen(h) ==
    /\ Step(h, "screen")
    /\ \/ ~Served(msg[h]) /\ Goto(h, "done") /\ UNCHANGED left
       \/ /\ Served(msg[h]) /\ IsCommand(msg[h])
          /\ \/ Goto(h, "answer") /\ left' = [left EXCEPT ![h] = 1]
             \/ Goto(h, "done") /\ UNCHANGED left
       \/ /\ Served(msg[h]) /\ ~IsCommand(msg[h])
          /\ Goto(h, IF transport = "wecom" THEN "notice" ELSE "turn")
          /\ UNCHANGED left
    /\ UNCHANGED <<dedupe, grabbed, effects>>

\* gateway.process_input: raises, or returns some assistant messages.
Turn(h) ==
    /\ Step(h, "turn")
    /\ turns' = [turns EXCEPT ![msg[h]] = @ + 1]
    /\ \/ Goto(h, "done") /\ UNCHANGED left
       \/ \E n \in 1..MaxAnswers :
             Goto(h, "answer") /\ left' = [left EXCEPT ![h] = n]
    /\ UNCHANGED <<dedupe, grabbed, out, stream, unlogged>>

-----------------------------------------------------------------------------
(* Replies. *)

\* After a reply: the turn follows the notice, the next answer an answer.
Replied(h) ==
    IF pc[h] \in {"notice", "noticing"}
    THEN Goto(h, "turn") /\ UNCHANGED left
    ELSE /\ left' = [left EXCEPT ![h] = @ - 1]
         /\ Goto(h, IF left[h] = 1 THEN "done" ELSE "answer")

\* WeComAiBotClient.respond: without a websocket it returns.
ReadSocket(h) ==
    /\ transport = "wecom" /\ pc[h] \in {"notice", "answer"}
    /\ \/ /\ websocket = 0
          /\ unlogged' = unlogged \cup {msg[h]}
          /\ Replied(h) /\ UNCHANGED grabbed
       \/ /\ websocket # 0
          /\ grabbed' = [grabbed EXCEPT ![h] = websocket]
          /\ Goto(h, IF pc[h] = "notice" THEN "noticing" ELSE "answering")
          /\ UNCHANGED <<left, unlogged>>
    /\ UNCHANGED <<transport, client, stop, dedupe, msg, out, turns, stream,
                   crashes>>

\* Mutant: the send is started at once, on whatever loop the thread has.
SendNow(h) ==
    /\ transport = "wecom" /\ pc[h] \in {"noticing", "answering"}
    /\ IF pc[h] = "noticing"
       THEN /\ out' = Append(out, <<msg[h], FALSE, grabbed[h]>>)
            /\ UNCHANGED stream
       ELSE /\ stream' = IF Live(grabbed[h])
                         THEN Shown(msg[h], TRUE) ELSE stream
            /\ UNCHANGED out
    /\ Replied(h)
    /\ grabbed' = [grabbed EXCEPT ![h] = 0]
    /\ UNCHANGED <<transport, client, stop, dedupe, msg, turns, unlogged,
                   crashes>>

\* _run_async: with the client's loop running the send is scheduled on it.
\* Without, it is run here: on a socket that is closed, or belongs to another
\* loop, it may raise, which ends the handler.
Send(h) ==
    /\ transport = "wecom" /\ pc[h] \in {"noticing", "answering"}
    /\ \/ /\ looping /\ link # "stopped"
          /\ out' = Append(out, <<msg[h], pc[h] = "answering", grabbed[h]>>)
          /\ Replied(h) /\ UNCHANGED stream
       \/ /\ ~looping \/ link = "stopped"
          /\ Goto(h, "done") /\ UNCHANGED <<left, out, stream>>
       \/ /\ ~looping /\ Live(grabbed[h])
          /\ stream' = Shown(msg[h], pc[h] = "answering")
          /\ Replied(h) /\ UNCHANGED out
    /\ grabbed' = [grabbed EXCEPT ![h] = 0]
    /\ UNCHANGED <<transport, client, stop, dedupe, msg, turns, unlogged,
                   crashes>>

\* WechatSdkClient.reply: the handler runs in the loop, so the reply waits.
Reply(h) ==
    /\ transport = "wechat" /\ Step(h, "answer")
    /\ out' = Append(out, <<msg[h], TRUE, 0>>)
    /\ Replied(h)
    /\ UNCHANGED <<dedupe, grabbed, turns, stream, unlogged>>

\* The process dies and starts again; an id that was being written is lost
\* with all the others, since a file that does not parse is read as empty.
Crash ==
    /\ crashes < MaxCrashes /\ crashes' = crashes + 1
    /\ link' = "down" /\ number' = 0 /\ websocket' = 0 /\ looping' = FALSE
    /\ delay' = BaseDelay /\ stop' = FALSE
    /\ torn' = (torn \/ mark # Free)
    /\ seen' = IF mark # Free THEN {} ELSE seen
    /\ mark' = Free
    /\ pc' = [h \in Handlers |-> IF pc[h] = "idle" THEN "idle" ELSE "done"]
    /\ grabbed' = [h \in Handlers |-> 0] /\ left' = [h \in Handlers |-> 0]
    /\ out' = <<>>
    /\ UNCHANGED <<transport, msg, turns, stream, unlogged>>

-----------------------------------------------------------------------------
ClientLoop ==
    \/ LoopEnds \/ PublishLoop \/ Subscribe \/ ResetLoop \/ Wake

Handle(h) ==
    \/ CheckSeen(h) \/ WriteSeen(h) \/ Screen(h) \/ Turn(h)
    \/ ReadSocket(h) \/ Send(h) \/ Reply(h)

Next ==
    \/ ClientLoop \/ Connect \/ ConnectFails \/ SubscribeFails \/ SocketCloses
    \/ Close \/ Flush \/ Crash
    \/ \E h \in Handlers :
          \/ Handle(h)
          \/ \E m \in Messages : WeComFrame(h, m) \/ WechatMessage(h, m)

Spec == Init /\ [][Next]_vars

\* The client's thread runs on, and the platform accepts a connection and a
\* subscription when they are tried again and again.
FairSpec ==
    Spec /\ WF_vars(ClientLoop) /\ SF_vars(Connect) /\ SF_vars(Subscribe)

-----------------------------------------------------------------------------
(* Of the messages that have one id the gateway is given at most one, and    *)
(* once, however often and however close together the platform delivers them *)
(* and wherever the process dies, as long as the dedupe file was not cut     *)
(* (handle_event, check_and_mark).                                           *)
GivenOnce ==
    torn \/ \A m, n \in Messages :
               /\ turns[m] <= 1
               /\ IdOf[m] = IdOf[n] /\ m # n => turns[m] = 0 \/ turns[n] = 0

(* The platform never sees an answered message opened again: the notice      *)
(* "stream.finish=false" comes before the answers, also when the socket is   *)
(* replaced between the two (respond, _run_async).                           *)
StaysClosed ==
    [][\A m \in Messages :
          stream[m] = "closed" /\ ~torn => stream'[m] = "closed"]_vars

(* The client is connected again after every failure, in whichever of its    *)
(* steps, unless it was closed or its process died (_connect_forever).       *)
Reconnects ==
    transport = "wecom" /\ link # "up" ~> link = "up" \/ stop

(* docs/developer-guide/wecom-private-chat.md: when the user sees no answer, *)
(* the host's log shows "send failed", the sign of a lost connection.        *)
LossIsLogged == unlogged = {}
=============================================================================
