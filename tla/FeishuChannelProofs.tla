-------------------------- MODULE FeishuChannelProofs --------------------------
(***************************************************************************)
(* For any number of messages, deliveries, clicks, failed calls and        *)
(* crashes: a Feishu message is given to the gateway at most once, unless  *)
(* a crash cut the dedupe file; a message gets its DONE reaction only when *)
(* the chat has shown a final card for it; and until a crash a saved card  *)
(* that owes nothing says what its card message shows.  The last section   *)
(* proves of ChannelHost that one host of a machine is such a channel.     *)
(*                                                                         *)
(* HandledOnce alone does not say why the message that is about to be      *)
(* given was not given before: between the mark and the gateway lie the    *)
(* reaction, the binding and the card, with a crash or a retry anywhere.   *)
(* The invariant says that a message on its way is marked and new, and     *)
(* that a message that was given stays marked.                             *)
(*                                                                         *)
(* The other two rest on what a delivery leaves behind, call by call, and  *)
(* on what a thread carries from its delivery to its save and to the       *)
(* reaction: the records it works on are copies, and another thread may    *)
(* have delivered and saved the card in between.                           *)
(***************************************************************************)
EXTENDS FeishuChannel, ChannelHost, TLAPS

(* From the mark to the gateway.                                           *)
OnItsWay == {"seen", "carding", "saving card", "processing"}

ChannelType ==
    /\ at = [a \in Threads |-> at[a]] /\ msg = [a \in Threads |-> msg[a]]
    /\ handled \in [Messages -> Nat]
    /\ at["events"] \in OnItsWay => msg["events"] \in Messages

MarkedBefore ==
    /\ at["events"] \in OnItsWay =>
          msg["events"] \in seen /\ handled[msg["events"]] = 0
    /\ \A m \in Messages : handled[m] # 0 => m \in seen
    /\ \A m \in Messages : handled[m] <= 1

Inductive == ChannelType /\ (cut \/ MarkedBefore)

(* A step that marks nothing and gives nothing, after which a message is   *)
(* on its way only if it was.                                              *)
Harmless ==
    /\ UNCHANGED <<seen, handled, cut>>
    /\ at' = [a \in Threads |-> at'[a]] /\ msg' = [a \in Threads |-> msg'[a]]
    /\ at'["events"] \in OnItsWay =>
          at["events"] \in OnItsWay /\ msg'["events"] = msg["events"]

LEMMA HarmlessKeeps == ASSUME Inductive, Harmless PROVE Inductive'
BY DEF Inductive, Harmless, ChannelType, MarkedBefore

(* A delivery or a held-back event moves the thread to the next point.     *)
LEMMA DeliverMoves ==
    ASSUME Inductive, NEW a \in Threads, NEW m, NEW r, NEW next,
           Deliver(a, m, r, next) \/ HoldBack(a, r, next)
    PROVE  UNCHANGED <<seen, handled, cut>> /\ at' = [at EXCEPT ![a] = next]
BY DEF Deliver, HoldBack, Goto, files, counts

(* A saved card releases the lock; its thread goes on with its message.    *)
LEMMA SaveCardKeeps ==
    ASSUME Inductive, NEW a \in Threads, NEW from, NEW next, SaveCard(a, from, next),
           a = "events" /\ next \in OnItsWay => from \in OnItsWay
    PROVE  Inductive'
<1>1. /\ at' = [at EXCEPT ![a] = next]
      /\ msg' = [msg EXCEPT ![a] = IF next = "idle" THEN None ELSE msg[a]]
      /\ at[a] = from /\ UNCHANGED <<seen, handled, cut>>
  BY DEF SaveCard, Rest, Goto, Keep, counts
<1>2. Harmless
  BY <1>1 DEF Inductive, ChannelType, Harmless, OnItsWay, Threads
<1> QED
  BY <1>2, HarmlessKeeps

(* A write that raises sends its thread off the way; a retry thread that   *)
(* is not handling a message ends.                                         *)
LEMMA SaveRaisesLeaves ==
    ASSUME NEW a \in Threads, SaveRaises(a)
    PROVE  \E next \in {"dead", "finally", "idle"} :
               Rest(a, next) /\ (a = "events" => next # "dead")
<1>1. CASE a = "retry"
  BY <1>1 DEF SaveRaises
<1>2. CASE a # "retry" /\ at[a] \in {"saving card", "saving"}
  BY <1>2 DEF SaveRaises
<1>3. CASE a # "retry" /\ at[a] \notin {"saving card", "saving"}
  BY <1>3 DEF SaveRaises
<1> QED BY <1>1, <1>2, <1>3

LEMMA SaveRaisesKeeps ==
    ASSUME Inductive, NEW a \in Threads, SaveRaises(a) PROVE Inductive'
<1>1. /\ \E next \in {"dead", "finally", "idle"} :
            /\ at' = [at EXCEPT ![a] = next]
            /\ msg' = [msg EXCEPT ![a] = IF next = "idle" THEN None ELSE msg[a]]
      /\ UNCHANGED <<seen, handled, cut>>
  <2>1. PICK next \in {"dead", "finally", "idle"} : Rest(a, next)
    BY SaveRaisesLeaves
  <2>2. /\ at' = [at EXCEPT ![a] = next]
        /\ msg' = [msg EXCEPT ![a] = IF next = "idle" THEN None ELSE msg[a]]
    BY <2>1 DEF Rest, Goto, Keep
  <2>3. UNCHANGED <<seen, handled, cut>>
    BY DEF SaveRaises
  <2> QED BY <2>2, <2>3
<1>2. Harmless
  BY <1>1 DEF Inductive, ChannelType, Harmless, OnItsWay, Threads
<1> QED
  BY <1>2, HarmlessKeeps

(* check_and_mark: the message taken was not marked, hence never given.    *)
LEMMA ReceiveKeeps == ASSUME Inductive, NEW m \in Messages, Receive(m) PROVE Inductive'
<1>1. CASE m \in seen
  <2>1. Harmless
    BY <1>1 DEF Receive, Inductive, ChannelType, Harmless
  <2> QED
    BY <2>1, HarmlessKeeps
<1>2. CASE m \notin seen
  <2>1. /\ seen' = seen \cup {m} /\ UNCHANGED <<handled, cut>>
        /\ msg' = [msg EXCEPT !["events"] = m] /\ at' = [at EXCEPT !["events"] = "seen"]
    BY <1>2 DEF Receive, Goto
  <2>2. ChannelType'
    BY <2>1 DEF Inductive, ChannelType, Threads
  <2>3. cut \/ MarkedBefore'
    <3>1. SUFFICES ASSUME MarkedBefore PROVE MarkedBefore'
      BY DEF Inductive
    <3>2. handled[m] = 0
      BY <1>2, <3>1 DEF MarkedBefore
    <3>3. msg'["events"] = m
      BY <2>1 DEF Inductive, ChannelType, Threads
    <3> QED
      BY <2>1, <3>1, <3>2, <3>3 DEF MarkedBefore
  <2> QED
    BY <2>1, <2>2, <2>3 DEF Inductive
<1> QED
  BY <1>1, <1>2

(* The gateway is given a message that leaves the way at once.             *)
LEMMA ProcessKeeps == ASSUME Inductive, Process PROVE Inductive'
<1> DEFINE m == msg["events"]
<1>1. /\ at["events"] = "processing" /\ handled' = [handled EXCEPT ![m] = @ + 1]
      /\ UNCHANGED <<seen, msg, cut>>
      /\ \E next \in {"dispatching", "finally"} : at' = [at EXCEPT !["events"] = next]
  BY DEF Process, Goto, files
<1>2. m \in Messages
  BY <1>1 DEF Inductive, ChannelType, OnItsWay
<1>3. at'["events"] \notin OnItsWay /\ ChannelType'
  <2>1. handled' \in [Messages -> Nat]
    BY <1>1, <1>2 DEF Inductive, ChannelType
  <2>2. /\ at' = [a \in Threads |-> at'[a]] /\ msg' = [a \in Threads |-> msg'[a]]
        /\ at'["events"] \in {"dispatching", "finally"}
    BY <1>1 DEF Inductive, ChannelType, Threads
  <2> QED
    BY <2>1, <2>2 DEF ChannelType, OnItsWay
<1>4. ASSUME MarkedBefore PROVE MarkedBefore'
  <2>1. m \in seen /\ handled[m] = 0
    BY <1>1, <1>4 DEF MarkedBefore, OnItsWay
  <2>2. \A o \in Messages : handled'[o] = IF o = m THEN 1 ELSE handled[o]
    BY <1>1, <1>2, <2>1 DEF Inductive, ChannelType
  <2> QED
    BY <1>1, <1>3, <1>4, <2>1, <2>2 DEF MarkedBefore
<1> QED
  BY <1>1, <1>3, <1>4 DEF Inductive

(* A crash sends both threads home; if it cuts the file, it says so.       *)
LEMMA CrashKeeps == ASSUME Inductive, Crash PROVE Inductive'
<1>1. /\ at' = [a \in Threads |-> "idle"] /\ msg' = [a \in Threads |-> None] /\ handled' = handled
      /\ UNCHANGED <<seen, cut>> \/ cut' = TRUE
  BY DEF Crash
<1>2. at'["events"] \notin OnItsWay
  BY <1>1 DEF OnItsWay, Threads
<1> QED
  BY <1>1, <1>2 DEF Inductive, ChannelType, MarkedBefore

(* Everything else that is done for a message.                             *)
LEMMA HandleMessageKeeps == ASSUME Inductive, HandleMessage PROVE Inductive'
<1>1. CASE Normalize \/ Manage
  <2>1. Harmless
    BY <1>1 DEF Normalize, Manage, MarkCompleted, Rest, Goto, Keep, files, counts, Inductive, ChannelType,
                Harmless, OnItsWay, Threads
  <2> QED
    BY <2>1, HarmlessKeeps
<1>2. CASE BindFails \/ ReuseCard
  <2>1. Harmless
    BY <1>2 DEF BindFails, ReuseCard, Goto, files, counts, Inductive, ChannelType, Harmless,
                OnItsWay, Threads
  <2> QED
    BY <2>1, HarmlessKeeps
<1>3. CASE NewTurnCard
  <2>1. /\ UNCHANGED <<seen, handled, cut, msg>> /\ at["events"] = "carding"
        /\ at' = [at EXCEPT !["events"] = "saving card"]
    BY <1>3, DeliverMoves DEF NewTurnCard, Threads
  <2>2. Harmless
    BY <2>1 DEF Inductive, ChannelType, Harmless, OnItsWay, Threads
  <2> QED
    BY <2>2, HarmlessKeeps
<1>4. CASE SaveCard("events", "saving card", "processing")
  BY <1>4, SaveCardKeeps DEF OnItsWay, Threads
<1>5. CASE Process
  BY <1>5, ProcessKeeps
<1>6. CASE DispatchEvent
  <2>1. /\ UNCHANGED <<seen, handled, cut, msg>>
        /\ \E next \in {"saving answer", "saving"} : at' = [at EXCEPT !["events"] = next]
    BY <1>6, DeliverMoves DEF DispatchEvent, Threads
  <2>2. Harmless
    BY <2>1 DEF Inductive, ChannelType, Harmless, OnItsWay, Threads
  <2> QED
    BY <2>2, HarmlessKeeps
<1>7. CASE SaveCard("events", "saving", "marking")
  BY <1>7, SaveCardKeeps DEF OnItsWay, Threads
<1>8. CASE CompleteMessage \/ DispatchEnds
  <2>1. Harmless
    BY <1>8 DEF CompleteMessage, DispatchEnds, Rest, Goto, Keep, files, counts, Inductive, ChannelType,
                Harmless, OnItsWay, Threads
  <2> QED
    BY <2>1, HarmlessKeeps
<1> QED
  BY <1>1, <1>2, <1>3, <1>4, <1>5, <1>6, <1>7, <1>8 DEF HandleMessage

(* A click is never on the way to the gateway as a message.                *)
LEMMA HandleActionKeeps ==
    ASSUME Inductive, HandleAction \/ \E m \in Messages : Click(m) PROVE Inductive'
<1>1. CASE Control \/ \E m \in Messages : Click(m)
  <2>1. Harmless
    BY <1>1 DEF Control, Click, Goto, files, counts, Inductive, ChannelType, Harmless, OnItsWay, Threads
  <2> QED
    BY <2>1, HarmlessKeeps
<1>2. CASE ShowAction \/ ShowFailure
  <2>1. /\ UNCHANGED <<seen, handled, cut, msg>>
        /\ \E next \in {"saving action", "saving failure"} : at' = [at EXCEPT !["events"] = next]
    BY <1>2, DeliverMoves DEF ShowAction, ShowFailure, Threads
  <2>2. Harmless
    BY <2>1 DEF Inductive, ChannelType, Harmless, OnItsWay, Threads
  <2> QED
    BY <2>2, HarmlessKeeps
<1>3. CASE \/ SaveCard("events", "saving action", "controlling")
           \/ SaveCard("events", "saving answer", "answering")
           \/ SaveCard("events", "saving failure", "idle")
  BY <1>3, SaveCardKeeps DEF OnItsWay, Threads
<1> QED
  BY <1>1, <1>2, <1>3 DEF HandleAction

(* The retry thread gives nothing; the events thread retries afterwards.   *)
LEMMA RetryKeeps == ASSUME Inductive, NEW a \in Threads, Retry(a) PROVE Inductive'
<1>1. CASE ListPending(a) \/ CompleteRetried(a) \/ RetryEnds(a)
  <2>1. /\ UNCHANGED <<seen, handled, cut>>
        /\ \E next \in {"retrying", "idle"} : at' = [at EXCEPT ![a] = next]
        /\ msg' = msg \/ \E o : msg' = [msg EXCEPT ![a] = o]
    BY <1>1 DEF ListPending, CompleteRetried, RetryEnds, Rest, Goto, Keep, files, counts
  <2>2. Harmless
    BY <2>1 DEF Inductive, ChannelType, Harmless, OnItsWay, Threads
  <2> QED
    BY <2>2, HarmlessKeeps
<1>2. CASE RetryCard(a)
  <2>1. /\ UNCHANGED <<seen, handled, cut>> /\ at' = [at EXCEPT ![a] = "saving retry"]
        /\ \E o : msg' = [msg EXCEPT ![a] = o]
    <3>1. PICK c \in todo[a] : /\ Deliver(a, c[1], c[2], "saving retry")
                              /\ msg' = [msg EXCEPT ![a] = c[1]]
      BY <1>2 DEF RetryCard
    <3> QED
      BY <3>1, DeliverMoves
  <2>2. Harmless
    BY <2>1 DEF Inductive, ChannelType, Harmless, OnItsWay, Threads
  <2> QED
    BY <2>2, HarmlessKeeps
<1>3. CASE SaveCard(a, "saving retry", "retried")
  BY <1>3, SaveCardKeeps DEF OnItsWay
<1> QED
  BY <1>1, <1>2, <1>3 DEF Retry

LEMMA StepKeeps == Inductive /\ [Next]_vars => Inductive'
<1> SUFFICES ASSUME Inductive, [Next]_vars PROVE Inductive'
  OBVIOUS
<1>1. CASE UNCHANGED vars
  <2>1. Harmless
    BY <1>1 DEF vars, files, threads, counts, Inductive, ChannelType, Harmless
  <2> QED
    BY <2>1, HarmlessKeeps
<1>2. ASSUME NEW m \in Messages, Receive(m) PROVE Inductive'
  BY <1>2, ReceiveKeeps
<1>3. ASSUME NEW m \in Messages, Click(m) PROVE Inductive'
  BY <1>3, HandleActionKeeps
<1>4. CASE HandleMessage
  BY <1>4, HandleMessageKeeps
<1>5. CASE HandleAction
  BY <1>5, HandleActionKeeps
<1>6. ASSUME NEW a \in Threads, Retry(a) \/ SaveRaises(a) PROVE Inductive'
  BY <1>6, RetryKeeps, SaveRaisesKeeps
<1>7. CASE Crash
  BY <1>7, CrashKeeps
<1> QED
  BY <1>1, <1>2, <1>3, <1>4, <1>5, <1>6, <1>7 DEF Next

(* At every point of every behaviour a message on its way to the gateway   *)
(* is marked and new (host.py handle_event, dedupe.py check_and_mark).     *)
THEOREM MarkedBeforeGiven == Spec => []Inductive
<1>1. Init => Inductive
  BY DEF Init, Inductive, ChannelType, MarkedBefore, OnItsWay, Threads
<1> QED
  BY <1>1, StepKeeps, PTL DEF Spec

(* The dedupe file makes the channel idempotent across redeliveries and    *)
(* restarts (dedupe.py: "restart-safe short-term idempotency").            *)
THEOREM HandledOnceAlways == Spec => []HandledOnce
<1>1. Inductive => HandledOnce
  BY DEF Inductive, ChannelType, MarkedBefore, HandledOnce
<1> QED
  BY <1>1, MarkedBeforeGiven, PTL
-----------------------------------------------------------------------------
(* A delivery, call by call (_sync_card_delivery, host.py, and cards.py).  *)

Fields == {"r", "posts", "again", "bad", "end"}

(* A delivery of a card with status st, when the chat had n messages, that *)
(* is under way, and has its own message; or has ended: as a failure that  *)
(* leaves the card pending, or with a record that owes nothing and says    *)
(* what its message shows.                                                 *)
Aboard(x, st, n) ==
    /\ x = [f \in Fields |-> x[f]] /\ x.r \in Cards /\ x.r.status = st
    /\ x.posts \in Seq(Posts) /\ n <= Len(x.posts) /\ x.r.msg <= Len(x.posts)

Flight(x, st, n) == Aboard(x, st, n) /\ x.r.msg # 0

Told(x, st) ==
    LET p == x.posts[x.r.msg] IN p.status = st /\ (st = "requires_action" => p.how = "kit")

Landed(x, st, n) ==
    /\ Aboard(x, st, n)
    /\ \/ x.end = "failed" /\ x.r.pending
       \/ x.end = "delivered" /\ x.r.msg # 0 /\ ~x.r.pending /\ ~x.r.dirty /\ Told(x, st)

(* What marking a success or a failure makes of a record.                  *)
LEMMA Marks ==
    ASSUME NEW r \in Cards
    PROVE  /\ Succeeded(r) \in Cards /\ Succeeded(r).status = r.status
           /\ ~Succeeded(r).pending /\ Succeeded(r).card = r.card /\ Succeeded(r).kit = r.kit
           /\ Succeeded(r).msg = r.msg
           /\ \A e \in {"approval", "other"} :
                 /\ Failed(r, e) \in Cards /\ Failed(r, e).status = r.status
                 /\ Failed(r, e).pending /\ Failed(r, e).msg = r.msg
BY DEF Cards, Succeeded, Failed

(* A field of a delivery that is set, and those that are not.              *)
LEMMA SetRecord ==
    ASSUME NEW st, NEW n \in Nat, NEW x, Aboard(x, st, n),
           NEW r \in Cards, r.status = st, r.msg = x.r.msg
    PROVE  LET y == [x EXCEPT !.r = r] IN
           /\ Aboard(y, st, n) /\ (x.r.msg # 0 => Flight(y, st, n))
           /\ y.r = r /\ y.posts = x.posts /\ y.end = x.end
BY DEF Aboard, Flight, Fields

LEMMA SetEnd ==
    ASSUME NEW st, NEW n \in Nat, NEW x, Aboard(x, st, n), NEW e
    PROVE  LET y == [x EXCEPT !.end = e] IN
           Aboard(y, st, n) /\ y.r = x.r /\ y.posts = x.posts /\ y.end = e
BY DEF Aboard, Fields

(* A message of the chat that is changed.                                  *)
LEMMA SetPost ==
    ASSUME NEW st, NEW n \in Nat, NEW x, Flight(x, st, n), NEW p \in Posts
    PROVE  LET y == [x EXCEPT !.posts[x.r.msg] = p] IN
           /\ Flight(y, st, n) /\ y.r = x.r /\ y.end = x.end /\ y.posts[y.r.msg] = p
<1> DEFINE y == [x EXCEPT !.posts[x.r.msg] = p]
           ps == [x.posts EXCEPT ![x.r.msg] = p]
<1>1. /\ y = [f \in Fields |-> y[f]] /\ y.r = x.r /\ y.end = x.end /\ y.posts = ps
  BY DEF Aboard, Flight, Fields
<1>2. /\ x.posts \in Seq(Posts) /\ x.r.msg \in 1..Len(x.posts) /\ n <= Len(x.posts)
      /\ x.r \in Cards /\ x.r.status = st
  BY DEF Aboard, Flight, Cards
<1>3. ps \in Seq(Posts) /\ Len(ps) = Len(x.posts) /\ ps[x.r.msg] = p
  BY <1>2
<1> HIDE DEF ps, y
<1>4. Flight(y, st, n) /\ y.posts[y.r.msg] = p
  BY <1>1, <1>2, <1>3 DEF Aboard, Flight
<1> QED BY <1>1, <1>4 DEF y

(* A failed call, a number that was used, a card that is shown.            *)
LEMMA BadFlight ==
    ASSUME NEW st, NEW n \in Nat, NEW x, Aboard(x, st, n)
    PROVE  /\ Aboard(Bad(x), st, n) /\ (Flight(x, st, n) => Flight(Bad(x), st, n))
           /\ Bad(x).r = x.r /\ Bad(x).end = x.end
BY DEF Aboard, Flight, Fields, Bad

LEMMA NumberFlight ==
    ASSUME NEW st, NEW n \in Nat, NEW x, Flight(x, st, n)
    PROVE  /\ Flight(Number(x), st, n) /\ Number(x).end = x.end
           /\ Told(x, st) => Told(Number(x), st)
<1> DEFINE p == x.posts[x.r.msg]
           o == [p EXCEPT !.top = IF x.r.seq > p.top THEN x.r.seq ELSE p.top]
           s == [x.r EXCEPT !.seq = x.r.seq + 1]
           y == [x EXCEPT !.again = x.again \/ x.r.seq <= p.top]
           z == [y EXCEPT !.r = s]
           w == [z EXCEPT !.posts[z.r.msg] = o]
<1>1. p \in Posts /\ x.r \in Cards
  BY DEF Aboard, Flight, Cards
<1>2. o \in Posts /\ o.status = p.status /\ o.how = p.how
  BY <1>1 DEF Posts, Cards
<1>3. s \in Cards /\ s.status = st /\ s.msg = x.r.msg
  <2>1. x.r.seq + 1 \in Nat \ {0} /\ x.r.seq + 1 \in Nat
    BY <1>1 DEF Cards
  <2>2. x.r.status = st
    BY DEF Aboard, Flight
  <2> QED BY <1>1, <2>1, <2>2 DEF Cards
<1>4. Flight(y, st, n) /\ y.r = x.r /\ y.end = x.end /\ y.posts = x.posts
  BY DEF Aboard, Flight, Fields
<1>5. Number(x) = [x EXCEPT !.r = s, !.again = x.again \/ x.r.seq <= p.top,
                            !.posts[x.r.msg] = o]
  BY DEF Number, Aboard, Flight, Fields
<1> HIDE DEF s, o
<1>6. Number(x) = w
  BY <1>3, <1>5 DEF Aboard, Flight, Fields
<1> HIDE DEF y
<1>7. Flight(z, st, n) /\ z.r = s /\ z.end = x.end /\ z.posts = x.posts
  BY <1>3, <1>4, SetRecord DEF Flight
<1> HIDE DEF z
<1>8. Flight(w, st, n) /\ w.end = x.end /\ w.posts[w.r.msg] = o
  BY <1>2, <1>7, SetPost
<1> QED BY <1>2, <1>6, <1>8 DEF Told

LEMMA ShowFlight ==
    ASSUME NEW st, NEW n \in Nat, NEW x, Flight(x, st, n), NEW how \in {"send", "patch", "kit"}
    PROVE  /\ Flight(Show(x, how), st, n) /\ Show(x, how).r = x.r /\ Show(x, how).end = x.end
           /\ st # "requires_action" \/ how = "kit" => Told(Show(x, how), st)
<1> DEFINE p == x.posts[x.r.msg]
           o == [p EXCEPT !.status = x.r.status, !.how = how]
           w == [x EXCEPT !.posts[x.r.msg] = o]
<1>1. p \in Posts /\ x.r.status \in Statuses /\ x.r.status = st
  BY DEF Aboard, Flight, Cards
<1>2. o \in Posts /\ o.status = st /\ o.how = how
  BY <1>1 DEF Posts
<1>3. Show(x, how) = w
  BY DEF Show, Aboard, Flight, Fields
<1> HIDE DEF o
<1>4. Flight(w, st, n) /\ w.r = x.r /\ w.end = x.end /\ w.posts[w.r.msg] = o
  BY <1>2, SetPost
<1> QED BY <1>2, <1>3, <1>4 DEF Told

(* A call that raises leaves the card pending, a last call that is         *)
(* accepted leaves nothing owed.                                           *)
LEMMA RaiseLands ==
    ASSUME NEW st, NEW n \in Nat, NEW x, Aboard(x, st, n),
           NEW e \in {"approval", "other"}, NEW y \in Raise(x, e)
    PROVE  Landed(y, st, n) /\ y.end = "failed"
<1> DEFINE s == Failed(x.r, e)
           z == [x EXCEPT !.r = s]
           v == [z EXCEPT !.end = "failed"]
<1>1. s \in Cards /\ s.status = st /\ s.pending /\ s.msg = x.r.msg
  BY Marks DEF Aboard
<1> HIDE DEF s
<1>2. Aboard(z, st, n) /\ z.r = s
  BY <1>1, SetRecord
<1>3. v = [x EXCEPT !.r = s, !.end = "failed"]
  BY DEF Aboard, Fields
<1>4. y = v
  BY <1>3 DEF Raise, s
<1> HIDE DEF z
<1>5. Aboard(v, st, n) /\ v.r = s /\ v.end = "failed"
  BY <1>2, SetEnd
<1> QED BY <1>1, <1>4, <1>5 DEF Landed

LEMMA DoneLands ==
    ASSUME NEW st, NEW n \in Nat, NEW x, Flight(x, st, n), Told(x, st), NEW y \in Done(x)
    PROVE  Landed(y, st, n)
<1> DEFINE t == Succeeded(x.r)
           s == [t EXCEPT !.dirty = FALSE]
           z == [x EXCEPT !.r = s]
           v == [z EXCEPT !.end = "delivered"]
<1>1. t \in Cards /\ t.status = st /\ ~t.pending /\ t.msg = x.r.msg
  BY Marks DEF Aboard, Flight
<1> HIDE DEF t
<1>2. s \in Cards /\ s.status = st /\ ~s.pending /\ ~s.dirty /\ s.msg = x.r.msg
  BY <1>1 DEF Cards
<1> HIDE DEF s
<1>3. Flight(z, st, n) /\ z.r = s /\ z.posts = x.posts
  BY <1>2, SetRecord DEF Flight
<1>4. v = [x EXCEPT !.r = s, !.end = "delivered"]
  BY DEF Aboard, Flight, Fields
<1>5. y = v
  BY <1>4 DEF Done, s, t
<1> HIDE DEF z
<1>6. Aboard(v, st, n) /\ v.r = s /\ v.end = "delivered" /\ v.posts = z.posts
  BY <1>3, SetEnd DEF Flight
<1> QED BY <1>2, <1>3, <1>5, <1>6 DEF Flight, Landed, Told

(* client.update_card; the card asks for no approval.                      *)
LEMMA PatchLands ==
    ASSUME NEW st, NEW n \in Nat, NEW x, Flight(x, st, n), st # "requires_action", NEW y \in PatchCard(x)
    PROVE  Landed(y, st, n)
<1>1. PatchCard(x) = Done(Show(x, "patch")) \cup Raise(Bad(x), "other")
  BY DEF PatchCard, Call, RaiseOther
<1>2. CASE y \in Done(Show(x, "patch"))
  <2>1. Flight(Show(x, "patch"), st, n) /\ Told(Show(x, "patch"), st)
    BY ShowFlight
  <2> QED BY <1>2, <2>1, DoneLands
<1>3. CASE y \in Raise(Bad(x), "other")
  BY <1>3, BadFlight, RaiseLands DEF Flight
<1> QED BY <1>1, <1>2, <1>3

(* The stream of a card that is shown is ended.                            *)
LEMMA EndStreamLands ==
    ASSUME NEW st, NEW n \in Nat, NEW x, Flight(x, st, n), Told(x, st), NEW y \in EndStream(x)
    PROVE  Landed(y, st, n)
<1> DEFINE k == Number(x)
           s == [k.r EXCEPT !.streaming = FALSE]
           z == [k EXCEPT !.r = s]
<1>1. CASE ~x.r.streaming
  <2>1. y \in Done(x)
    BY <1>1 DEF EndStream
  <2> QED BY <2>1, DoneLands
<1>2. CASE x.r.streaming
  <2>1. EndStream(x) = Done([k EXCEPT !.r.streaming = FALSE]) \cup Raise(Bad(k), "other")
    BY <1>2 DEF EndStream, Call, RaiseOther
  <2>2. Flight(k, st, n) /\ Told(k, st)
    BY NumberFlight
  <2> HIDE DEF k
  <2>3. s \in Cards /\ s.status = st /\ s.msg = k.r.msg
    BY <2>2 DEF Aboard, Flight, Cards
  <2>4. [k EXCEPT !.r.streaming = FALSE] = z
    BY <2>2 DEF Aboard, Flight, Fields
  <2> HIDE DEF s
  <2>5. Flight(z, st, n) /\ Told(z, st)
    BY <2>2, <2>3, SetRecord DEF Told, Flight
  <2> HIDE DEF z
  <2>6. CASE y \in Done(z)
    BY <2>5, <2>6, DoneLands
  <2>7. CASE y \in Raise(Bad(k), "other")
    BY <2>2, <2>7, BadFlight, RaiseLands DEF Flight
  <2> QED BY <2>1, <2>4, <2>6, <2>7
<1> QED BY <1>1, <1>2

(* CardKit is given up: the message will be patched.                       *)
LEMMA NoCardKitFlight ==
    ASSUME NEW st, NEW n \in Nat, NEW x, Flight(x, st, n)
    PROVE  /\ Flight(NoCardKit(x), st, n) /\ NoCardKit(x).r.kit = "no"
           /\ NoCardKit(x).end = x.end
<1> DEFINE t == [x.r EXCEPT !.kit = "no"]
           s == [t EXCEPT !.streaming = FALSE]
           w == [x EXCEPT !.r = t]
           z == [w EXCEPT !.r = s]
<1>1. t \in Cards /\ t.status = st /\ t.kit = "no" /\ t.msg = x.r.msg
  BY DEF Aboard, Flight, Cards
<1>2. NoCardKit(x) = z
  BY DEF NoCardKit, Aboard, Flight, Fields
<1> HIDE DEF t
<1>3. Flight(w, st, n) /\ w.r = t /\ w.end = x.end
  BY <1>1, SetRecord DEF Flight
<1> HIDE DEF w
<1>4. s \in Cards /\ s.status = st /\ s.kit = "no" /\ s.msg = t.msg
  BY <1>1 DEF Cards
<1> HIDE DEF s
<1>5. Flight(z, st, n) /\ z.r = s /\ z.end = w.end
  BY <1>3, <1>4, SetRecord DEF Flight
<1> QED BY <1>2, <1>3, <1>4, <1>5

(* _sync_approval_card_via_cardkit shows the card by CardKit, or raises.   *)
LEMMA ApprovalLands ==
    ASSUME NEW st, NEW n \in Nat, NEW x, Flight(x, st, n), NEW y \in ApprovalCard(x)
    PROVE  Landed(y, st, n)
<1> DEFINE k == Number(x)
           w == Show(k, "kit")
           s == [w.r EXCEPT !.kit = "yes"]
           z == [w EXCEPT !.r = s]
<1>1. ApprovalCard(x) = EndStream([w EXCEPT !.r.kit = "yes"]) \cup Raise(Bad(k), "other")
  BY DEF ApprovalCard, Call, RaiseOther
<1>2. Flight(k, st, n)
  BY NumberFlight
<1> HIDE DEF k
<1>3. Flight(w, st, n) /\ Told(w, st)
  BY <1>2, ShowFlight
<1> HIDE DEF w
<1>4. s \in Cards /\ s.status = st /\ s.msg = w.r.msg
  BY <1>3 DEF Aboard, Flight, Cards
<1>5. [w EXCEPT !.r.kit = "yes"] = z
  BY <1>3 DEF Aboard, Flight, Fields
<1> HIDE DEF s
<1>6. Flight(z, st, n) /\ Told(z, st)
  BY <1>3, <1>4, SetRecord DEF Told, Flight
<1> HIDE DEF z
<1>7. CASE y \in EndStream(z)
  BY <1>6, <1>7, EndStreamLands
<1>8. CASE y \in Raise(Bad(k), "other")
  BY <1>2, <1>8, BadFlight, RaiseLands DEF Flight
<1> QED BY <1>1, <1>5, <1>7, <1>8

(* A running card: streamed, patched, or raised.                           *)
LEMMA StreamLands ==
    ASSUME NEW st, NEW n \in Nat, NEW x, Flight(x, st, n), st # "requires_action", NEW y \in StreamCard(x)
    PROVE  Landed(y, st, n)
<1> DEFINE Fallback(z) == PatchCard(NoCardKit(Bad(z)))
           Open(z) == Number([z EXCEPT !.r.streaming = TRUE])
           Update(z) == Done(Show(Open(z), "kit")) \cup Fallback(Open(z)) \cup Raise(Bad(Open(z)), "other")
<1>1. ASSUME NEW z, Flight(z, st, n)
      PROVE  /\ \A v \in Fallback(z) : Landed(v, st, n)
             /\ \A v \in Raise(Bad(z), "other") : Landed(v, st, n)
  <2>1. Flight(Bad(z), st, n)
    BY <1>1, BadFlight DEF Flight
  <2>2. Flight(NoCardKit(Bad(z)), st, n)
    BY <2>1, NoCardKitFlight
  <2> QED BY <2>1, <2>2, PatchLands, RaiseLands DEF Flight
<1>2. ASSUME NEW z, Flight(z, st, n), NEW v \in Update(z)
      PROVE  Landed(v, st, n)
  <2> DEFINE s == [z.r EXCEPT !.streaming = TRUE]
             w == [z EXCEPT !.r = s]
  <2>1. s \in Cards /\ s.status = st /\ s.msg = z.r.msg
    BY <1>2 DEF Aboard, Flight, Cards
  <2>2. [z EXCEPT !.r.streaming = TRUE] = w
    BY <1>2 DEF Aboard, Flight, Fields
  <2> HIDE DEF s
  <2>3. Flight(w, st, n)
    BY <1>2, <2>1, SetRecord DEF Flight
  <2>4. Open(z) = Number(w)
    BY <2>2
  <2> HIDE DEF w
  <2> DEFINE k == Number(w)
  <2>5. Flight(k, st, n)
    BY <2>3, NumberFlight
  <2>6. v \in Done(Show(k, "kit")) \cup Fallback(k) \cup Raise(Bad(k), "other")
    BY <1>2, <2>4
  <2> HIDE DEF k, Fallback, Open, Update
  <2>7. CASE v \in Done(Show(k, "kit"))
    <3>1. Flight(Show(k, "kit"), st, n) /\ Told(Show(k, "kit"), st)
      BY <2>5, ShowFlight
    <3> QED BY <2>7, <3>1, DoneLands
  <2>8. CASE v \in Fallback(k) \cup Raise(Bad(k), "other")
    BY <1>1, <2>5, <2>8
  <2> QED BY <2>6, <2>7, <2>8
<1>3. StreamCard(x) = IF x.r.streaming THEN Update(x)
                      ELSE Update(Number(x)) \cup Fallback(Number(x)) \cup Raise(Bad(Number(x)), "other")
  BY DEF StreamCard, Call, RaiseOther
<1> HIDE DEF Fallback, Open, Update
<1>4. Flight(Number(x), st, n)
  BY NumberFlight
<1> QED BY <1>1, <1>2, <1>3, <1>4

(* A stable card that asks for no approval.                                *)
LEMMA FinalLands ==
    ASSUME NEW st, NEW n \in Nat, NEW x, Flight(x, st, n), st # "requires_action", NEW y \in FinalCard(x)
    PROVE  Landed(y, st, n)
<1> DEFINE k == Number(x)
<1>1. FinalCard(x) = IF x.r.streaming THEN EndStream(Show(k, "kit")) \cup Raise(Bad(k), "other")
                     ELSE PatchCard(x)
  BY DEF FinalCard, Call, RaiseOther
<1>2. Flight(k, st, n)
  BY NumberFlight
<1> HIDE DEF k
<1>3. Flight(Show(k, "kit"), st, n) /\ Told(Show(k, "kit"), st)
  BY <1>2, ShowFlight
<1>4. Flight(Bad(k), st, n)
  BY <1>2, BadFlight DEF Flight
<1> QED BY <1>1, <1>3, <1>4, EndStreamLands, RaiseLands, PatchLands DEF Flight

(* Once CardKit is settled, the card comes down one way or another.        *)
LEMMA DeliverLands ==
    ASSUME NEW st, NEW n \in Nat, NEW x, Flight(x, st, n),
           x.r.card \/ x.r.kit = "no", NEW y \in DeliverCard(x)
    PROVE  Landed(y, st, n)
<1>1. CASE st = "requires_action"
  <2>1. NeedsApproval(x)
    BY <1>1 DEF NeedsApproval, Aboard, Flight
  <2>2. CASE x.r.card
    <3>1. y \in ApprovalCard(x)
      BY <2>1, <2>2 DEF DeliverCard, NeedsApproval, Stable
    <3> QED BY <3>1, ApprovalLands
  <2>3. CASE ~x.r.card /\ x.r.kit = "no"
    <3>1. y \in Raise(x, "approval")
      BY <2>1, <2>3 DEF DeliverCard, NeedsApproval, Stable
    <3> QED BY <3>1, RaiseLands DEF Flight
  <2> QED BY <2>2, <2>3
<1>2. CASE st # "requires_action"
  <2>1. ~NeedsApproval(x)
    BY <1>2 DEF NeedsApproval, Aboard, Flight
  <2>2. y \in PatchCard(x) \cup StreamCard(x) \cup FinalCard(x)
    BY <2>1 DEF DeliverCard
  <2> QED BY <1>2, <2>2, PatchLands, StreamLands, FinalLands
<1> QED BY <1>1, <1>2

(* client.send_card and client.resolve_card_id, or a failure.              *)
LEMMA SendFlies ==
    ASSUME NEW st, NEW n \in Nat, NEW x, Aboard(x, st, n), x.end = "no", NEW y \in SendCard(x)
    PROVE  (Flight(y, st, n) /\ y.end = "no") \/ (Landed(y, st, n) /\ y.end # "no")
<1> DEFINE t == Succeeded(x.r)
           s == [t EXCEPT !.msg = Len(x.posts) + 1]
           ps == Append(x.posts, [status |-> x.r.status, how |-> "send", top |-> 0])
           z == [x EXCEPT !.posts = ps, !.r = s]
<1>1. SendCard(x) = IF x.r.msg # 0 THEN {x} ELSE {z} \cup Raise(Bad(x), "other")
  BY DEF SendCard, Call, RaiseOther, Aboard, Fields
<1>2. t \in Cards /\ t.status = st /\ x.posts \in Seq(Posts) /\ Len(x.posts) \in Nat
  BY Marks DEF Aboard
<1>3. ps \in Seq(Posts) /\ Len(ps) = Len(x.posts) + 1
  BY <1>2 DEF Aboard, Posts, Cards
<1> HIDE DEF t, ps
<1>4. s \in Cards /\ s.status = st /\ s.msg = Len(x.posts) + 1
  BY <1>2 DEF Cards
<1> HIDE DEF s
<1>5. z = [f \in Fields |-> z[f]] /\ z.r = s /\ z.posts = ps /\ z.end = "no"
  BY DEF Aboard, Fields
<1> HIDE DEF z
<1>6. Flight(z, st, n) /\ z.end = "no"
  BY <1>2, <1>3, <1>4, <1>5 DEF Aboard, Flight
<1>7. \A v \in Raise(Bad(x), "other") : Landed(v, st, n) /\ v.end # "no"
  BY BadFlight, RaiseLands
<1> QED BY <1>1, <1>6, <1>7 DEF Flight

LEMMA ResolveFlies ==
    ASSUME NEW st, NEW n \in Nat, NEW x, Flight(x, st, n), x.end = "no", NEW y \in ResolveCard(x)
    PROVE  \/ Flight(y, st, n) /\ y.end = "no" /\ (y.r.card \/ y.r.kit = "no")
           \/ Landed(y, st, n) /\ y.end # "no"
<1> DEFINE t == Succeeded(x.r)
           u == [t EXCEPT !.card = TRUE]
           s == [u EXCEPT !.kit = "yes"]
           z == [x EXCEPT !.r = s]
           b == Bad(x)
           k == NoCardKit(b)
           c == [k.r EXCEPT !.card = FALSE]
           d == [k EXCEPT !.r = c]
<1>1. t \in Cards /\ t.status = st /\ t.msg = x.r.msg
  BY Marks DEF Aboard, Flight
<1>2. [t EXCEPT !.card = TRUE, !.kit = "yes"] = s
  BY <1>1 DEF Cards
<1> HIDE DEF t
<1>3. u \in Cards /\ u.status = st /\ u.card /\ u.msg = t.msg
  BY <1>1 DEF Cards
<1> HIDE DEF u
<1>4. s \in Cards /\ s.status = st /\ s.card /\ s.msg = u.msg
  BY <1>3 DEF Cards
<1> HIDE DEF s
<1>5. Flight(z, st, n) /\ z.end = "no" /\ z.r = s
  BY <1>1, <1>3, <1>4, SetRecord DEF Flight
<1> HIDE DEF z
<1>6. Flight(b, st, n) /\ b.end = "no"
  BY BadFlight DEF Flight
<1> HIDE DEF b
<1>7. Flight(k, st, n) /\ k.end = "no" /\ k.r.kit = "no"
  BY <1>6, NoCardKitFlight
<1>8. [k EXCEPT !.r.card = FALSE] = d
  BY <1>7 DEF Aboard, Flight, Fields
<1> HIDE DEF k
<1>9. c \in Cards /\ c.status = st /\ c.kit = "no" /\ c.msg = k.r.msg
  BY <1>7 DEF Aboard, Flight, Cards
<1> HIDE DEF c
<1>10. Flight(d, st, n) /\ d.end = "no" /\ d.r = c
  BY <1>7, <1>9, SetRecord DEF Flight
<1> HIDE DEF d
<1>11. \/ y = x /\ (x.r.card \/ x.r.kit = "no")
       \/ y = z
       \/ y = d
       \/ y \in Raise(d, "approval")
       \/ y \in Raise(b, "other")
  <2>1. ResolveCard(x) = IF x.r.kit = "no" \/ x.r.card THEN {x}
                         ELSE {z} \cup (IF NeedsApproval(b) THEN Raise(d, "approval") ELSE {d})
                              \cup Raise(b, "other")
    BY <1>2, <1>8 DEF ResolveCard, Call, RaiseOther, z, s, u, t, b, k
  <2> QED BY <2>1
<1> QED
  BY <1>4, <1>5, <1>6, <1>9, <1>10, <1>11, RaiseLands DEF Flight

(* However _sync_card_delivery goes, it fails and leaves the card pending, *)
(* or leaves a record that owes nothing and says what the chat shows.      *)
LEMMA SyncLands ==
    ASSUME NEW r \in Cards, NEW ps \in Seq(Posts), r.msg <= Len(ps),
           NEW max, NEW y \in SyncCard(r, ps, max)
    PROVE  Landed(y, r.status, Len(ps))
<1> DEFINE st == r.status
           n == Len(ps)
           x == Start(r, ps)
           A == SendCard(x)
           B == Then(A, ResolveCard)
<1>1. n \in Nat /\ Aboard(x, st, n) /\ x.end = "no"
  BY DEF Start, Aboard, Fields
<1> HIDE DEF x, st, n
<1>2. \A v \in A : (Flight(v, st, n) /\ v.end = "no") \/ (Landed(v, st, n) /\ v.end # "no")
  BY <1>1, SendFlies
<1> HIDE DEF A
<1>4. \A v \in B : \/ Flight(v, st, n) /\ v.end = "no" /\ (v.r.card \/ v.r.kit = "no")
                   \/ Landed(v, st, n) /\ v.end # "no"
  <2> SUFFICES ASSUME NEW v \in B
               PROVE  \/ Flight(v, st, n) /\ v.end = "no" /\ (v.r.card \/ v.r.kit = "no")
                      \/ Landed(v, st, n) /\ v.end # "no"
    OBVIOUS
  <2>1. PICK a \in A : v \in IF a.end = "no" THEN ResolveCard(a) ELSE {a}
    BY DEF Then
  <2> QED BY <1>1, <1>2, <2>1, ResolveFlies
<1> HIDE DEF B
<1>5. y \in Then(B, DeliverCard)
  BY DEF SyncCard, A, B, x
<1>6. PICK b \in B : y \in IF b.end = "no" THEN DeliverCard(b) ELSE {b}
  BY <1>5 DEF Then
<1>7. Landed(y, st, n)
  BY <1>1, <1>4, <1>6, DeliverLands
<1> QED BY <1>7 DEF st, n
-----------------------------------------------------------------------------
(* What is shown in the chat, what is saved of it, and what the threads    *)
(* carry from the one to the other.                                        *)

(* The events thread answers a click; it has not yet come to a card.       *)
Acting == {"acting", "saving action", "controlling", "answering", "saving answer", "failing",
           "saving failure"}
Before == {"idle", "seen", "managing", "carding"}

(* A record of a message, with a card message that the chat has.           *)
Known(m, r) == m \in Messages /\ r \in Cards /\ r.msg <= Len(posts[m])

(* What thread a may carry at point p: a card with its message when it     *)
(* comes to one; a delivery reported as a success, of a stable card, is    *)
(* one the chat has shown; and so is the card that was clicked.            *)
Placed(a, p, m, r, o) ==
    /\ p \in Saving \cup {"retried"} => Known(m, r)
    /\ o /\ r.status \in Stable => m \in final
    /\ a = "events" =>
          /\ p # "idle" => m \in Messages
          /\ p \in {"processing", "dispatching", "marking"} \cup Acting => Known(m, r)
          /\ p \in Before => ~o
          /\ p = "managing" => m \notin Prompts
          /\ p \in Acting => m \in final

ChannelShape ==
    /\ store \in [Messages -> Cards \cup {None}] /\ lock \in Threads \cup {None}
    /\ \A m \in Messages : store[m] # None => Known(m, store[m])
    /\ at = [a \in Threads |-> at[a]] /\ msg = [a \in Threads |-> msg[a]]
    /\ rec = [a \in Threads |-> rec[a]] /\ ok = [a \in Threads |-> ok[a]]
    /\ todo = [a \in Threads |-> todo[a]]
    /\ \A a \in Threads : \A c \in todo[a] : Known(c[1], c[2])
    /\ posts \in [Messages -> Seq(Posts)]
    /\ crashes \in Nat

Carrying ==
    /\ \A a \in Threads : Placed(a, at[a], msg[a], rec[a], ok[a])
    /\ \A a \in Threads : lock = a => at[a] \in Saving
    /\ done \cap Prompts \subseteq final

(* A record that owes nothing says what the chat shows.                    *)
Match(r, m) ==
    r # None /\ ~r.pending /\ ~r.dirty =>
        /\ r.msg # 0 /\ posts[m][r.msg].status = r.status
        /\ r.status = "requires_action" => posts[m][r.msg].how = "kit"

(* Only the card between its delivery and its save may differ in the file; *)
(* the thread that will save it carries a record that does not.            *)
Saved ==
    crashes = 0 =>
        /\ \A m \in Messages : (lock = None \/ msg[lock] # m) => Match(store[m], m)
        /\ \A a \in Threads : lock = a => Match(rec[a], msg[a])

Faithful == ChannelShape /\ Carrying /\ Saved

(* A step of thread a changes nothing of the other one.                    *)
Only(a) ==
    /\ at' = [b \in Threads |-> at'[b]] /\ msg' = [b \in Threads |-> msg'[b]]
    /\ rec' = [b \in Threads |-> rec'[b]] /\ ok' = [b \in Threads |-> ok'[b]]
    /\ todo' = [b \in Threads |-> todo'[b]]
    /\ \A b \in Threads \ {a} : /\ at'[b] = at[b] /\ msg'[b] = msg[b] /\ rec'[b] = rec[b]
                                /\ ok'[b] = ok[b] /\ todo'[b] = todo[b]
    /\ \A c \in todo'[a] : Known(c[1], c[2])

(* A step of a thread that does not have the lock, and delivers nothing.   *)
LEMMA AsideKeeps ==
    ASSUME Faithful, NEW a \in Threads, lock # a, Only(a),
           Placed(a, at'[a], msg'[a], rec'[a], ok'[a]),
           done' \cap Prompts \subseteq final,
           UNCHANGED <<store, lock, posts, final, crashes>>
    PROVE  Faithful'
<1>1. ChannelShape'
  <2>1. \A m, r : Known(m, r)' <=> Known(m, r)
    BY DEF Known
  <2> QED BY <2>1 DEF Faithful, ChannelShape, Only
<1>2. Carrying'
  <2>1. \A b \in Threads : Placed(b, at[b], msg[b], rec[b], ok[b])'
    BY DEF Faithful, Carrying, Only, Placed, Known
  <2> QED BY <2>1 DEF Faithful, Carrying, Only
<1>3. Saved'
  <2>1. lock = None \/ (lock \in Threads \ {a} /\ msg'[lock] = msg[lock] /\ rec'[lock] = rec[lock])
    BY DEF Faithful, ChannelShape, Only
  <2>2. \A r, m : Match(r, m)' <=> Match(r, m)
    BY DEF Match
  <2> SUFFICES ASSUME crashes = 0
               PROVE  /\ \A m \in Messages : (lock = None \/ msg'[lock] # m) => Match(store[m], m)
                      /\ \A b \in Threads : lock = b => Match(rec'[b], msg'[b])
    BY <2>2 DEF Saved
  <2>3. CASE lock = None
    BY <2>3, FeishuAssumption DEF Faithful, Saved, Threads
  <2>4. CASE lock # None
    BY <2>1, <2>4 DEF Faithful, Saved
  <2> QED BY <2>3, <2>4
<1> QED BY <1>1, <1>2, <1>3 DEF Faithful

(* A thread that takes the lock with a record to save for message m; no    *)
(* other card is touched, and the record, if it owes nothing, is shown.    *)
LEMMA TakeKeeps ==
    ASSUME Faithful, NEW a \in Threads, lock = None, lock' = a, Only(a), at'[a] \in Saving,
           Placed(a, at[a], msg[a], rec[a], ok[a])',
           UNCHANGED <<store, done, crashes>>, final \subseteq final',
           posts' \in [Messages -> Seq(Posts)],
           \A m \in Messages : Len(posts[m]) <= Len(posts'[m]),
           \A m \in Messages \ {msg'[a]} : posts'[m] = posts[m],
           Match(rec[a], msg[a])'
    PROVE  Faithful'
<1>0. \A m, r : Known(m, r) => Known(m, r)'
  <2> SUFFICES ASSUME NEW m, NEW r, Known(m, r) PROVE r.msg <= Len(posts'[m])
    BY DEF Known
  <2>1. /\ m \in Messages /\ r.msg \in Nat /\ r.msg <= Len(posts[m])
        /\ posts[m] \in Seq(Posts) /\ posts'[m] \in Seq(Posts)
    BY DEF Known, Cards, Faithful, ChannelShape
  <2>2. Len(posts[m]) \in Nat /\ Len(posts'[m]) \in Nat /\ Len(posts[m]) <= Len(posts'[m])
    BY <2>1
  <2> QED BY <2>1, <2>2
<1>1. ChannelShape'
  BY <1>0 DEF Faithful, ChannelShape, Only
<1>2. Carrying'
  <2>1. \A b \in Threads \ {a} : Placed(b, at[b], msg[b], rec[b], ok[b])'
    <3> SUFFICES ASSUME NEW b \in Threads \ {a} PROVE Placed(b, at[b], msg[b], rec[b], ok[b])'
      OBVIOUS
    <3>1. Placed(b, at[b], msg[b], rec[b], ok[b])
      BY DEF Faithful, Carrying
    <3> QED BY <1>0, <3>1 DEF Placed, Only
  <2> QED BY <2>1 DEF Faithful, Carrying, Only
<1>3. Saved'
  <2> SUFFICES ASSUME crashes = 0
               PROVE  /\ \A m \in Messages : msg'[a] # m => Match(store[m], m)'
                      /\ Match(rec[a], msg[a])'
    BY FeishuAssumption DEF Saved, Threads
  <2>1. \A m \in Messages : Match(store[m], m)
    BY DEF Faithful, Saved
  <2> QED BY <2>1 DEF Match
<1> QED BY <1>1, <1>2, <1>3 DEF Faithful

(* A delivery.                                                             *)
LEMMA DeliverKeeps ==
    ASSUME Faithful, NEW a \in Threads, NEW m, NEW r, Known(m, r), NEW next \in Saving,
           Deliver(a, m, r, next), msg' = [msg EXCEPT ![a] = m],
           a = "events" /\ next \in Acting => m \in final
    PROVE  Faithful'
<1>0. /\ m \in Messages /\ r \in Cards /\ posts[m] \in Seq(Posts) /\ r.msg <= Len(posts[m])
  BY DEF Known, Faithful, ChannelShape
<1>1. PICK x \in SyncCard(r, posts[m], MaxFails - fails) :
          /\ rec' = [rec EXCEPT ![a] = x.r] /\ ok' = [ok EXCEPT ![a] = x.end = "delivered"]
          /\ posts' = [posts EXCEPT ![m] = x.posts]
          /\ final' = IF \E i \in 1..Len(x.posts) : x.posts[i].status \in Stable
                      THEN final \cup {m} ELSE final
  BY DEF Deliver
<1>2. Landed(x, r.status, Len(posts[m]))
  BY <1>0, SyncLands
<1>3. /\ lock = None /\ lock' = a /\ at' = [at EXCEPT ![a] = next]
      /\ UNCHANGED <<store, todo, done, crashes>>
  BY DEF Deliver, Goto, files, counts
<1>4. Only(a) /\ at'[a] = next /\ msg'[a] = m /\ rec'[a] = x.r /\ ok'[a] = (x.end = "delivered")
  BY <1>1, <1>3 DEF Only, Faithful, ChannelShape
<1>5. /\ posts' \in [Messages -> Seq(Posts)] /\ posts'[m] = x.posts
      /\ \A o \in Messages \ {m} : posts'[o] = posts[o]
      /\ \A o \in Messages : Len(posts[o]) <= Len(posts'[o])
  <2>1. x.posts \in Seq(Posts) /\ Len(posts[m]) <= Len(x.posts)
    BY <1>2 DEF Landed, Aboard
  <2>2. \A o \in Messages : Len(posts[o]) \in Nat
    BY DEF Faithful, ChannelShape
  <2> QED BY <1>0, <1>1, <2>1, <2>2 DEF Faithful, ChannelShape
<1>6. final \subseteq final' /\ (x.end = "delivered" /\ x.r.status \in Stable => m \in final')
  <2> SUFFICES ASSUME x.end = "delivered", x.r.status \in Stable
               PROVE  \E i \in 1..Len(x.posts) : x.posts[i].status \in Stable
    BY <1>1
  <2>1. x.r.msg \in 1..Len(x.posts) /\ x.posts[x.r.msg].status = x.r.status
    BY <1>2 DEF Landed, Aboard, Told, Cards
  <2> QED BY <2>1
<1>7. Known(m, x.r)'
  BY <1>0, <1>2, <1>5 DEF Known, Landed, Aboard
<1>8. Placed(a, at[a], msg[a], rec[a], ok[a])'
  BY <1>0, <1>4, <1>6, <1>7 DEF Placed, Saving, Acting, Before
<1>9. Match(rec[a], msg[a])'
  BY <1>2, <1>4, <1>5 DEF Match, Landed, Aboard, Told
<1> QED BY <1>3, <1>4, <1>5, <1>6, <1>8, <1>9, TakeKeeps

(* A delta that is held back leaves a dirty record.                        *)
LEMMA HoldBackKeeps ==
    ASSUME Faithful, NEW a \in Threads, NEW r, Known(msg[a], r), r.dirty, NEW next \in Saving,
           HoldBack(a, r, next), msg' = msg,
           a = "events" /\ next \in Acting => msg[a] \in final
    PROVE  Faithful'
<1>1. /\ lock = None /\ lock' = a /\ at' = [at EXCEPT ![a] = next]
      /\ rec' = [rec EXCEPT ![a] = r] /\ ok' = [ok EXCEPT ![a] = FALSE]
      /\ UNCHANGED <<store, todo, done, crashes, posts, final>>
  BY DEF HoldBack, Goto, files, counts, chat
<1>2. Only(a) /\ at'[a] = next /\ msg'[a] = msg[a] /\ rec'[a] = r /\ ok'[a] = FALSE
  BY <1>1 DEF Only, Faithful, ChannelShape
<1>3. Placed(a, at[a], msg[a], rec[a], ok[a])'
  BY <1>1, <1>2 DEF Placed, Known, Saving, Acting, Before
<1>4. Match(rec[a], msg[a])'
  BY <1>2 DEF Match
<1>5. posts' \in [Messages -> Seq(Posts)] /\ \A m \in Messages : Len(posts[m]) <= Len(posts'[m])
  <2>1. \A m \in Messages : Len(posts[m]) \in Nat
    BY DEF Faithful, ChannelShape
  <2> QED BY <1>1, <2>1 DEF Faithful, ChannelShape
<1> QED BY <1>1, <1>2, <1>3, <1>4, <1>5, TakeKeeps

(* The save: the file now says of the card what its thread carried.        *)
LEMMA SavingKeeps ==
    ASSUME Faithful, NEW a \in Threads, NEW from \in Saving, NEW next, SaveCard(a, from, next),
           next \in Acting => from \in Acting, next \in Before => next = "idle"
    PROVE  Faithful'
<1> DEFINE rests == next = "idle"
<1>1. /\ at[a] = from /\ lock = a /\ lock' = None
      /\ store' = [store EXCEPT ![msg[a]] = rec[a]]
      /\ at' = [at EXCEPT ![a] = next]
      /\ msg' = [msg EXCEPT ![a] = IF rests THEN None ELSE msg[a]]
      /\ rec' = [rec EXCEPT ![a] = IF rests THEN None ELSE rec[a]]
      /\ ok' = [ok EXCEPT ![a] = IF rests THEN FALSE ELSE ok[a]]
      /\ UNCHANGED <<todo, done, crashes, posts, final>>
  BY DEF SaveCard, Rest, Goto, Keep, counts, chat
<1>2. Placed(a, from, msg[a], rec[a], ok[a])
  BY <1>1 DEF Faithful, Carrying
<1>3. msg[a] \in Messages /\ rec[a] \in Cards /\ Known(msg[a], rec[a])
  BY <1>2 DEF Placed, Known
<1>4. /\ Only(a) /\ at'[a] = next /\ msg'[a] = (IF rests THEN None ELSE msg[a])
      /\ rec'[a] = (IF rests THEN None ELSE rec[a]) /\ ok'[a] = (IF rests THEN FALSE ELSE ok[a])
  BY <1>1 DEF Only, Faithful, ChannelShape
<1>5. Placed(a, at'[a], msg'[a], rec'[a], ok'[a])
  <2>1. CASE rests
    BY <1>4, <2>1 DEF Placed, Saving, Acting
  <2>2. CASE ~rests
    BY <1>2, <1>3, <1>4, <2>2 DEF Placed, Before
  <2> QED BY <2>1, <2>2
<1> HIDE DEF rests
<1>6. ChannelShape'
  <2>1. store' \in [Messages -> Cards \cup {None}]
    BY <1>1, <1>3 DEF Faithful, ChannelShape
  <2>2. \A m, r : Known(m, r)' <=> Known(m, r)
    BY <1>1 DEF Known
  <2>3. \A m \in Messages : store'[m] # None => Known(m, store'[m])
    BY <1>1, <1>3 DEF Faithful, ChannelShape
  <2> QED BY <1>1, <1>4, <2>1, <2>2, <2>3 DEF Faithful, ChannelShape, Only
<1>7. Carrying'
  <2>1. \A b \in Threads : Placed(b, at[b], msg[b], rec[b], ok[b])'
    BY <1>1, <1>4, <1>5 DEF Faithful, Carrying, Only, Placed, Known
  <2>2. \A b \in Threads : lock' # b
    BY <1>1, FeishuAssumption DEF Threads
  <2> QED BY <1>1, <2>1, <2>2 DEF Faithful, Carrying
<1>8. Saved'
  <2> SUFFICES ASSUME crashes = 0, NEW m \in Messages PROVE Match(store'[m], m)
    BY <1>1, FeishuAssumption DEF Saved, Match, Threads
  <2>1. CASE m = msg[a]
    BY <1>1, <1>3, <2>1 DEF Faithful, Saved, ChannelShape
  <2>2. CASE m # msg[a]
    BY <1>1, <1>3, <2>2 DEF Faithful, Saved, ChannelShape
  <2> QED BY <2>1, <2>2
<1> QED BY <1>6, <1>7, <1>8 DEF Faithful

LEMMA IdleHand == ASSUME Faithful, NEW a \in Threads, at[a] \notin Saving PROVE lock # a
BY DEF Faithful, Carrying

LEMMA Completes == ASSUME NEW m, MarkCompleted(m) PROVE done' \subseteq done \cup {m}
BY DEF MarkCompleted

(* A message or a click is taken by the idle thread.                       *)
LEMMA TakesUp ==
    ASSUME Faithful, NEW m \in Messages, Receive(m) \/ Click(m) PROVE Faithful'
<1> DEFINE e == "events"
<1>1. e \in Threads /\ at[e] = "idle"
  BY DEF Receive, Click, Threads
<1>2. lock # e
  BY <1>1, IdleHand DEF Saving
<1>3. Placed(e, "idle", msg[e], rec[e], ok[e])
  BY <1>1 DEF Faithful, Carrying
<1>4. CASE Receive(m)
  <2>1. /\ UNCHANGED <<store, lock, rec, todo, ok, posts, done, final, crashes>>
        /\ \/ UNCHANGED <<msg, at>>
           \/ msg' = [msg EXCEPT ![e] = m] /\ at' = [at EXCEPT ![e] = "seen"]
    BY <1>4 DEF Receive, Goto, chat
  <2>2. Only(e)
    BY <1>1, <2>1 DEF Only, Faithful, ChannelShape
  <2>3. (at'[e] = "idle" /\ msg'[e] = msg[e]) \/ (at'[e] = "seen" /\ msg'[e] = m)
    <3>1. CASE UNCHANGED <<msg, at>>
      BY <1>1, <3>1
    <3>2. CASE msg' = [msg EXCEPT ![e] = m] /\ at' = [at EXCEPT ![e] = "seen"]
      BY <1>1, <3>2 DEF Faithful, ChannelShape
    <3> QED BY <2>1, <3>1, <3>2
  <2>4. rec'[e] = rec[e] /\ ok'[e] = ok[e]
    BY <2>1
  <2>5. Placed(e, at'[e], msg'[e], rec'[e], ok'[e])
    BY <1>3, <2>3, <2>4 DEF Placed, Saving, Acting, Before
  <2> QED BY <1>1, <1>2, <2>1, <2>2, <2>5, AsideKeeps DEF Faithful, Carrying
<1>5. CASE Click(m)
  <2> DEFINE r == MarkRunning(store[m])
  <2>1. /\ UNCHANGED <<store, lock, todo, ok, posts, done, final, crashes>>
        /\ m \in final /\ msg' = [msg EXCEPT ![e] = m] /\ at' = [at EXCEPT ![e] = "acting"]
        /\ rec' = [rec EXCEPT ![e] = r]
    BY <1>5 DEF Click, Goto, files, chat
  <2>2. Known(m, r)
    <3>1. Known(m, store[m])
      BY <1>5 DEF Click, Faithful, ChannelShape
    <3>2. r \in Cards /\ r.msg = store[m].msg
      BY <3>1 DEF Known, MarkRunning, Cards, Statuses
    <3> QED BY <3>1, <3>2 DEF Known
  <2> HIDE DEF r
  <2>3. Only(e) /\ at'[e] = "acting" /\ msg'[e] = m /\ rec'[e] = r /\ ok'[e] = ok[e]
    BY <1>1, <2>1 DEF Only, Faithful, ChannelShape
  <2>4. Placed(e, at'[e], msg'[e], rec'[e], ok'[e])
    BY <1>3, <2>1, <2>2, <2>3 DEF Placed, Saving, Acting, Before
  <2> QED BY <1>1, <1>2, <2>1, <2>3, <2>4, AsideKeeps DEF Faithful, Carrying
<1> QED BY <1>4, <1>5

(* The reaction of a message, or the answer to a command.                  *)
LEMMA Acknowledges == ASSUME Faithful, Normalize \/ Manage PROVE Faithful'
<1> DEFINE e == "events"
           m == msg[e]
<1>1. /\ e \in Threads /\ at[e] \in {"seen", "managing"}
      /\ UNCHANGED <<store, lock, todo, posts, final, crashes>>
  BY DEF Normalize, Manage, Threads, files, counts
<1>2. lock # e
  BY <1>1, IdleHand DEF Saving
<1>3. Placed(e, at[e], m, rec[e], ok[e])
  BY <1>1 DEF Faithful, Carrying
<1>4. PICK next \in {"idle", "carding", "managing"} :
          /\ at' = [at EXCEPT ![e] = next]
          /\ msg' = [msg EXCEPT ![e] = IF next = "idle" THEN None ELSE @]
          /\ rec' = [rec EXCEPT ![e] = IF next = "idle" THEN None ELSE @]
          /\ ok' = [ok EXCEPT ![e] = IF next = "idle" THEN FALSE ELSE @]
          /\ next = "managing" => m \notin Prompts
  <2>1. CASE Normalize
    BY <2>1 DEF Normalize, Rest, Goto, Keep
  <2>2. CASE Manage
    BY <2>2 DEF Manage, Rest, Goto, Keep
  <2> QED BY <2>1, <2>2
<1>5. /\ Only(e) /\ at'[e] = next /\ msg'[e] = (IF next = "idle" THEN None ELSE m)
      /\ rec'[e] = (IF next = "idle" THEN None ELSE rec[e])
      /\ ok'[e] = (IF next = "idle" THEN FALSE ELSE ok[e])
  BY <1>1, <1>4 DEF Only, Faithful, ChannelShape
<1>6. Placed(e, at'[e], msg'[e], rec'[e], ok'[e])
  BY <1>1, <1>3, <1>4, <1>5 DEF Placed, Saving, Acting, Before
<1>7. done' \cap Prompts \subseteq final
  <2>1. CASE Normalize
    BY <2>1 DEF Normalize, Faithful, Carrying
  <2>2. CASE Manage
    <3>1. m \notin Prompts
      BY <1>3, <2>2 DEF Manage, Placed
    <3>2. done' \subseteq done \cup {m}
      BY <2>2, Completes DEF Manage
    <3> QED BY <3>1, <3>2 DEF Faithful, Carrying
  <2> QED BY <2>1, <2>2
<1> QED BY <1>1, <1>2, <1>5, <1>6, <1>7, AsideKeeps

(* The card of an earlier delivery is taken, the gateway is given the      *)
(* message, a click is answered.                                           *)
LEMMA GoesOn == ASSUME Faithful, BindFails \/ ReuseCard \/ Process \/ Control PROVE Faithful'
<1> DEFINE e == "events"
           m == msg[e]
<1>1. /\ e \in Threads /\ at[e] \in {"carding", "processing", "controlling"}
      /\ UNCHANGED <<store, lock, todo, msg, ok, posts, done, final, crashes>>
  BY DEF BindFails, ReuseCard, Process, Control, Threads, files, counts, chat
<1>2. lock # e
  BY <1>1, IdleHand DEF Saving
<1>3. Placed(e, at[e], m, rec[e], ok[e])
  BY <1>1 DEF Faithful, Carrying
<1>4. PICK next, r :
          /\ at' = [at EXCEPT ![e] = next] /\ rec' = [rec EXCEPT ![e] = r]
          /\ \/ next \in {"finally", "dispatching"} /\ r = rec[e]
                /\ (next = "dispatching" => at[e] = "processing")
             \/ next = "processing" /\ Known(m, r) /\ at[e] = "carding"
             \/ next \in {"answering", "failing"} /\ Known(m, r) /\ at[e] = "controlling"
  <2>0. rec = [rec EXCEPT ![e] = rec[e]]
    BY <1>1 DEF Faithful, ChannelShape
  <2>1. CASE BindFails
    <3>1. at' = [at EXCEPT ![e] = "finally"] /\ rec' = [rec EXCEPT ![e] = rec[e]]
      BY <2>0, <2>1 DEF BindFails, Goto
    <3> WITNESS "finally", rec[e]
    <3> QED BY <3>1
  <2>2. CASE ReuseCard
    <3>1. m \in Messages
      BY <1>3, <2>2 DEF ReuseCard, Placed
    <3>2. Known(m, store[m])
      BY <2>2, <3>1 DEF ReuseCard, Faithful, ChannelShape
    <3> QED BY <2>2, <3>2 DEF ReuseCard, Goto
  <2>3. CASE Process
    BY <2>0, <2>3 DEF Process, Goto
  <2>4. CASE Control
    <3>1. Known(m, rec[e])
      BY <1>3, <2>4 DEF Control, Placed, Acting
    <3>2. Known(m, MarkFailed(rec[e]))
      <4>1. MarkFailed(rec[e]) \in Cards /\ MarkFailed(rec[e]).msg = rec[e].msg
        BY <3>1 DEF Known, MarkFailed, Cards, Statuses, Stable
      <4> QED BY <3>1, <4>1 DEF Known
    <3> QED BY <2>0, <2>4, <3>1, <3>2 DEF Control, Goto
  <2> QED BY <2>1, <2>2, <2>3, <2>4
<1>5. Only(e) /\ at'[e] = next /\ msg'[e] = m /\ rec'[e] = r /\ ok'[e] = ok[e]
  BY <1>1, <1>4 DEF Only, Faithful, ChannelShape
<1>6. Placed(e, at'[e], msg'[e], rec'[e], ok'[e])
  BY <1>1, <1>3, <1>4, <1>5 DEF Placed, Saving, Acting, Before
<1>7. done' \cap Prompts \subseteq final
  BY <1>1 DEF Faithful, Carrying
<1> QED BY <1>1, <1>2, <1>5, <1>6, <1>7, AsideKeeps

(* The end of the dispatch, of a pass over the pending cards, its list.    *)
LEMMA Ends ==
    ASSUME Faithful, NEW a \in Threads, (a = "events" /\ DispatchEnds) \/ ListPending(a) \/ RetryEnds(a)
    PROVE  Faithful'
<1>1. /\ at[a] \in {"dispatching", "answering", "finally", "idle", "retrying"}
      /\ a = "events" => at[a] # "idle"
      /\ UNCHANGED <<store, lock, posts, done, final, crashes>>
  BY DEF DispatchEnds, ListPending, RetryEnds, files, counts, chat
<1>2. lock # a
  BY <1>1, IdleHand DEF Saving
<1>3. Placed(a, at[a], msg[a], rec[a], ok[a])
  BY DEF Faithful, Carrying
<1>4. PICK next \in {"idle", "finally", "retrying"} :
          /\ at' = [at EXCEPT ![a] = next]
          /\ msg' = [msg EXCEPT ![a] = IF next = "idle" THEN None ELSE msg[a]]
          /\ rec' = [rec EXCEPT ![a] = IF next = "idle" THEN None ELSE rec[a]]
          /\ ok' = [ok EXCEPT ![a] = IF next = "idle" THEN FALSE ELSE ok[a]]
  <2>1. CASE a = "events" /\ DispatchEnds
    BY <2>1 DEF DispatchEnds, Rest, Goto, Keep
  <2>2. CASE ListPending(a)
    <3>1. at' = [at EXCEPT ![a] = "retrying"] /\ UNCHANGED <<msg, rec, ok>>
      BY <2>2 DEF ListPending, Goto
    <3> QED BY <3>1 DEF Faithful, ChannelShape
  <2>3. CASE RetryEnds(a)
    BY <2>3 DEF RetryEnds, Rest, Goto, Keep
  <2> QED BY <2>1, <2>2, <2>3
<1>5. PICK T : todo' = [todo EXCEPT ![a] = T] /\ \A c \in T : Known(c[1], c[2])
  <2>1. CASE ListPending(a)
    <3>1. PICK due \in SUBSET {m \in Messages : store[m] # None} :
              todo' = [todo EXCEPT ![a] = {<<m, store[m]>> : m \in due}]
      BY <2>1 DEF ListPending
    <3>2. \A c \in {<<m, store[m]>> : m \in due} : Known(c[1], c[2])
      BY DEF Faithful, ChannelShape
    <3> QED BY <3>1, <3>2
  <2>2. CASE ~ListPending(a)
    <3>1. todo' = todo
      BY <2>2 DEF DispatchEnds, RetryEnds
    <3>2. todo = [todo EXCEPT ![a] = todo[a]] /\ \A c \in todo[a] : Known(c[1], c[2])
      BY DEF Faithful, ChannelShape
    <3> QED BY <3>1, <3>2
  <2> QED BY <2>1, <2>2
<1>6. /\ Only(a) /\ at'[a] = next /\ msg'[a] = (IF next = "idle" THEN None ELSE msg[a])
      /\ rec'[a] = (IF next = "idle" THEN None ELSE rec[a])
      /\ ok'[a] = (IF next = "idle" THEN FALSE ELSE ok[a])
  BY <1>4, <1>5 DEF Only, Faithful, ChannelShape
<1>7. Placed(a, at'[a], msg'[a], rec'[a], ok'[a])
  BY <1>1, <1>3, <1>6 DEF Placed, Saving, Acting, Before
<1>8. done' \cap Prompts \subseteq final
  BY <1>1 DEF Faithful, Carrying
<1> QED BY <1>1, <1>2, <1>6, <1>7, <1>8, AsideKeeps

(* A message is completed on the word of a delivery.                       *)
LEMMA Completing ==
    ASSUME Faithful, NEW a \in Threads, (a = "events" /\ CompleteMessage) \/ CompleteRetried(a)
    PROVE  Faithful'
<1>1. /\ at[a] \in {"marking", "retried"}
      /\ UNCHANGED <<store, lock, msg, rec, ok, posts, final, crashes>>
  BY DEF CompleteMessage, CompleteRetried, files, counts
<1>2. lock # a
  BY <1>1, IdleHand DEF Saving
<1>3. Placed(a, at[a], msg[a], rec[a], ok[a])
  BY DEF Faithful, Carrying
<1>4. PICK next \in {"dispatching", "retrying"}, T \in SUBSET todo[a] :
          /\ at' = [at EXCEPT ![a] = next] /\ todo' = [todo EXCEPT ![a] = T]
          /\ next = "dispatching" => at[a] = "marking"
  <2>1. CASE a = "events" /\ CompleteMessage
    <3>1. at' = [at EXCEPT ![a] = "dispatching"] /\ todo' = todo /\ at[a] = "marking"
      BY <2>1 DEF CompleteMessage, Goto
    <3>2. todo = [todo EXCEPT ![a] = todo[a]]
      BY DEF Faithful, ChannelShape
    <3> QED BY <3>1, <3>2
  <2>2. CASE CompleteRetried(a)
    <3>1. /\ at' = [at EXCEPT ![a] = "retrying"]
          /\ todo' = [todo EXCEPT ![a] = {c \in @ : c[1] # msg[a]}]
      BY <2>2 DEF CompleteRetried, Goto
    <3> QED BY <3>1
  <2> QED BY <2>1, <2>2
<1>5. Only(a) /\ at'[a] = next /\ msg'[a] = msg[a] /\ rec'[a] = rec[a] /\ ok'[a] = ok[a]
  <2>1. /\ at' = [b \in Threads |-> at'[b]] /\ todo' = [b \in Threads |-> todo'[b]]
        /\ at'[a] = next /\ todo'[a] = T
        /\ \A b \in Threads \ {a} : at'[b] = at[b] /\ todo'[b] = todo[b]
    BY <1>4 DEF Faithful, ChannelShape
  <2>2. \A c \in T : Known(c[1], c[2])
    BY DEF Faithful, ChannelShape
  <2> QED BY <1>1, <2>1, <2>2 DEF Only, Faithful, ChannelShape
<1>6. Placed(a, at'[a], msg'[a], rec'[a], ok'[a])
  BY <1>1, <1>3, <1>4, <1>5 DEF Placed, Saving, Acting, Before
<1>7. done' \cap Prompts \subseteq final
  <2>1. CASE ok[a] /\ rec[a].status \in Stable
    <3>1. done' \subseteq done \cup {msg[a]}
      BY <2>1, Completes DEF CompleteMessage, CompleteRetried
    <3>2. msg[a] \in final
      BY <1>3, <2>1 DEF Placed
    <3> QED BY <3>1, <3>2 DEF Faithful, Carrying
  <2>2. CASE ~(ok[a] /\ rec[a].status \in Stable)
    BY <2>2 DEF CompleteMessage, CompleteRetried, Faithful, Carrying
  <2> QED BY <2>1, <2>2
<1> QED BY <1>1, <1>2, <1>5, <1>6, <1>7, AsideKeeps

(* A card is delivered, or its delta held back.                            *)
LEMMA Delivers ==
    ASSUME Faithful, NewTurnCard \/ DispatchEvent \/ ShowAction \/ ShowFailure PROVE Faithful'
<1> DEFINE e == "events"
           m == msg[e]
           r == ApplyEvent(rec[e], Head(script))
           next == IF at[e] = "answering" THEN "saving answer" ELSE "saving"
<1>1. /\ e \in Threads /\ msg' = msg
      /\ at[e] \in {"carding", "dispatching", "answering", "acting", "failing"}
  BY DEF NewTurnCard, DispatchEvent, ShowAction, ShowFailure, Threads
<1>2. Placed(e, at[e], m, rec[e], ok[e])
  BY <1>1 DEF Faithful, Carrying
<1>3. /\ m \in Messages /\ (at[e] # "carding" => Known(m, rec[e]))
      /\ (at[e] \in Acting => m \in final)
  BY <1>1, <1>2 DEF Placed, Acting
<1>4. msg' = [msg EXCEPT ![e] = m]
  BY <1>1 DEF Faithful, ChannelShape
<1>5. CASE NewTurnCard
  <2>1. Known(m, NewCard)
    <3>1. NewCard \in Cards /\ NewCard.msg = 0
      BY DEF NewCard, Cards, Statuses
    <3>2. Len(posts[m]) \in Nat
      BY <1>3 DEF Faithful, ChannelShape
    <3> QED BY <1>3, <3>1, <3>2 DEF Known
  <2> QED BY <1>1, <1>3, <1>4, <1>5, <2>1, DeliverKeeps DEF NewTurnCard, Saving, Acting
<1>6. CASE DispatchEvent
  <2>1. at[e] \in {"dispatching", "answering"}
        /\ (Deliver(e, m, r, next) \/ HoldBack(e, r, next))
    BY <1>6 DEF DispatchEvent
  <2>2. Known(m, r) /\ r.dirty
    <3>1. Known(m, rec[e]) /\ rec[e] \in Cards
      BY <1>3, <2>1 DEF Known
    <3>2. AppliedStatus(rec[e].status, Head(script)) \in Statuses
      BY <3>1 DEF AppliedStatus, Cards, Statuses, Stable
    <3>3. r \in Cards /\ r.dirty /\ r.msg = rec[e].msg
      BY <3>1, <3>2 DEF ApplyEvent, Cards
    <3> QED BY <3>1, <3>3 DEF Known
  <2>3. next \in Saving /\ (next \in Acting => m \in final)
    BY <1>3, <2>1 DEF Saving, Acting
  <2> HIDE DEF r, next, m
  <2>4. CASE Deliver(e, m, r, next)
    BY <1>1, <1>3, <1>4, <2>2, <2>3, <2>4, DeliverKeeps
  <2>5. CASE HoldBack(e, r, next)
    BY <1>1, <1>3, <2>2, <2>3, <2>5, HoldBackKeeps DEF m
  <2> QED BY <2>1, <2>4, <2>5
<1>7. CASE ShowAction
  BY <1>1, <1>3, <1>4, <1>7, DeliverKeeps DEF ShowAction, Saving, Acting
<1>8. CASE ShowFailure
  BY <1>1, <1>3, <1>4, <1>8, DeliverKeeps DEF ShowFailure, Saving, Acting
<1> QED BY <1>5, <1>6, <1>7, <1>8

(* A pending card is delivered as it was when it was copied.               *)
LEMMA Retries == ASSUME Faithful, NEW a \in Threads, RetryCard(a) PROVE Faithful'
<1>1. PICK c \in todo[a] : /\ Deliver(a, c[1], c[2], "saving retry")
                          /\ msg' = [msg EXCEPT ![a] = c[1]]
  BY DEF RetryCard
<1>2. Known(c[1], c[2])
  BY DEF Faithful, ChannelShape
<1> QED BY <1>1, <1>2, DeliverKeeps DEF Saving, Acting

(* A crash leaves neither thread with a card, and the promise about the    *)
(* file ends.                                                              *)
LEMMA CrashFaithful == ASSUME Faithful, Crash PROVE Faithful'
<1>1. /\ lock' = None /\ at' = [a \in Threads |-> "idle"] /\ msg' = [a \in Threads |-> None]
      /\ rec' = [a \in Threads |-> None] /\ todo' = [a \in Threads |-> {}]
      /\ ok' = [a \in Threads |-> FALSE] /\ UNCHANGED <<posts, done, final>>
      /\ crashes' = crashes + 1
      /\ (store' = store \/ store' = [m \in Messages |-> None])
  BY DEF Crash, chat
<1>2. ChannelShape'
  BY <1>1 DEF Faithful, ChannelShape, Known
<1>3. Carrying'
  BY <1>1, FeishuAssumption DEF Faithful, Carrying, Placed, Saving, Acting, Threads
<1>4. Saved'
  BY <1>1 DEF Faithful, ChannelShape, Saved
<1> QED BY <1>2, <1>3, <1>4 DEF Faithful

(* A write that raises counts as one, and the thread has let the lock go.  *)
LEMMA SaveRaisesFaithful ==
    ASSUME Faithful, NEW a \in Threads, SaveRaises(a) PROVE Faithful'
<1>1. /\ lock' = None /\ crashes' = crashes + 1 /\ UNCHANGED <<posts, done, final>>
      /\ (store' = store \/ store' = [m \in Messages |-> None])
      /\ todo' = [todo EXCEPT ![a] = {}] /\ at[a] \in Saving
  BY DEF SaveRaises, chat
<1>2. PICK next \in {"dead", "finally", "idle"} :
          /\ at' = [at EXCEPT ![a] = next] /\ (a = "events" => next # "dead")
          /\ msg' = [msg EXCEPT ![a] = IF next = "idle" THEN None ELSE msg[a]]
          /\ rec' = [rec EXCEPT ![a] = IF next = "idle" THEN None ELSE rec[a]]
          /\ ok' = [ok EXCEPT ![a] = IF next = "idle" THEN FALSE ELSE ok[a]]
  <2>1. PICK next \in {"dead", "finally", "idle"} :
            Rest(a, next) /\ (a = "events" => next # "dead")
    BY SaveRaisesLeaves
  <2> QED BY <2>1 DEF Rest, Goto, Keep
<1>3. /\ Only(a) /\ at'[a] = next /\ msg'[a] = (IF next = "idle" THEN None ELSE msg[a])
      /\ rec'[a] = (IF next = "idle" THEN None ELSE rec[a])
      /\ ok'[a] = (IF next = "idle" THEN FALSE ELSE ok[a])
  BY <1>1, <1>2 DEF Only, Faithful, ChannelShape
<1>4. Placed(a, at[a], msg[a], rec[a], ok[a])
  BY DEF Faithful, Carrying
<1>5. Placed(a, at'[a], msg'[a], rec'[a], ok'[a])
  BY <1>1, <1>2, <1>3, <1>4 DEF Placed, Known, Saving, Acting, Before
<1>6. ChannelShape'
  <2>1. \A m, r : Known(m, r)' <=> Known(m, r)
    BY <1>1 DEF Known
  <2> QED BY <1>1, <1>3, <2>1 DEF Faithful, ChannelShape, Only
<1>7. Carrying'
  <2>1. \A m, r : Known(m, r)' <=> Known(m, r)
    BY <1>1 DEF Known
  <2>2. ASSUME NEW b \in Threads PROVE Placed(b, at[b], msg[b], rec[b], ok[b])'
    <3>1. CASE b = a
      BY <1>1, <1>5, <2>1, <3>1 DEF Placed
    <3>2. CASE b # a
      <4>1. /\ at'[b] = at[b] /\ msg'[b] = msg[b] /\ rec'[b] = rec[b] /\ ok'[b] = ok[b]
            /\ Placed(b, at[b], msg[b], rec[b], ok[b])
        BY <1>3, <3>2 DEF Only, Faithful, Carrying
      <4> QED BY <1>1, <2>1, <4>1 DEF Placed
    <3> QED BY <3>1, <3>2
  <2> QED BY <1>1, <2>2, FeishuAssumption DEF Faithful, Carrying, Threads
<1>8. Saved'
  BY <1>1 DEF Faithful, ChannelShape, Saved
<1> QED BY <1>6, <1>7, <1>8 DEF Faithful

LEMMA FaithfulStep == Faithful /\ [Next]_vars => Faithful'
<1> SUFFICES ASSUME Faithful, [Next]_vars PROVE Faithful'
  OBVIOUS
<1>1. CASE UNCHANGED vars
  BY <1>1 DEF vars, files, threads, chat, counts, Faithful, ChannelShape, Carrying, Placed, Known, Saved,
              Match
<1>2. ASSUME NEW m \in Messages, Receive(m) \/ Click(m) PROVE Faithful'
  BY <1>2, TakesUp
<1>3. ASSUME NEW a \in Threads, NEW from \in Saving, NEW next,
             SaveCard(a, from, next),
             <<from, next>> \in {<<"saving card", "processing">>, <<"saving", "marking">>,
                 <<"saving action", "controlling">>, <<"saving answer", "answering">>,
                 <<"saving failure", "idle">>, <<"saving retry", "retried">>}
      PROVE  Faithful'
  <2>1. (next \in Acting => from \in Acting) /\ (next \in Before => next = "idle")
    BY <1>3 DEF Acting, Before
  <2> QED BY <1>3, <2>1, SavingKeeps
<1>4. CASE HandleMessage
  <2>1. CASE SaveCard("events", "saving card", "processing") \/ SaveCard("events", "saving", "marking")
    BY <1>3, <2>1 DEF Threads, Saving
  <2>2. "events" \in Threads
    BY DEF Threads
  <2> QED
    BY <1>4, <2>1, <2>2, Acknowledges, GoesOn, Delivers, Ends, Completing DEF HandleMessage
<1>5. CASE HandleAction
  <2>1. CASE \/ SaveCard("events", "saving action", "controlling")
             \/ SaveCard("events", "saving answer", "answering")
             \/ SaveCard("events", "saving failure", "idle")
    BY <1>3, <2>1 DEF Threads, Saving
  <2> QED BY <1>5, <2>1, GoesOn, Delivers DEF HandleAction
<1>6. ASSUME NEW a \in Threads, Retry(a) \/ SaveRaises(a) PROVE Faithful'
  <2>1. CASE SaveCard(a, "saving retry", "retried")
    BY <1>3, <2>1 DEF Saving
  <2> QED BY <1>6, <2>1, Ends, Retries, Completing, SaveRaisesFaithful DEF Retry
<1>7. CASE Crash
  BY <1>7, CrashFaithful
<1> QED BY <1>1, <1>2, <1>4, <1>5, <1>6, <1>7 DEF Next

(* At every point of every behaviour the chat and the file agree as far as *)
(* a record claims it, and a thread that reports a stable card delivered   *)
(* has delivered one (host.py _sync_card_delivery, handle_card_action and  *)
(* _retry_pending_cards).                                                  *)
THEOREM FaithfulAlways == Spec => []Faithful
<1>1. Init => Faithful
  BY FeishuAssumption
     DEF Init, Faithful, ChannelShape, Carrying, Placed, Known, Saved, Match, Saving, Acting, Before, Threads
<1> QED
  BY <1>1, FaithfulStep, PTL DEF Spec

(* The DONE reaction is put on a message for the agent only when the chat  *)
(* has shown a final card for it, whichever thread delivered it and        *)
(* however often it was clicked (host.py _mark_message_completed).         *)
THEOREM DoneWasAlwaysShown == Spec => []DoneWasShown
<1>1. Faithful => DoneWasShown
  BY DEF Faithful, Carrying, DoneWasShown
<1> QED
  BY <1>1, FaithfulAlways, PTL

(* Until a crash or a write that raises, a saved record that owes nothing  *)
(* says what its card message shows, through failures, fallbacks and the   *)
(* retries of stale copies, and a card that asks for an approval is shown  *)
(* by CardKit (cards.py, host.py: "Feishu approval card requires CardKit;  *)
(* patch fallback is unsupported").                                        *)
THEOREM SavedIsAlwaysShown == Spec => []SavedIsShown
<1>1. Faithful => SavedIsShown
  BY DEF Faithful, Saved, Match, SavedIsShown
<1> QED
  BY <1>1, FaithfulAlways, PTL
-----------------------------------------------------------------------------
(* The Feishu channel above is one host.  That the machine has no second   *)
(* one for the app is ChannelHost's subject: any number of processes,      *)
(* threads and channels, whatever was preloaded, commanded and configured. *)
(*                                                                         *)
(* OneConsumer is not inductive: the step that makes a second consumer is  *)
(* excluded because the lock file is held, so the invariant that is proved *)
(* says whose it is.  Every consumer is the holder of the lock file; hence *)
(* the consumers are no more than one.                                     *)

(* A host that consumes the stream, or is closing, holds the lock file.    *)
ConsumerHoldsLock == \A a \in Actors : a \in Consumers => flock = a

HostType == host \in [Actors -> [Channels -> HostStates]]

Sole == HostType /\ ConsumerHoldsLock

(* Acquiring the lock file is the only way to become a consumer, and only  *)
(* a lock that is free can be acquired (FeishuHostRunLock.acquire).        *)
LEMMA AcquireKeeps ==
    ASSUME Sole, HostAssumptions, NEW a \in Actors, AcquireRunLock(a)
    PROVE  Sole'
<1>1. HostType'
  <2>1. PICK s \in HostStates : host' = [host EXCEPT ![a][Feishu] = s]
    BY DEF AcquireRunLock, HostStates
  <2>. QED BY <2>1 DEF Sole, HostType, HostAssumptions
<1>2. CASE flock = Free
  <2>1. Consumers = {}
    BY <1>2 DEF Sole, ConsumerHoldsLock, Consumers, HostAssumptions
  <2>2. flock' = a /\ host' = [host EXCEPT ![a][Feishu] = "running"]
    BY <1>2 DEF AcquireRunLock
  <2>3. Consumers' \subseteq {a}
    BY <2>1, <2>2 DEF Consumers, Sole, HostType, HostAssumptions
  <2>. QED BY <1>1, <2>2, <2>3 DEF Sole, ConsumerHoldsLock
<1>3. CASE flock # Free
  <2>1. flock' = flock /\ host' = [host EXCEPT ![a][Feishu] = "ended"]
    BY <1>3 DEF AcquireRunLock
  <2>2. Consumers' \subseteq Consumers
    BY <2>1 DEF Consumers, Sole, HostType, HostAssumptions
  <2>. QED BY <1>1, <2>1, <2>2 DEF Sole, ConsumerHoldsLock, Consumers
<1>. QED BY <1>2, <1>3

(* A host closes before it gives up the lock file, and gives up its own    *)
(* only (FeishuHostRunLock.release).                                       *)
LEMMA ReleaseKeeps ==
    ASSUME Sole, HostAssumptions, NEW a \in Actors, ReleaseRunLock(a)
    PROVE  Sole'
<1>1. HostType'
  BY DEF Sole, HostType, ReleaseRunLock, HostStates, HostAssumptions
<1>2. a \in Consumers /\ flock = a /\ flock' = Free
  BY DEF Sole, ConsumerHoldsLock, Consumers, ReleaseRunLock
<1>3. Consumers \subseteq {a}
  BY <1>2 DEF Sole, ConsumerHoldsLock, Consumers
<1>4. Consumers' = {}
  BY <1>3 DEF Consumers, ReleaseRunLock, Sole, HostType, HostAssumptions
<1>. QED BY <1>1, <1>4 DEF Sole, ConsumerHoldsLock

(* A process that dies takes its consumers with it, and frees the lock     *)
(* file only if one of its threads held it.                                *)
LEMMA DeathKeeps ==
    ASSUME Sole, HostAssumptions, NEW p \in Procs, Die(p)
    PROVE  Sole'
<1>1. host' = [a \in Actors |-> IF ProcOf[a] = p THEN NoHosts ELSE host[a]]
  BY DEF Die
<1>2. HostType'
  BY <1>1 DEF Sole, HostType, NoHosts, HostStates
<1>3. ASSUME NEW a \in Actors, (a \in Consumers)'
      PROVE  a \in Consumers /\ ProcOf[a] # p
  BY <1>1, <1>3 DEF Consumers, NoHosts, HostAssumptions
<1>4. ASSUME NEW a \in Actors, (a \in Consumers)'
      PROVE  flock' = a
  <2>1. flock = a /\ ProcOf[a] # p
    BY <1>3, <1>4 DEF Sole, ConsumerHoldsLock
  <2>. QED BY <2>1 DEF Die
<1>. QED BY <1>2, <1>4 DEF Sole, ConsumerHoldsLock

(* Starting, running and closing a host change no other thread's host and  *)
(* not the lock file.                                                      *)
LEMMA HostStepKeeps ==
    ASSUME Sole, HostAssumptions, NEW a \in Actors,
           \/ StartHost(a)
           \/ CloseHost(a)
           \/ \E c \in Channels : RunClient(a, c)
    PROVE  Sole'
<1>1. CASE StartHost(a)
  <2>1. flock' = flock
    BY <1>1 DEF StartHost
  <2>2. CASE host' = host
    BY <2>1, <2>2 DEF Sole, HostType, ConsumerHoldsLock, Consumers
  <2>3. CASE host' = [host EXCEPT ![a][want[a]] = "starting"]
    <3>1. HostType'
      BY <2>3 DEF Sole, HostType, HostStates
    <3>2. Consumers' \subseteq Consumers
      BY <2>3 DEF Consumers, Sole, HostType, HostAssumptions
    <3>. QED BY <2>1, <3>1, <3>2 DEF Sole, ConsumerHoldsLock
  <2>. QED BY <1>1, <2>2, <2>3 DEF StartHost
<1>2. CASE CloseHost(a)
  <2>1. flock' = flock /\ host' = [host EXCEPT ![a][Feishu] = "closing"]
    BY <1>2 DEF CloseHost
  <2>2. HostType'
    BY <2>1 DEF Sole, HostType, HostStates
  <2>3. Consumers' \subseteq Consumers
    BY <1>2, <2>1 DEF Consumers, Sole, HostType, HostAssumptions, CloseHost
  <2>. QED BY <2>1, <2>2, <2>3 DEF Sole, ConsumerHoldsLock
<1>3. CASE \E c \in Channels : RunClient(a, c)
  <2>1. PICK c \in Channels : RunClient(a, c)
    BY <1>3
  <2>2. /\ flock' = flock /\ c # Feishu
        /\ host' = [host EXCEPT ![a][c] = "running"]
    BY <2>1 DEF RunClient
  <2>3. HostType'
    BY <2>2 DEF Sole, HostType, HostStates
  <2>4. Consumers' \subseteq Consumers
    BY <2>2 DEF Consumers, Sole, HostType, HostAssumptions
  <2>. QED BY <2>2, <2>3, <2>4 DEF Sole, ConsumerHoldsLock
<1>. QED BY <1>1, <1>2, <1>3

-----------------------------------------------------------------------------
(* The strengthened invariant holds of every reachable state.              *)
THEOREM LockedConsumers == HostSpec => []Sole
<1>. USE HostAssumptions
<1>1. HostInit => Sole
  <2>. SUFFICES ASSUME HostInit PROVE Sole
    OBVIOUS
  <2>1. HostType
    BY DEF HostInit, NoHosts, HostType, HostStates
  <2>2. Consumers = {}
    BY DEF HostInit, NoHosts, Consumers, HostAssumptions
  <2>. QED BY <2>1, <2>2 DEF Sole, ConsumerHoldsLock
<1>2. Sole /\ [HostNext]_hostVars => Sole'
  <2>. SUFFICES ASSUME Sole, [HostNext]_hostVars PROVE Sole'
    OBVIOUS
  <2>. USE DEF Sole
  <2>1. CASE hosts' = hosts
    BY <2>1 DEF hosts, HostType, ConsumerHoldsLock, Consumers
  <2>2. ASSUME NEW p \in Procs, Boot(p) \/ Die(p) \/ Preload(p)
        PROVE  Sole'
    <3>1. CASE Boot(p) \/ Preload(p)
      BY <2>1, <3>1 DEF Boot, Preload
    <3>2. CASE Die(p)
      BY <3>2, DeathKeeps
    <3>. QED BY <2>2, <3>1, <3>2
  <2>3. ASSUME NEW a \in Actors, Load(a)
        PROVE  Sole'
    <3>1. CASE StartHost(a)
      BY <3>1, HostStepKeeps
    <3>2. CASE \/ Enter(a) \/ Check(a) \/ Resolve(a) \/ Register(a)
               \/ MarkManaged(a) \/ MarkLoaded(a)
      BY <2>1, <3>2 DEF Enter, Check, Resolve, Register,
                        MarkManaged, MarkLoaded
    <3>. QED BY <2>3, <3>1, <3>2 DEF Load
  <2>4. ASSUME NEW a \in Actors,
               AcquireRunLock(a) \/ CloseHost(a) \/ ReleaseRunLock(a)
        PROVE  Sole'
    BY <2>4, AcquireKeeps, HostStepKeeps, ReleaseKeeps
  <2>5. ASSUME NEW a \in Actors, NEW c \in Channels,
               \/ LoadCommand(a, c) \/ RunClient(a, c)
               \/ \E k \in Keys : SetConfig(a, c, k)
        PROVE  Sole'
    <3>1. CASE RunClient(a, c)
      BY <3>1, HostStepKeeps
    <3>2. CASE LoadCommand(a, c) \/ \E k \in Keys : SetConfig(a, c, k)
      BY <2>1, <3>2 DEF LoadCommand, SetConfig
    <3>. QED BY <2>5, <3>1, <3>2
  <2>6. ASSUME NEW a \in Actors, Connect(a) \/ Disconnect(a)
        PROVE  Sole'
    BY <2>1, <2>6 DEF Connect, Disconnect
  <2>7. CASE UNCHANGED hostVars
    BY <2>1, <2>7 DEF hostVars
  <2>. QED BY <2>2, <2>3, <2>4, <2>5, <2>6, <2>7 DEF HostNext
<1>. QED BY <1>1, <1>2, PTL DEF HostSpec

(* At most one host of the machine consumes the app's stream.              *)
THEOREM OneConsumerAlways == HostSpec => []OneConsumer
<1>1. Sole => OneConsumer
  BY DEF Sole, ConsumerHoldsLock, Consumers, OneConsumer
<1>. QED BY <1>1, LockedConsumers, PTL
=============================================================================
