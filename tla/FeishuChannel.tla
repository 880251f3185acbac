--------------------------- MODULE FeishuChannel ---------------------------
(***************************************************************************)
(* FeishuLongConnectionHost (gateway/channels/feishu/host.py) over the     *)
(* inbound dedupe file (dedupe.py) and the card delivery file (cards.py).  *)
(*                                                                         *)
(* The long connection hands over one event at a time: a message, which    *)
(* the platform may deliver again, or a click on an approval card, which   *)
(* the user may repeat.  A second thread retries the cards whose delivery  *)
(* is pending.  Both work on copies of the records in the card file, take  *)
(* the card lock only to deliver and save, and may be stopped by a crash   *)
(* between any two steps; both files are rewritten in place.  A write of   *)
(* the card file that raises ends the handling of the event, and the retry *)
(* thread for good; one of the dedupe file, which ends the handling before *)
(* it has begun, is left out.                                              *)
(*                                                                         *)
(* The gateway is modelled from its use: a request yields a script of      *)
(* runtime events or raises.  Redeliveries come within the dedupe store's  *)
(* time to live, and a pending card may be due for its retry at any time.  *)
(***************************************************************************)
EXTENDS FeishuCards, FiniteSets, SequencesExt

CONSTANTS
    Messages,
    Prompts,        \* the messages for the agent; others are commands or ignored
    Scripts,        \* the runtime events a message may lead to
    Answered,       \* the runtime events an approval may lead to
    None,
    MaxDeliveries,  \* bound on the deliveries of a message
    MaxClicks,      \* bound on the clicks on a card
    MaxFails,       \* bound on the API calls that fail
    MaxCrashes      \* bound on the crashes and on the writes that raise

ASSUME FeishuAssumption ==
    /\ Prompts \subseteq Messages
    /\ {MaxDeliveries, MaxClicks, MaxFails, MaxCrashes} \subseteq Nat
    /\ None \notin {"events", "retry"}

Threads == {"events", "retry"}

VARIABLES
    seen,       \* the dedupe file
    store,      \* the card file: a record for each message, or None
    inProgress, \* _in_progress_reactions: messages with a reaction to remove
    lock,       \* the holder of _card_lock, or None
    at, msg, rec, script, todo, ok,     \* where a thread is, and on what
    posts,      \* the card messages of a message in the chat
    busy, done, \* the reactions in the chat
    awaiting,   \* the session waits for an approval
    again,      \* cards that were sent a number that was not higher than the last
    final,      \* the chat has shown a stable card
    handled,    \* how often the gateway was given the message
    cut,        \* a crash cut the dedupe file short
    deliveries, clicks, fails, crashes      \* counts that the bounds are about; a write that
                                            \* raises counts as a crash

files   == <<seen, store>>
threads == <<lock, at, msg, rec, script, todo, ok>>
chat    == <<posts, busy, done, again, final>>
counts  == <<handled, cut, deliveries, clicks, crashes>>
vars    == <<files, inProgress, threads, chat, awaiting, counts, fails>>

Init ==
    /\ seen = {} /\ store = [m \in Messages |-> None] /\ inProgress = {} /\ lock = None
    /\ at = [a \in Threads |-> "idle"] /\ msg = [a \in Threads |-> None]
    /\ rec = [a \in Threads |-> None] /\ script = <<>>
    /\ todo = [a \in Threads |-> {}] /\ ok = [a \in Threads |-> FALSE]
    /\ posts = [m \in Messages |-> <<>>]
    /\ busy = {} /\ done = {} /\ awaiting = {} /\ again = {} /\ final = {}
    /\ handled = [m \in Messages |-> 0] /\ cut = FALSE
    /\ deliveries = [m \in Messages |-> 0] /\ clicks = [m \in Messages |-> 0]
    /\ fails = 0 /\ crashes = 0

Goto(a, where) == at' = [at EXCEPT ![a] = where]

(* A thread that is idle holds on to nothing.                              *)
Keep(a, where, m, r, o) ==
    /\ msg' = [msg EXCEPT ![a] = IF where = "idle" THEN None ELSE m]
    /\ rec' = [rec EXCEPT ![a] = IF where = "idle" THEN None ELSE r]
    /\ ok' = [ok EXCEPT ![a] = IF where = "idle" THEN FALSE ELSE o]
Rest(a, where) == Goto(a, where) /\ Keep(a, where, msg[a], rec[a], ok[a])

(* A reaction call may fail; the failure is only printed.                  *)
Fallible(success) == \/ success /\ UNCHANGED fails
                     \/ ~success /\ fails < MaxFails /\ fails' = fails + 1
-----------------------------------------------------------------------------
(* The card lock: _sync_card_delivery, then the record is saved.           *)

Deliver(a, m, r, next) ==
    /\ lock = None /\ lock' = a
    /\ \E x \in SyncCard(r, posts[m], MaxFails - fails) :
          /\ rec' = [rec EXCEPT ![a] = x.r] /\ ok' = [ok EXCEPT ![a] = x.end = "delivered"]
          /\ posts' = [posts EXCEPT ![m] = x.posts]
          /\ again' = IF x.again THEN again \cup {m} ELSE again
          /\ final' = IF \E i \in 1..Len(x.posts) : x.posts[i].status \in Stable
                      THEN final \cup {m} ELSE final
          /\ fails' = fails + x.bad
    /\ Goto(a, next)
    /\ UNCHANGED <<files, inProgress, todo, busy, done, awaiting, counts>>

(* A delta that comes too soon after the last one is not delivered yet.    *)
HoldBack(a, r, next) ==
    /\ lock = None /\ lock' = a
    /\ rec' = [rec EXCEPT ![a] = r] /\ ok' = [ok EXCEPT ![a] = FALSE]
    /\ Goto(a, next)
    /\ UNCHANGED <<files, inProgress, todo, chat, awaiting, counts, fails>>

(* card_delivery_store.upsert; the lock is released.                       *)
SaveCard(a, from, next) ==
    /\ at[a] = from /\ lock = a /\ lock' = None
    /\ store' = [store EXCEPT ![msg[a]] = rec[a]]
    /\ Rest(a, next)
    /\ UNCHANGED <<seen, inProgress, script, todo, chat, awaiting, counts, fails>>

(* Or writing the file raises, which leaves it as it was, or cut; the      *)
(* exception ends the turn, the click or the retries.                      *)
Saving == {"saving card", "saving", "saving action", "saving answer", "saving failure",
           "saving retry"}

SaveRaises(a) ==
    /\ at[a] \in Saving /\ lock = a /\ lock' = None
    /\ crashes < MaxCrashes /\ crashes' = crashes + 1
    /\ store' \in {store, [m \in Messages |-> None]}
    /\ Rest(a, CASE a = "retry"                        -> "dead"
                 [] at[a] \in {"saving card", "saving"} -> "finally"
                 [] OTHER                               -> "idle")
    /\ script' = IF a = "events" THEN <<>> ELSE script
    /\ todo' = [todo EXCEPT ![a] = {}]
    /\ UNCHANGED <<seen, inProgress, chat, awaiting, handled, cut, deliveries, clicks, fails>>
-----------------------------------------------------------------------------
(* handle_event: a message.                                                *)

(* Mutant: a message is marked only when its handling begins.              *)
ReceiveUnmarked(m) ==
    /\ at["events"] = "idle" /\ deliveries[m] < MaxDeliveries
    /\ deliveries' = [deliveries EXCEPT ![m] = @ + 1]
    /\ IF m \in seen THEN UNCHANGED <<msg, at>>
       ELSE msg' = [msg EXCEPT !["events"] = m] /\ Goto("events", "seen")
    /\ UNCHANGED <<seen, store, inProgress, lock, rec, script, todo, ok, chat, awaiting, handled, cut,
                   clicks, crashes, fails>>

(* check_and_mark: a duplicate is skipped; a new message is marked before  *)
(* anything is done with it.                                               *)
Receive(m) ==
    /\ at["events"] = "idle" /\ deliveries[m] < MaxDeliveries
    /\ deliveries' = [deliveries EXCEPT ![m] = @ + 1]
    /\ IF m \in seen THEN UNCHANGED <<seen, msg, at>>
       ELSE /\ seen' = seen \cup {m} /\ msg' = [msg EXCEPT !["events"] = m]
            /\ Goto("events", "seen")
    /\ UNCHANGED <<store, inProgress, lock, rec, script, todo, ok, chat, awaiting, handled, cut,
                   clicks, crashes, fails>>

(* normalize_inbound ignores a message; another gets a reaction.           *)
Normalize ==
    LET m == msg["events"] IN
    /\ at["events"] = "seen"
    /\ \/ /\ m \notin Prompts
          /\ Rest("events", "idle") /\ UNCHANGED <<busy, inProgress, fails>>
       \/ /\ Rest("events", IF m \in Prompts THEN "carding" ELSE "managing")
          /\ \E success \in BOOLEAN :
                /\ Fallible(success)
                /\ busy' = IF success /\ m \notin inProgress THEN busy \cup {m} ELSE busy
                /\ inProgress' = IF success THEN inProgress \cup {m} ELSE inProgress
    /\ UNCHANGED <<files, lock, script, todo, posts, done, again, final, awaiting, counts>>

(* _mark_message_completed: the old reaction goes, the DONE one comes;     *)
(* either call may fail.                                                   *)
MarkCompleted(m) ==
    /\ inProgress' = inProgress \ {m}
    /\ \E failed \in SUBSET ({"add"} \cup IF m \in inProgress THEN {"remove"} ELSE {}) :
          /\ fails + Cardinality(failed) <= MaxFails /\ fails' = fails + Cardinality(failed)
          /\ done' = IF "add" \in failed THEN done ELSE done \cup {m}
          /\ busy' = IF m \in inProgress /\ "remove" \notin failed THEN busy \ {m} ELSE busy

(* A command for the host or for the session is answered with texts, or    *)
(* that fails; an approval given in words leaves the card as it is.        *)
Manage ==
    /\ at["events"] = "managing"
    /\ \E answered \in SUBSET awaiting :
          Cardinality(answered) <= 1 /\ awaiting' = awaiting \ answered
    /\ MarkCompleted(msg["events"])
    /\ Rest("events", "idle")
    /\ UNCHANGED <<files, lock, script, todo, posts, again, final, counts>>

(* _ensure_binding and _ensure_turn_card: the gateway may refuse the       *)
(* session; a record of an earlier delivery is taken as it is.             *)
BindFails ==
    /\ at["events"] = "carding" /\ Goto("events", "finally")
    /\ UNCHANGED <<files, inProgress, lock, msg, rec, script, todo, ok, chat, awaiting, counts, fails>>

ReuseCard ==
    LET m == msg["events"] IN
    /\ at["events"] = "carding" /\ lock = None /\ store[m] # None
    /\ rec' = [rec EXCEPT !["events"] = store[m]]
    /\ Goto("events", "processing")
    /\ UNCHANGED <<files, inProgress, lock, msg, script, todo, ok, chat, awaiting, counts, fails>>

NewTurnCard ==
    LET m == msg["events"] IN
    /\ at["events"] = "carding" /\ store[m] = None
    /\ Deliver("events", m, NewCard, "saving card")
    /\ UNCHANGED <<msg, script>>

(* gateway.process_input.                                                  *)
Process ==
    LET m == msg["events"] IN
    /\ at["events"] = "processing"
    /\ handled' = [handled EXCEPT ![m] = @ + 1]
    /\ \/ /\ script' \in Scripts /\ Goto("events", "dispatching")
          /\ awaiting' = IF Last(script') = "requires_action" THEN awaiting \cup {m} ELSE awaiting
       \/ Goto("events", "finally") /\ UNCHANGED <<script, awaiting>>
    /\ UNCHANGED <<files, inProgress, lock, msg, rec, todo, ok, chat, cut, deliveries, clicks, crashes,
                   fails>>

(* _dispatch_egress: an event is applied to the card, which is delivered   *)
(* (_should_flush_card) and saved; a stable one completes the message.     *)
DispatchEvent ==
    LET m == msg["events"]
        r == ApplyEvent(rec["events"], Head(script)) IN
    /\ at["events"] \in {"dispatching", "answering"} /\ script # <<>>
    /\ \/ Deliver("events", m, r, IF at["events"] = "answering" THEN "saving answer" ELSE "saving")
       \/ /\ r.msg # 0 /\ ~r.pending /\ Head(script) = "assistant_delta"
          /\ HoldBack("events", r, IF at["events"] = "answering" THEN "saving answer" ELSE "saving")
    /\ script' = Tail(script)
    /\ UNCHANGED msg

(* Mutant: a stable record completes the message, delivered or not.        *)
CompleteUndelivered ==
    LET m == msg["events"] IN
    /\ at["events"] = "marking" /\ Goto("events", "dispatching")
    /\ IF rec["events"].status \in Stable
       THEN MarkCompleted(m) ELSE UNCHANGED <<inProgress, done, busy, fails>>
    /\ UNCHANGED <<files, lock, msg, rec, script, todo, ok, posts, again, final, awaiting,
                   counts>>

CompleteMessage ==
    LET m == msg["events"] IN
    /\ at["events"] = "marking" /\ Goto("events", "dispatching")
    /\ IF ok["events"] /\ rec["events"].status \in Stable
       THEN MarkCompleted(m) ELSE UNCHANGED <<inProgress, done, busy, fails>>
    /\ UNCHANGED <<files, lock, msg, rec, script, todo, ok, posts, again, final, awaiting,
                   counts>>

DispatchEnds ==
    /\ at["events"] \in {"dispatching", "answering"} /\ script = <<>>
    /\ Rest("events", IF at["events"] = "answering" THEN "idle" ELSE "finally")
    /\ UNCHANGED <<files, inProgress, lock, script, todo, chat, awaiting, counts, fails>>
-----------------------------------------------------------------------------
(* handle_card_action: a click.  Clicks are not deduplicated.              *)

Click(m) ==
    /\ at["events"] = "idle" /\ clicks[m] < MaxClicks
    /\ m \in final /\ store[m] # None /\ store[m].msg # 0
    /\ \/ posts[m][store[m].msg].status = "requires_action" \/ clicks[m] > 0
    /\ clicks' = [clicks EXCEPT ![m] = @ + 1] /\ msg' = [msg EXCEPT !["events"] = m]
    /\ rec' = [rec EXCEPT !["events"] = MarkRunning(store[m])]
    /\ Goto("events", "acting")
    /\ UNCHANGED <<files, inProgress, lock, script, todo, ok, chat, awaiting, handled, cut,
                   deliveries, crashes, fails>>

ShowAction ==
    /\ at["events"] = "acting" /\ Deliver("events", msg["events"], rec["events"], "saving action")
    /\ UNCHANGED <<msg, script>>

(* gateway.process_control_message raises when no approval is awaited.     *)
Control ==
    LET m == msg["events"] IN
    /\ at["events"] = "controlling"
    /\ \/ /\ m \in awaiting /\ script' \in Answered /\ Goto("events", "answering")
          /\ awaiting' = awaiting \ {m} /\ UNCHANGED rec
       \/ /\ rec' = [rec EXCEPT !["events"] = MarkFailed(@)] /\ Goto("events", "failing")
          /\ UNCHANGED <<script, awaiting>>
    /\ UNCHANGED <<files, inProgress, lock, msg, todo, ok, chat, counts, fails>>

ShowFailure ==
    /\ at["events"] = "failing" /\ Deliver("events", msg["events"], rec["events"], "saving failure")
    /\ UNCHANGED <<msg, script>>
-----------------------------------------------------------------------------
(* _retry_pending_cards, at the end of handle_event and in the loop of the *)
(* retry thread: the pending records that are due are copied, and each is  *)
(* delivered and saved as it was when it was copied.                       *)

(* Mutant: only a further message makes the host retry.                    *)
ListOnMessage(a) ==
    LET pending == {m \in Messages : store[m] # None /\ store[m].pending} IN
    /\ a = "events" /\ at[a] = "finally"
    /\ \E due \in SUBSET {m \in pending : ~Suspended(store[m])} :
          todo' = [todo EXCEPT ![a] = {<<m, store[m]>> : m \in due}]
    /\ Goto(a, "retrying")
    /\ UNCHANGED <<files, inProgress, lock, msg, rec, script, ok, chat, awaiting, counts, fails>>

ListPending(a) ==
    LET pending == {m \in Messages : store[m] # None /\ store[m].pending} IN
    /\ \/ a = "events" /\ at[a] = "finally"
       \/ a = "retry" /\ at[a] = "idle"
    /\ \E due \in SUBSET {m \in pending : ~Suspended(store[m])} :
          /\ a = "retry" => due # {}
          /\ todo' = [todo EXCEPT ![a] = {<<m, store[m]>> : m \in due}]
    /\ Goto(a, "retrying")
    /\ UNCHANGED <<files, inProgress, lock, msg, rec, script, ok, chat, awaiting, counts, fails>>

RetryCard(a) ==
    /\ at[a] = "retrying"
    /\ \E c \in todo[a] :
          /\ Deliver(a, c[1], c[2], "saving retry")
          /\ msg' = [msg EXCEPT ![a] = c[1]]
    /\ UNCHANGED script

RetryEnds(a) ==
    /\ at[a] = "retrying" /\ todo[a] = {}
    /\ Rest(a, "idle")
    /\ UNCHANGED <<files, inProgress, lock, script, todo, chat, awaiting, counts, fails>>

CompleteRetried(a) ==
    LET m == msg[a] IN
    /\ at[a] = "retried" /\ Goto(a, "retrying")
    /\ todo' = [todo EXCEPT ![a] = {c \in @ : c[1] # m}]
    /\ IF ok[a] /\ rec[a].status \in Stable
       THEN MarkCompleted(m) ELSE UNCHANGED <<inProgress, done, busy, fails>>
    /\ UNCHANGED <<files, lock, msg, rec, script, ok, posts, again, final, awaiting, counts>>
-----------------------------------------------------------------------------
(* A crash loses what was in memory and may cut the file that is written.  *)
Crash ==
    /\ crashes < MaxCrashes /\ crashes' = crashes + 1
    /\ \/ UNCHANGED <<seen, cut>>
       \/ at["events"] = "seen" /\ seen' = {} /\ cut' = TRUE
    /\ \/ UNCHANGED store
       \/ lock # None /\ store' = [m \in Messages |-> None]
    /\ inProgress' = {} /\ lock' = None
    /\ at' = [a \in Threads |-> "idle"] /\ msg' = [a \in Threads |-> None]
    /\ rec' = [a \in Threads |-> None] /\ script' = <<>>
    /\ todo' = [a \in Threads |-> {}] /\ ok' = [a \in Threads |-> FALSE]
    /\ UNCHANGED <<chat, awaiting, handled, deliveries, clicks, fails>>

HandleMessage ==
    \/ Normalize \/ Manage \/ BindFails \/ ReuseCard \/ NewTurnCard
    \/ SaveCard("events", "saving card", "processing") \/ Process
    \/ DispatchEvent \/ SaveCard("events", "saving", "marking") \/ CompleteMessage \/ DispatchEnds

HandleAction ==
    \/ ShowAction \/ SaveCard("events", "saving action", "controlling") \/ Control
    \/ SaveCard("events", "saving answer", "answering")
    \/ ShowFailure \/ SaveCard("events", "saving failure", "idle")

Retry(a) ==
    \/ ListPending(a) \/ RetryCard(a) \/ SaveCard(a, "saving retry", "retried")
    \/ CompleteRetried(a) \/ RetryEnds(a)

Next ==
    \/ \E m \in Messages : Receive(m) \/ Click(m)
    \/ HandleMessage \/ HandleAction
    \/ \E a \in Threads : Retry(a) \/ SaveRaises(a)
    \/ Crash

(* The event that was taken is handled, and the retry loop goes on.        *)
Fairness ==
    /\ WF_vars(HandleMessage \/ HandleAction \/ Retry("events"))
    /\ WF_vars(Retry("retry"))

Spec     == Init /\ [][Next]_vars
FairSpec == Spec /\ Fairness
-----------------------------------------------------------------------------
Points == {"idle", "seen", "managing", "carding", "saving card", "processing", "dispatching", "saving",
           "marking", "finally", "acting", "saving action", "controlling", "answering",
           "saving answer", "failing", "saving failure", "retrying", "saving retry", "retried", "dead"}

(* Threads, files and chat refer to messages, cards and points that exist. *)
TypeOK ==
    /\ seen \subseteq Messages /\ store \in [Messages -> Cards \cup {None}]
    /\ {inProgress, busy, done, awaiting, final} \subseteq SUBSET Messages
    /\ lock \in Threads \cup {None} /\ at \in [Threads -> Points]
    /\ \A a \in Threads : msg[a] \in Messages \cup {None} /\ rec[a] \in Cards \cup {None}
    /\ \A m \in Messages : posts[m] \in Seq(Posts)
    /\ fails \in 0..MaxFails

(* "restart-safe short-term idempotency": a message is given to the        *)
(* gateway at most once however often it is delivered and whenever the     *)
(* host crashes, unless the crash cut the dedupe file itself.              *)
HandledOnce == \A m \in Messages : handled[m] > 1 => cut

(* A message gets its DONE reaction only after the chat has shown a final  *)
(* card for it, delivered by whichever thread.                             *)
DoneWasShown == done \cap Prompts \subseteq final

(* Until a crash or a failed write, a record that owes the chat nothing    *)
(* says what its card message shows, failed calls, fallbacks and late      *)
(* retries included; and a card that asks for an approval is shown by      *)
(* CardKit: "Feishu approval card requires CardKit; patch fallback is      *)
(* unsupported".                                                           *)
SavedIsShown ==
    \A m \in Messages :
        crashes = 0 /\ lock = None /\ store[m] # None
        /\ ~store[m].pending /\ ~store[m].dirty
        => LET post == posts[m][store[m].msg]
           IN  /\ post.status = store[m].status
               /\ post.status = "requires_action" => post.how = "kit"

(* A stable card that is pending when no thread is at work on it is shown  *)
(* in the chat in the end, however often its delivery fails before, unless *)
(* a click or a crash replaces the record, its retries are suspended, or   *)
(* the retry thread died (host.py:690-708, 339 and 367).                   *)
Quiet(m)    == \A a \in Threads : msg[a] # m /\ \A c \in todo[a] : c[1] # m
Owes(m, st) == store[m] # None /\ store[m].pending /\ store[m].status = st
Shows(m, st) ==
    \/ store[m] = None \/ store[m].status # st
    \/ store[m].msg # 0 /\ posts[m][store[m].msg].status = st

CardsDelivered ==
    \A m \in Prompts, st \in Stable :
        Owes(m, st) /\ Quiet(m) ~> Shows(m, st) \/ Suspended(store[m]) \/ at["retry"] = "dead"

(* The same of a card that the thread which handled its message leaves     *)
(* pending, whatever the other thread is doing.                            *)
LastCardDelivered ==
    \A m \in Prompts, st \in Stable :
        Owes(m, st) /\ at["events"] = "idle"
            ~> \/ \E i \in 1..Len(posts[m]) : posts[m][i].status = st
               \/ store[m] = None \/ Suspended(store[m]) \/ at["retry"] = "dead"

(* "Return the next strictly increasing sequence number": the numbers sent *)
(* for a card increase.                                                    *)
SequenceIncreases == again = {}
=============================================================================
