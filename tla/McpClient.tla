------------------------------ MODULE McpClient ------------------------------
(***************************************************************************)
(* The MCP client of tools/mcp: one server, mounted by one thread of the   *)
(* runtime and then called by all of them.  Over stdio a message is a line *)
(* written to the server's process and the next line read back; over HTTP  *)
(* it is a request of its own, which the server may refuse and the client  *)
(* then sends once more, with a token it has acquired for the scopes the   *)
(* refusal names.                                                          *)
(***************************************************************************)
EXTENDS Naturals, Sequences, FiniteSets

CONSTANTS
    Threads,        \* threads of the runtime that share the client
    Mounter,        \* the one that mounts the server
    Wires,          \* transports: a subset of {"stdio", "http"}
    Tools,          \* what the server lists, a sequence
    PageSize,       \* tools per page of its list; 0 for all of them
    Scopes,
    Needs,          \* [tools -> lists of scopes], what a call must be granted
    TokenFor,       \* scope_token_map: a scope's token, as the scopes it grants
    Discoveries,    \* the lists of scopes the discovery may return
    MaxAsides,      \* lines the server writes unasked
    MaxFaults,      \* HTTP errors
    MaxCalls,       \* calls of one thread
    Nobody

ToolSet == {Tools[i] : i \in 1..Len(Tools)}

ASSUME McpAssumptions ==
    /\ Mounter \in Threads /\ Nobody \notin Threads
    /\ Wires \subseteq {"stdio", "http"}
    /\ PageSize \in Nat /\ Tools \in Seq(ToolSet)
    /\ Needs \in [ToolSet -> Seq(Scopes)] /\ Discoveries \subseteq Seq(Scopes)
    /\ DOMAIN TokenFor \subseteq Scopes
    /\ TokenFor \in [DOMAIN TokenFor -> SUBSET Scopes]
    /\ MaxAsides \in Nat /\ MaxFaults \in Nat /\ MaxCalls \in Nat

VARIABLES
    wire,       \* the transport in use
    session,    \* "none", "open" (initialize answered), "ready" or "closed"
    alive,      \* the stdio server's process runs
    lock,       \* who holds the lock of the stdio transport
    inbox, outbox,  \* the lines of the server's stdin and stdout
    asides, faults,
    method, arg,    \* per thread: the request it is making, and for what
    phase,      \* per thread: how far it is
    reply,      \* per thread: the response it has read
    items,      \* per thread: the tools listed so far
    upgraded,   \* per thread: the state the authorization adapter returned
    auth,       \* connected.auth_state: the scopes recorded, and the token
    granted,    \* transport_handle.metadata: what the token sent grants
    outcome,    \* per thread: how its last request ended
    spoilt,     \* per thread: the server answered it with an error page
    ran,        \* per thread: how often the server ran the tool of its call
    calls

wires == <<alive, lock, inbox, outbox, asides, faults>>
tokens == <<auth, granted, upgraded>>
request == <<method, arg, phase, reply, items>>
history == <<outcome, spoilt, ran, calls>>
vars == <<wire, session, wires, tokens, request, history>>

Methods == {"none", "initialize", "notifications/initialized", "tools/list",
            "tools/call"}
Phases == {"none", "send", "read", "reply", "store", "publish", "resend", "rereply"}
ScopesOf(seq) == {seq[i] : i \in 1..Len(seq)}
AuthStates == [scopes : Seq(Scopes), token : SUBSET Scopes]
NoAuth == [scopes |-> <<>>, token |-> {}]

\* What a response says: which message it answers, with which status, a page
\* of tools, which is empty in all but the ones to tools/list, and the scopes
\* a refusal's challenge asks for.
Empty == [tools |-> <<>>, next |-> 0]
Answer(t, to, status, page) ==
    [by |-> t, to |-> to, status |-> status, page |-> page, asks |-> <<>>]
NoAnswer == Answer(Nobody, "none", "ok", Empty)
Ident(t) == <<t, method[t], arg[t]>>

Init ==
    /\ wire \in Wires /\ session = "none" /\ alive = FALSE /\ lock = Nobody
    /\ inbox = <<>> /\ outbox = <<>> /\ asides = 0 /\ faults = 0
    /\ method = [t \in Threads |-> "none"] /\ arg = [t \in Threads |-> 0]
    /\ phase = [t \in Threads |-> "none"]
    /\ reply = [t \in Threads |-> NoAnswer]
    /\ items = [t \in Threads |-> <<>>]
    /\ upgraded = [t \in Threads |-> NoAuth] /\ auth = NoAuth /\ granted = {}
    /\ outcome = [t \in Threads |-> "none"]
    /\ spoilt = [t \in Threads |-> FALSE]
    /\ ran = [t \in Threads |-> 0] /\ calls = [t \in Threads |-> 0]

-----------------------------------------------------------------------------
(* The server: what it answers to a message (transport.py's in-memory server *)
(* is the reference for both wires).                                         *)
End(start) == start + (IF PageSize = 0 THEN Len(Tools) ELSE PageSize)

LastTool(start) == IF End(start) > Len(Tools) THEN Len(Tools) ELSE End(start)

\* Mutant: the cursor skips a tool.
PageLate(start) ==
    [tools |-> SubSeq(Tools, start + 1, LastTool(start)),
     next |-> IF End(start) < Len(Tools) THEN End(start) + 1 ELSE 0]

\* The tools from a cursor on, and the next cursor (0 stands for None).
Page(start) ==
    [tools |-> SubSeq(Tools, start + 1, LastTool(start)),
     next |-> IF End(start) < Len(Tools) THEN End(start) ELSE 0]

\* Over HTTP a call needs the scopes its tool names, by the token it carries;
\* the challenge of a refusal names the ones that are missing.
Missing(m, a) ==
    IF m = "tools/call" /\ wire = "http"
    THEN SelectSeq(Needs[a], LAMBDA s : s \notin granted) ELSE <<>>
Status(m, a) == IF Missing(m, a) = <<>> THEN "ok" ELSE "401"
Respond(t, m, a) ==
    [by |-> t, to |-> m, status |-> Status(m, a),
     page |-> IF m = "tools/list" THEN Page(a) ELSE Empty, asks |-> Missing(m, a)]

\* The process reads a line and writes one; unasked it may write others.
ServerAnswers ==
    /\ alive /\ inbox # <<>>
    /\ LET r == Head(inbox)
       IN  outbox' = Append(outbox, Respond(r[1], r[2], r[3]))
    /\ inbox' = Tail(inbox)
    /\ UNCHANGED <<wire, session, alive, lock, asides, faults, tokens, request,
                   history>>

ServerAside ==
    /\ alive /\ asides < MaxAsides /\ asides' = asides + 1
    /\ outbox' = Append(outbox, NoAnswer)
    /\ UNCHANGED <<wire, session, alive, lock, inbox, faults, tokens, request,
                   history>>

ServerDies ==
    /\ alive /\ alive' = FALSE
    /\ UNCHANGED <<wire, session, lock, inbox, outbox, asides, faults, tokens,
                   request, history>>

-----------------------------------------------------------------------------
(* Starting a request. *)
Starts(t, m, a) ==
    /\ phase[t] = "none"
    /\ method' = [method EXCEPT ![t] = m] /\ arg' = [arg EXCEPT ![t] = a]
    /\ phase' = [phase EXCEPT ![t] = "send"]
    /\ items' = [items EXCEPT ![t] = <<>>]
    /\ outcome' = [outcome EXCEPT ![t] = "none"]
    /\ spoilt' = [spoilt EXCEPT ![t] = FALSE]
    /\ ran' = [ran EXCEPT ![t] = 0]

\* The scopes a list of them has a token for in scope_token_map.
Mapped(scopes) == SelectSeq(scopes, LAMBDA s : s \in DOMAIN TokenFor)

\* acquire_token: the token of the last scope that has one, and all the scopes
\* that were asked for are recorded.
Acquire(scopes) ==
    [scopes |-> scopes, token |-> TokenFor[Mapped(scopes)[Len(Mapped(scopes))]]]

\* The same at initialize, where the discovery may have named an endpoint that
\* gives a token for scopes the map has none for.
FirstToken(scopes) ==
    IF scopes = <<>> THEN NoAuth
    ELSE IF Mapped(scopes) # <<>> THEN Acquire(scopes)
    ELSE [scopes |-> scopes, token |-> ScopesOf(scopes)]

\* initialize opens the transport first: the process, or the endpoint, which
\* may name scopes that a token is acquired for before anything is sent.
Initialize(t) ==
    /\ t = Mounter /\ session = "none" /\ calls[t] = 0
    /\ Starts(t, "initialize", 0)
    /\ alive' = (wire = "stdio")
    /\ \E scopes \in Discoveries \cup {<<>>} :
          /\ wire = "stdio" => scopes = <<>>
          /\ auth' = FirstToken(scopes) /\ granted' = FirstToken(scopes).token
    /\ calls' = [calls EXCEPT ![t] = 1]
    /\ UNCHANGED <<wire, session, lock, inbox, outbox, asides, faults, upgraded,
                   reply>>

\* The discovery, or the token, fails: initialize raises with nothing sent.
NotAuthorized(t) ==
    /\ t = Mounter /\ session = "none" /\ calls[t] = 0 /\ wire = "http"
    /\ calls' = [calls EXCEPT ![t] = 1] /\ outcome' = [outcome EXCEPT ![t] = "error"]
    /\ UNCHANGED <<wire, session, wires, tokens, request, spoilt, ran>>

SendInitialized(t) ==
    /\ t = Mounter /\ session = "open"
    /\ Starts(t, "notifications/initialized", 0)
    /\ UNCHANGED <<wire, session, wires, tokens, reply, calls>>

ListTools(t) ==
    /\ session = "ready" /\ calls[t] < MaxCalls
    /\ Starts(t, "tools/list", 0)
    /\ calls' = [calls EXCEPT ![t] = @ + 1]
    /\ UNCHANGED <<wire, session, wires, tokens, reply>>

CallTool(t, tool) ==
    /\ session = "ready" /\ calls[t] < MaxCalls
    /\ Starts(t, "tools/call", tool)
    /\ calls' = [calls EXCEPT ![t] = @ + 1]
    /\ UNCHANGED <<wire, session, wires, tokens, reply>>

\* close(): the process is ended and the session forgotten.
Close(t) ==
    /\ phase[t] = "none" /\ session = "ready"
    /\ session' = "closed" /\ alive' = FALSE
    /\ UNCHANGED <<wire, lock, inbox, outbox, asides, faults, tokens, request,
                   history>>

-----------------------------------------------------------------------------
(* Sending.  A request ends with an outcome and leaves no trace. *)
Ends(t, how) ==
    /\ phase' = [phase EXCEPT ![t] = "none"]
    /\ outcome' = [outcome EXCEPT ![t] = how]
    /\ reply' = [reply EXCEPT ![t] = NoAnswer]

\* Mutant: without the lock.
WriteUnlocked(t) ==
    /\ wire = "stdio" /\ phase[t] = "send"
    /\ \/ /\ alive /\ inbox' = Append(inbox, Ident(t))
          /\ phase' = [phase EXCEPT ![t] = "read"]
          /\ UNCHANGED <<reply, outcome>>
       \/ ~alive /\ Ends(t, "error") /\ UNCHANGED inbox
    /\ UNCHANGED <<wire, session, alive, lock, outbox, asides, faults, tokens,
                   method, arg, items, spoilt, ran, calls>>

\* The lock, and the line; a process that is gone or was closed raises.
WriteLine(t) ==
    /\ wire = "stdio" /\ phase[t] = "send" /\ lock = Nobody
    /\ \/ /\ alive /\ lock' = t
          /\ inbox' = Append(inbox, Ident(t))
          /\ phase' = [phase EXCEPT ![t] = "read"]
          /\ UNCHANGED <<reply, outcome>>
       \/ ~alive /\ Ends(t, "error") /\ UNCHANGED <<lock, inbox>>
    /\ UNCHANGED <<wire, session, alive, outbox, asides, faults, tokens,
                   method, arg, items, spoilt, ran, calls>>

\* Mutant: an exception leaves the lock taken.
KeepLock == lock

\* with lock: released when the line is read and when reading raises.
Released == Nobody

\* The next line of the process, whatever it is; its end raises.
ReadLine(t) ==
    /\ phase[t] = "read"
    /\ \/ /\ outbox # <<>>
          /\ reply' = [reply EXCEPT ![t] = Head(outbox)]
          /\ outbox' = Tail(outbox) /\ lock' = Nobody
          /\ phase' = [phase EXCEPT ![t] = "reply"]
          /\ UNCHANGED outcome
       \/ /\ outbox = <<>> /\ ~alive /\ lock' = Released
          /\ Ends(t, "error") /\ UNCHANGED outbox
    /\ UNCHANGED <<wire, session, alive, inbox, asides, faults, tokens, method,
                   arg, items, spoilt, ran, calls>>

\* The server has run the tool of the call.
Runs(t) ==
    IF method[t] = "tools/call" THEN ran' = [ran EXCEPT ![t] = @ + 1]
    ELSE UNCHANGED ran

\* An HTTP request: answered, or it fails on its way there, in the server or on
\* its way back, with an error page or an exception.
Post(t) ==
    /\ wire = "http" /\ phase[t] \in {"send", "resend"}
    /\ LET answer == Respond(t, method[t], arg[t])
           awaits == phase' = [phase EXCEPT ![t] = IF @ = "send" THEN "reply" ELSE "rereply"]
       IN  \/ /\ reply' = [reply EXCEPT ![t] = answer] /\ awaits
              /\ IF answer.status = "ok" THEN Runs(t) ELSE UNCHANGED ran
              /\ UNCHANGED <<faults, spoilt, outcome>>
           \/ /\ faults < MaxFaults /\ faults' = faults + 1
              /\ UNCHANGED ran \/ (answer.status = "ok" /\ Runs(t))
              /\ \/ /\ reply' = [reply EXCEPT ![t] = Answer(t, method[t], "500", Empty)]
                    /\ spoilt' = [spoilt EXCEPT ![t] = TRUE]
                    /\ awaits /\ UNCHANGED outcome
                 \/ Ends(t, "error") /\ UNCHANGED spoilt
    /\ UNCHANGED <<wire, session, alive, lock, inbox, outbox, asides, tokens,
                   method, arg, items, calls>>

-----------------------------------------------------------------------------
(* What the client does with a response. *)

\* Only initialize is read strictly: anything but its result raises.
Initialized(t) ==
    /\ phase[t] = "reply" /\ method[t] = "initialize"
    /\ \/ /\ reply[t].to = "initialize" /\ reply[t].status = "ok"
          /\ session' = "open" /\ Ends(t, "ok")
       \/ /\ ~(reply[t].to = "initialize" /\ reply[t].status = "ok")
          /\ Ends(t, "error") /\ UNCHANGED session
    /\ UNCHANGED <<wire, wires, tokens, method, arg, items, spoilt, ran, calls>>

Acknowledged(t) ==
    /\ phase[t] = "reply" /\ method[t] = "notifications/initialized"
    /\ session' = "ready" /\ Ends(t, "ok")
    /\ UNCHANGED <<wire, wires, tokens, method, arg, items, spoilt, ran, calls>>

\* _collect_all: pages until one has no next cursor.  A response that holds no
\* tools counts as an empty last page.
Collected(t) ==
    /\ phase[t] = "reply" /\ method[t] = "tools/list"
    /\ LET page == reply[t].page
       IN  /\ items' = [items EXCEPT ![t] = @ \o page.tools]
           /\ arg' = [arg EXCEPT ![t] = page.next]
           /\ \/ /\ page.next = 0 /\ Ends(t, "ok")
              \/ /\ page.next # 0
                 /\ phase' = [phase EXCEPT ![t] = "send"]
                 /\ reply' = [reply EXCEPT ![t] = NoAnswer]
                 /\ UNCHANGED outcome
    /\ UNCHANGED <<wire, session, wires, tokens, method, spoilt, ran, calls>>

\* Mutant: a call that failed is sent once more as well.
RefusedOrFailed(t) == reply[t].status # "ok"

Refused(t) == reply[t].status = "401"

Called(t) ==
    /\ phase[t] \in {"reply", "rereply"} /\ method[t] = "tools/call"
    /\ phase[t] = "reply" => ~Refused(t)
    /\ Ends(t, IF Refused(t) THEN "refused"
               ELSE IF reply[t].status = "500" THEN "error" ELSE "ok")
    /\ UNCHANGED <<wire, session, wires, tokens, method, arg, items, spoilt,
                   ran, calls>>

(* A 401 in _request: the scopes the challenge names are added to the ones   *)
(* on record, a token is acquired for them, and the request is sent once     *)
(* more; its second response is taken as it is.  When all of them are on     *)
(* record the state stays what it is; when the map has a token for none of   *)
(* them, McpAuthorizationError is raised: a challenge names no endpoint.     *)
Merged(t) ==
    auth.scopes \o SelectSeq(reply[t].asks, LAMBDA s : s \notin ScopesOf(auth.scopes))

Upgrade(t) ==
    /\ phase[t] = "reply" /\ Refused(t)
    /\ \/ /\ Merged(t) = auth.scopes \/ Mapped(Merged(t)) # <<>>
          /\ upgraded' = [upgraded EXCEPT
                            ![t] = IF Merged(t) = auth.scopes THEN auth ELSE Acquire(Merged(t))]
          /\ phase' = [phase EXCEPT ![t] = "store"]
          /\ UNCHANGED <<reply, outcome>>
       \/ /\ Merged(t) # auth.scopes /\ Mapped(Merged(t)) = <<>>
          /\ Ends(t, "error") /\ UNCHANGED upgraded
    /\ UNCHANGED <<wire, session, wires, auth, granted, method, arg, items,
                   spoilt, ran, calls>>

StoreAuth(t) ==
    /\ phase[t] = "store"
    /\ auth' = upgraded[t] /\ phase' = [phase EXCEPT ![t] = "publish"]
    /\ UNCHANGED <<wire, session, wires, granted, upgraded, method, arg, reply,
                   items, history>>

PublishToken(t) ==
    /\ phase[t] = "publish"
    /\ granted' = upgraded[t].token /\ phase' = [phase EXCEPT ![t] = "resend"]
    /\ reply' = [reply EXCEPT ![t] = NoAnswer]
    /\ UNCHANGED <<wire, session, wires, auth, upgraded, method, arg, items,
                   history>>

-----------------------------------------------------------------------------
Transact(t) ==
    \/ WriteLine(t) \/ ReadLine(t) \/ Post(t)
    \/ Initialized(t) \/ Acknowledged(t) \/ Collected(t) \/ Called(t)
    \/ Upgrade(t) \/ StoreAuth(t) \/ PublishToken(t)

Next ==
    \/ ServerAnswers \/ ServerAside \/ ServerDies
    \/ \E t \in Threads :
          \/ Transact(t) \/ Initialize(t) \/ NotAuthorized(t)
          \/ SendInitialized(t) \/ ListTools(t)
          \/ Close(t) \/ \E tool \in ToolSet : CallTool(t, tool)

Spec == Init /\ [][Next]_vars

\* The server answers every line, threads run on, and a lock that is free
\* again and again is got.
FairSpec ==
    /\ Spec /\ WF_vars(ServerAnswers)
    /\ \A t \in Threads : WF_vars(Transact(t)) /\ SF_vars(WriteLine(t))

-----------------------------------------------------------------------------
TypeOK ==
    /\ wire \in Wires /\ session \in {"none", "open", "ready", "closed"}
    /\ alive \in BOOLEAN /\ lock \in Threads \cup {Nobody}
    /\ method \in [Threads -> Methods] /\ phase \in [Threads -> Phases]
    /\ upgraded \in [Threads -> AuthStates]
    /\ auth \in AuthStates /\ granted \subseteq Scopes
    /\ asides \in 0..MaxAsides /\ faults \in 0..MaxFaults
    /\ \A t \in Threads : calls[t] \in 0..MaxCalls /\ spoilt[t] \in BOOLEAN

(* "Send a JSON-RPC message and return the decoded response": the response a *)
(* request gets is the response to that request, whichever threads call the  *)
(* server at the same time (McpTransport.send).  The ids are not compared,   *)
(* so over stdio this needs a server that writes nothing unasked.            *)
OwnAnswer ==
    asides = 0 => \A t \in Threads :
                     phase[t] \in {"reply", "rereply"}
                     => reply[t].by = t /\ reply[t].to = method[t]

(* A listing that ends has every tool of the server once and in its order,   *)
(* for every page size, unless a page was an error page or a line the server *)
(* wrote unasked (list_tools, _collect_all, _paginate_items).                *)
ListComplete ==
    asides = 0 => \A t \in Threads :
                     method[t] = "tools/list" /\ outcome[t] = "ok"
                     => items[t] = Tools \/ spoilt[t]

(* A call is sent a second time only when its first was refused, so that     *)
(* over HTTP the server runs its tool at most once, whatever request or      *)
(* response is lost and whatever tokens other threads store or publish       *)
(* meanwhile (_request's retry).                                             *)
RunsAtMostOnce ==
    wire = "http" => \A t \in Threads : method[t] = "tools/call" => ran[t] <= 1

(* "WWW-Authenticate scope upgrade": a call is not refused for scopes that   *)
(* the client has tokens for.                                                *)
StepUpSuffices ==
    \A t \in Threads :
        outcome[t] = "refused" => ~(ScopesOf(Needs[arg[t]]) \subseteq DOMAIN TokenFor)

(* Every request returns, also when the server's process dies or is closed   *)
(* while other threads wait for it (StdioMcpTransport.send).                 *)
RequestReturns == \A t \in Threads : phase[t] # "none" ~> phase[t] = "none"
=============================================================================
