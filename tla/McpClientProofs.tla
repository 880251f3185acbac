---------------------------- MODULE McpClientProofs ----------------------------
(***************************************************************************)
(* Three facts about the MCP client, for any number of threads, tools,       *)
(* scopes and faults and for any page size.                                *)
(*                                                                         *)
(* A request gets its own answer.  Over stdio nothing compares ids, so     *)
(* what makes it true is that the lock leaves at most one line between     *)
(* client and server, and that this line is of the thread that holds it,   *)
(* going in or coming out; a process that died leaves a line behind only   *)
(* in the pipe nobody reads.                                               *)
(*                                                                         *)
(* A call is sent again only after a refusal, and a refusal means that its *)
(* tool was not run: from the refusal to the second request nothing runs   *)
(* it, whatever the other threads do to the token it is sent with.         *)
(*                                                                         *)
(* A listing that ends is complete: what a thread has collected are the    *)
(* tools up to its cursor, and the page it reads is the one at its cursor. *)
(*                                                                         *)
(* The last section is about the skills that a role offers beside its MCP  *)
(* tools: Skills' CalmCacheIsExact and SteadyCopyIsNotOutranked.           *)
(***************************************************************************)
EXTENDS McpClient, Skills, SequenceTheorems, WellFoundedInduction, TLAPS

McpType ==
    /\ method \in [Threads -> Methods] /\ phase \in [Threads -> Phases]
    /\ calls \in [Threads -> Nat] /\ asides \in Nat
    /\ reply = [t \in Threads |-> reply[t]]
    /\ arg = [t \in Threads |-> arg[t]]

(* Before the mounter initializes the server nothing goes on.              *)
Quiet ==
    calls[Mounter] = 0 =>
        /\ session = "none" /\ ~alive /\ inbox = <<>>
        /\ \A t \in Threads : phase[t] = "none"

(* The lock of the stdio transport is held exactly while a line is awaited.*)
ReaderHoldsLock ==
    /\ lock \in Threads \cup {Nobody}
    /\ \A t \in Threads : phase[t] = "read" <=> lock = t

(* What is between client and server, as long as the server wrote nothing  *)
(* unasked: the line of the thread that holds the lock, or its answer.     *)
OneLine ==
    /\ lock = Nobody => outbox = <<>> /\ (alive => inbox = <<>>)
    /\ \A t \in Threads : lock = t =>
          \/ inbox = <<Ident(t)>> /\ outbox = <<>>
          \/ /\ inbox = <<>> /\ outbox = <<outbox[1]>>
             /\ outbox[1].by = t /\ outbox[1].to = method[t]

OwnReply ==
    \A t \in Threads : phase[t] \in {"reply", "rereply"} =>
        reply[t].by = t /\ reply[t].to = method[t]

Inductive ==
    /\ McpType /\ Quiet /\ ReaderHoldsLock
    /\ asides = 0 => OneLine /\ OwnReply

(* A thread that is in a request, but not at the pipe, moves on.           *)
OwnStep(t) ==
    /\ UNCHANGED <<lock, alive, inbox, outbox, asides, calls, method>>
    /\ phase[t] \notin {"none", "read"} /\ phase'[t] \in Phases \ {"read"}
    /\ phase' = [phase EXCEPT ![t] = phase'[t]]
    /\ reply' = [reply EXCEPT ![t] = reply'[t]]
    /\ arg' = [arg EXCEPT ![t] = arg'[t]]
    /\ phase'[t] \in {"reply", "rereply"} =>
          reply'[t].by = t /\ reply'[t].to = method[t]

LEMMA OwnStepKeeps ==
    ASSUME Inductive, McpAssumptions, NEW t \in Threads, OwnStep(t)
    PROVE  Inductive'
<1>. USE McpAssumptions DEF Inductive, OwnStep
<1>1. \A u \in Threads : u # t =>
         phase'[u] = phase[u] /\ reply'[u] = reply[u] /\ arg'[u] = arg[u]
  BY DEF McpType
<1>2. McpType'
  BY DEF McpType
<1>3. Quiet'
  BY DEF Quiet, McpAssumptions
<1>4. ReaderHoldsLock'
  BY <1>1 DEF ReaderHoldsLock
<1>5. ASSUME asides = 0 PROVE OneLine'
  BY <1>1, <1>5 DEF OneLine, ReaderHoldsLock, Ident
<1>6. ASSUME asides = 0 PROVE OwnReply'
  BY <1>1, <1>6 DEF OwnReply
<1>. QED BY <1>2, <1>3, <1>4, <1>5, <1>6

(* A thread without a request starts one.                                  *)
LEMMA StartKeeps ==
    ASSUME Inductive, McpAssumptions, NEW t \in Threads, NEW m \in Methods,
           NEW a, Starts(t, m, a),
           UNCHANGED <<lock, inbox, outbox, asides, reply>>,
           \/ alive' = alive /\ session # "none" /\ session' = session
           \/ calls[Mounter] = 0,
           \/ calls' = calls
           \/ calls' = [calls EXCEPT ![t] = @ + 1]
           \/ t = Mounter /\ calls' = [calls EXCEPT ![t] = 1],
           calls[Mounter] = 0 => calls'[Mounter] # 0
    PROVE  Inductive'
<1>. USE McpAssumptions DEF Inductive
<1>1. /\ phase' = [phase EXCEPT ![t] = "send"] /\ phase[t] = "none"
      /\ method' = [method EXCEPT ![t] = m] /\ arg' = [arg EXCEPT ![t] = a]
  BY DEF Starts
<1>2. /\ phase'[t] = "send"
      /\ \A u \in Threads : u # t =>
         phase'[u] = phase[u] /\ method'[u] = method[u] /\ arg'[u] = arg[u]
  BY <1>1 DEF McpType
<1>3. McpType'
  <2>1. calls' \in [Threads -> Nat]
    <3>1. calls \in [Threads -> Nat]
      BY DEF McpType
    <3>2. \/ calls' = calls
          \/ calls' = [calls EXCEPT ![t] = @ + 1]
          \/ calls' = [calls EXCEPT ![t] = 1]
      OBVIOUS
    <3>. QED BY ONLY <3>1, <3>2
  <2>2. method' \in [Threads -> Methods] /\ phase' \in [Threads -> Phases]
    BY <1>1 DEF McpType, Phases
  <2>3. arg' = [u \in Threads |-> arg'[u]]
    BY <1>1 DEF McpType
  <2>. QED BY <2>1, <2>2, <2>3 DEF McpType
<1>4. calls'[Mounter] # 0
  <2>1. Mounter \in Threads /\ calls[Mounter] \in Nat
    BY DEF McpType, McpAssumptions
  <2>2. CASE calls[Mounter] # 0
    BY <2>1, <2>2 DEF McpType
  <2>3. CASE calls[Mounter] = 0
    BY <2>3
  <2>. QED BY <2>2, <2>3
<1>5. Quiet'
  BY <1>4 DEF Quiet
<1>6. ReaderHoldsLock'
  BY <1>1, <1>2 DEF ReaderHoldsLock
<1>7. ASSUME asides = 0 PROVE OneLine'
  <2>1. lock # t
    BY <1>1 DEF ReaderHoldsLock
  <2>2. lock = Nobody => (alive' => inbox = <<>>)
    BY <1>7 DEF OneLine, Quiet
  <2>. QED BY <1>2, <1>7, <2>1, <2>2 DEF OneLine, Ident
<1>8. ASSUME asides = 0 PROVE OwnReply'
  BY <1>2, <1>8 DEF OwnReply
<1>. QED BY <1>3, <1>5, <1>6, <1>7, <1>8

(* Over stdio: a line goes in only when there is none, and comes out for   *)
(* the thread that waits for it.                                           *)
LEMMA WriteKeeps ==
    ASSUME Inductive, McpAssumptions, NEW t \in Threads, WriteLine(t)
    PROVE  Inductive'
<1>. USE McpAssumptions DEF Inductive
<1>1. /\ UNCHANGED <<session, alive, outbox, asides, calls, method, arg>>
      /\ phase[t] = "send" /\ lock = Nobody
  BY DEF WriteLine
<1>2. CASE /\ alive /\ lock' = t /\ inbox' = Append(inbox, Ident(t))
           /\ phase' = [phase EXCEPT ![t] = "read"] /\ reply' = reply
  <2>1. /\ phase'[t] = "read"
        /\ \A u \in Threads : u # t => phase'[u] = phase[u]
    BY <1>2 DEF McpType
  <2>2. McpType'
    BY <1>1, <1>2 DEF McpType, Phases
  <2>3. Quiet'
    BY <1>1 DEF Quiet
  <2>4. ReaderHoldsLock'
    BY <1>1, <1>2, <2>1 DEF ReaderHoldsLock, McpAssumptions
  <2>5. ASSUME asides = 0 PROVE OneLine'
    <3>1. inbox = <<>> /\ outbox = <<>>
      BY <1>1, <1>2, <2>5 DEF OneLine
    <3>2. inbox' = <<Ident(t)>>
      BY <1>2, <3>1
    <3>. QED BY <1>1, <1>2, <3>1, <3>2 DEF OneLine, Ident, McpAssumptions
  <2>6. ASSUME asides = 0 PROVE OwnReply'
    BY <1>1, <1>2, <2>1, <2>6 DEF OwnReply
  <2>. QED BY <1>1, <2>2, <2>3, <2>4, <2>5, <2>6
<1>3. CASE Ends(t, "error") /\ UNCHANGED <<lock, inbox>>
  <2>1. /\ phase' = [phase EXCEPT ![t] = "none"]
        /\ reply' = [reply EXCEPT ![t] = NoAnswer]
    BY <1>3 DEF Ends
  <2>2. phase'[t] = "none" /\ arg' = [arg EXCEPT ![t] = arg'[t]]
    BY <1>1, <2>1 DEF McpType
  <2>3. reply' = [reply EXCEPT ![t] = reply'[t]]
    BY <2>1 DEF McpType
  <2>4. OwnStep(t)
    BY <1>1, <1>3, <2>1, <2>2, <2>3 DEF OwnStep, Phases
  <2>. QED BY <2>4, OwnStepKeeps
<1>. QED BY <1>2, <1>3 DEF WriteLine

LEMMA ReadKeeps ==
    ASSUME Inductive, McpAssumptions, NEW t \in Threads, ReadLine(t)
    PROVE  Inductive'
<1>. USE McpAssumptions DEF Inductive
<1>1. /\ UNCHANGED <<session, alive, inbox, asides, calls, method, arg>>
      /\ phase[t] = "read" /\ lock = t /\ lock' = Nobody
  BY DEF ReadLine, ReaderHoldsLock, Released
<1>2. /\ phase'[t] \in {"none", "reply"}
      /\ phase' = [phase EXCEPT ![t] = phase'[t]]
      /\ \A u \in Threads : u # t => phase'[u] = phase[u] /\ reply'[u] = reply[u]
  BY DEF ReadLine, Ends, McpType
<1>3. McpType'
  BY <1>1, <1>2 DEF McpType, Phases, ReadLine, Ends
<1>4. Quiet'
  BY <1>1 DEF Quiet
<1>5. ReaderHoldsLock'
  BY <1>1, <1>2 DEF ReaderHoldsLock, McpAssumptions
<1>6. CASE outbox # <<>> /\ reply' = [reply EXCEPT ![t] = Head(outbox)] /\ outbox' = Tail(outbox)
  <2>1. ASSUME asides = 0 PROVE OneLine' /\ OwnReply'
    <3>1. /\ inbox = <<>> /\ outbox = <<outbox[1]>>
          /\ outbox[1].by = t /\ outbox[1].to = method[t]
      BY <1>1, <1>6, <2>1 DEF OneLine
    <3>2. DEFINE line == outbox[1]
    <3>3. Head(<<line>>) = line /\ Tail(<<line>>) = <<>>
      OBVIOUS
    <3>4. reply'[t] = line /\ outbox' = <<>>
      BY <1>6, <3>1, <3>3 DEF McpType
    <3>5. OneLine'
      BY <1>1, <3>1, <3>4 DEF OneLine, McpAssumptions
    <3>6. OwnReply'
      BY <1>1, <1>2, <2>1, <3>1, <3>4 DEF OwnReply
    <3>. QED BY <3>5, <3>6
  <2>. QED BY <1>1, <1>3, <1>4, <1>5, <2>1
<1>7. CASE outbox = <<>> /\ ~alive /\ Ends(t, "error") /\ UNCHANGED outbox
  <2>1. phase'[t] = "none"
    BY <1>7 DEF Ends, McpType
  <2>2. ASSUME asides = 0 PROVE OneLine' /\ OwnReply'
    BY <1>1, <1>2, <1>7, <2>1, <2>2 DEF OneLine, OwnReply, McpAssumptions
  <2>. QED BY <1>1, <1>3, <1>4, <1>5, <2>2
<1>. QED BY <1>6, <1>7 DEF ReadLine

(* The server takes the line and puts its answer in its place.             *)
LEMMA ServerKeeps ==
    ASSUME Inductive, McpAssumptions, ServerAnswers \/ ServerAside \/ ServerDies
    PROVE  Inductive'
<1>. USE McpAssumptions DEF Inductive
<1>1. /\ UNCHANGED <<session, lock, method, arg, phase, reply, calls>>
      /\ asides' = asides \/ asides' = asides + 1
      /\ alive /\ (alive' => inbox' = inbox \/ inbox' = Tail(inbox))
  BY DEF ServerAnswers, ServerAside, ServerDies, request, history
<1>2. McpType' /\ Quiet' /\ ReaderHoldsLock'
  BY <1>1 DEF McpType, Quiet, ReaderHoldsLock
<1>3. ASSUME asides' = 0 PROVE OwnReply'
  BY <1>1, <1>3 DEF OwnReply, McpType
<1>4. CASE ServerAnswers
  <2>1. ASSUME asides' = 0 PROVE OneLine'
    <3>0. asides = 0
      BY <1>4, <2>1 DEF ServerAnswers
    <3>1. PICK t \in Threads : lock = t /\ inbox = <<Ident(t)>> /\ outbox = <<>>
      BY <1>4, <3>0 DEF ServerAnswers, OneLine, ReaderHoldsLock
    <3>2. DEFINE answer == Respond(t, method[t], arg[t])
    <3>3. Head(inbox) = Ident(t) /\ Tail(inbox) = <<>>
      BY <3>1
    <3>4. inbox' = <<>> /\ outbox' = <<answer>>
      BY <1>4, <3>1, <3>3 DEF ServerAnswers, Ident
    <3>5. answer.by = t /\ answer.to = method[t]
      BY DEF Respond, Answer
    <3>. QED BY <1>1, <3>1, <3>4, <3>5 DEF OneLine, McpAssumptions
  <2>. QED BY <1>2, <1>3, <2>1
<1>5. CASE ServerAside
  BY <1>1, <1>2, <1>5 DEF ServerAside, McpType
<1>6. CASE ServerDies
  <2>1. ASSUME asides' = 0 PROVE OneLine'
    BY <1>6, <2>1 DEF ServerDies, OneLine, request, Ident
  <2>. QED BY <1>2, <1>3, <2>1
<1>. QED BY <1>4, <1>5, <1>6

(* Over HTTP the answer is the one to the request that was posted; what    *)
(* the client then does with an answer needs no other.                     *)
LEMMA AnswerKeeps ==
    ASSUME Inductive, McpAssumptions, NEW t \in Threads,
           \/ Post(t) \/ Initialized(t) \/ Acknowledged(t) \/ Collected(t)
           \/ Called(t) \/ Upgrade(t) \/ StoreAuth(t) \/ PublishToken(t)
    PROVE  Inductive'
<1>. USE DEF Inductive, McpType
<1>1. /\ UNCHANGED <<lock, alive, inbox, outbox, asides, calls, method>>
      /\ phase[t] \notin {"none", "read"}
  BY DEF Post, Initialized, Acknowledged, Collected, Called, Upgrade, StoreAuth,
     PublishToken, wires, history
<1>2. arg' = [arg EXCEPT ![t] = arg'[t]]
  BY DEF Post, Initialized, Acknowledged, Collected, Called, Upgrade, StoreAuth,
     PublishToken
<1>3. reply' = [reply EXCEPT ![t] = reply'[t]]
  BY DEF Post, Initialized, Acknowledged, Collected, Called, Upgrade, StoreAuth,
     PublishToken, Ends
<1>4. phase' = [phase EXCEPT ![t] = phase'[t]] /\ phase'[t] \in Phases \ {"read"}
  BY DEF Post, Initialized, Acknowledged, Collected, Called, Upgrade, StoreAuth,
     PublishToken, Ends, Phases
<1>5. ASSUME phase'[t] \in {"reply", "rereply"}
      PROVE  reply'[t].by = t /\ reply'[t].to = method[t]
  <2>1. CASE Post(t)
    BY <1>5, <2>1 DEF Post, Ends, Respond, Answer
  <2>2. CASE ~Post(t)
    BY <1>5, <2>2 DEF Initialized, Acknowledged, Collected, Called, Upgrade,
       StoreAuth, PublishToken, Ends
  <2>. QED BY <2>1, <2>2
<1>6. OwnStep(t)
  BY <1>1, <1>2, <1>3, <1>4, <1>5 DEF OwnStep
<1>. QED BY <1>6, OwnStepKeeps

(* The session is closed, a request starts, or initialize gets no token.   *)
LEMMA CallerKeeps ==
    ASSUME Inductive, McpAssumptions, NEW t \in Threads,
           \/ Initialize(t) \/ NotAuthorized(t) \/ SendInitialized(t) \/ ListTools(t) \/ Close(t)
           \/ \E tool \in ToolSet : CallTool(t, tool)
    PROVE  Inductive'
<1>1. CASE Initialize(t)
  <2>1. calls[Mounter] = 0 /\ t = Mounter /\ calls'[Mounter] # 0
    BY <1>1 DEF Initialize, Inductive, McpType
  <2>2. Starts(t, "initialize", 0) /\ calls' = [calls EXCEPT ![t] = 1]
    BY <1>1 DEF Initialize
  <2>3. UNCHANGED <<lock, inbox, outbox, asides, reply>>
    BY <1>1 DEF Initialize
  <2>. QED BY <2>1, <2>2, <2>3, StartKeeps DEF Methods
<1>2. CASE SendInitialized(t)
  BY <1>2, StartKeeps DEF SendInitialized, Methods, wires, Inductive, Quiet
<1>3. CASE ListTools(t)
  BY <1>3, StartKeeps DEF ListTools, Methods, wires, Inductive, Quiet
<1>4. CASE \E tool \in ToolSet : CallTool(t, tool)
  <2>1. PICK tool \in ToolSet : CallTool(t, tool)
    BY <1>4
  <2>. QED BY <2>1, StartKeeps DEF CallTool, Methods, wires, Inductive, Quiet
<1>5. CASE Close(t)
  <2>1. UNCHANGED <<lock, inbox, outbox, asides, method, arg, phase, reply, calls>> /\ ~alive'
    BY <1>5 DEF Close, request, history
  <2>2. calls[Mounter] # 0
    BY <1>5 DEF Close, Inductive, Quiet
  <2>. QED BY <2>1, <2>2 DEF Inductive, McpType, Quiet, ReaderHoldsLock, OneLine,
          OwnReply, Ident
<1>6. CASE NotAuthorized(t)
  <2>1. UNCHANGED <<session, alive, lock, inbox, outbox, asides, method, arg, phase, reply>>
    BY <1>6 DEF NotAuthorized, wires, request
  <2>2. calls' = [calls EXCEPT ![t] = 1] /\ t = Mounter
    BY <1>6 DEF NotAuthorized
  <2>3. calls' \in [Threads -> Nat] /\ calls'[Mounter] # 0
    BY <2>2 DEF Inductive, McpType
  <2>. QED BY <2>1, <2>3 DEF Inductive, McpType, Quiet, ReaderHoldsLock, OneLine,
          OwnReply, Ident
<1>. QED BY <1>1, <1>2, <1>3, <1>4, <1>5, <1>6

-----------------------------------------------------------------------------
LEMMA InductiveInit == McpAssumptions /\ Init => Inductive
BY DEF McpAssumptions, Init, Inductive, McpType, Quiet, ReaderHoldsLock, OneLine,
   OwnReply, Methods, Phases

(* There is at most one line in the pipe, and it is of who holds the lock. *)
THEOREM OneLineInThePipe == Spec => []Inductive
<1>. USE McpAssumptions
<1>1. Init => Inductive
  BY InductiveInit
<1>2. Inductive /\ [Next]_vars => Inductive'
  <2>. SUFFICES ASSUME Inductive, [Next]_vars PROVE Inductive'
    OBVIOUS
  <2>1. CASE ServerAnswers \/ ServerAside \/ ServerDies
    BY <2>1, ServerKeeps
  <2>2. ASSUME NEW t \in Threads, Transact(t) PROVE Inductive'
    BY <2>2, WriteKeeps, ReadKeeps, AnswerKeeps DEF Transact
  <2>3. ASSUME NEW t \in Threads,
               \/ Initialize(t) \/ NotAuthorized(t) \/ SendInitialized(t) \/ ListTools(t) \/ Close(t)
               \/ \E tool \in ToolSet : CallTool(t, tool)
        PROVE  Inductive'
    BY <2>3, CallerKeeps
  <2>4. CASE UNCHANGED vars
    BY <2>4 DEF vars, wires, request, history, Inductive, McpType, Quiet,
       ReaderHoldsLock, OneLine, OwnReply, Ident
  <2>. QED BY <2>1, <2>2, <2>3, <2>4 DEF Next
<1>. QED BY <1>1, <1>2, PTL DEF Spec

(* The response a request gets is the response to that request.            *)
THEOREM EveryAnswerIsOwn == Spec => []OwnAnswer
<1>1. Inductive => OwnAnswer
  BY DEF Inductive, OwnReply, OwnAnswer
<1>. QED BY <1>1, OneLineInThePipe, PTL

-----------------------------------------------------------------------------
(* Over HTTP the tool of a call that is not sent yet, or is sent again, was *)
(* not run, and the tool of one that is answered was run at most once.     *)
RanOnce(t) ==
    /\ phase[t] # "read"
    /\ method[t] = "tools/call" =>
          /\ ran[t] <= 1
          /\ phase[t] \in {"send", "store", "publish", "resend"} => ran[t] = 0
          /\ phase[t] = "reply" /\ Refused(t) => ran[t] = 0

RunInv ==
    /\ ran \in [Threads -> Nat]
    /\ wire = "http" => \A t \in Threads : RanOnce(t)

(* A step of t leaves the calls of the others as they are.                 *)
LEMMA OthersRanOnce ==
    ASSUME RunInv, wire = "http", NEW t \in Threads,
           \A u \in Threads \ {t} :
               /\ ran'[u] = ran[u] /\ phase'[u] = phase[u]
               /\ method'[u] = method[u] /\ reply'[u] = reply[u]
    PROVE  \A u \in Threads \ {t} : RanOnce(u)'
BY DEF RunInv, RanOnce, Refused

(* A call that starts has not run.                                         *)
LEMMA StartRanOnce ==
    ASSUME Inductive, RunInv, NEW t \in Threads,
           \/ Initialize(t) \/ NotAuthorized(t) \/ SendInitialized(t) \/ ListTools(t)
           \/ Close(t) \/ \E tool \in ToolSet : CallTool(t, tool)
    PROVE  RunInv'
<1>1. CASE Close(t) \/ NotAuthorized(t)
  BY <1>1 DEF Close, NotAuthorized, request, history, RunInv, RanOnce, Refused
<1>2. CASE ~(Close(t) \/ NotAuthorized(t))
  <2>1. PICK m, a : Starts(t, m, a)
    BY <1>2 DEF Initialize, SendInitialized, ListTools, CallTool
  <2>2. UNCHANGED <<wire, reply>>
    BY <1>2 DEF Initialize, SendInitialized, ListTools, CallTool
  <2>3. /\ ran' = [ran EXCEPT ![t] = 0] /\ method' = [method EXCEPT ![t] = m]
        /\ phase' = [phase EXCEPT ![t] = "send"]
    BY <2>1 DEF Starts
  <2>4. ran' \in [Threads -> Nat] /\ ran'[t] = 0 /\ phase'[t] = "send"
    BY <2>3 DEF RunInv, Inductive, McpType
  <2>5. RanOnce(t)'
    BY <2>4 DEF RanOnce
  <2>6. \A u \in Threads \ {t} :
            /\ ran'[u] = ran[u] /\ phase'[u] = phase[u]
            /\ method'[u] = method[u] /\ reply'[u] = reply[u]
    BY <2>2, <2>3 DEF RunInv, Inductive, McpType
  <2>. QED BY <2>2, <2>4, <2>5, <2>6, OthersRanOnce DEF RunInv
<1>. QED BY <1>1, <1>2

(* A request runs the tool only when it is not refused.                    *)
LEMMA PostRanOnce ==
    ASSUME Inductive, RunInv, NEW t \in Threads, Post(t)
    PROVE  RunInv'
<1>. DEFINE answer == Respond(t, method[t], arg[t])
<1>1. /\ wire = "http" /\ phase[t] \in {"send", "resend"}
      /\ UNCHANGED <<wire, method>>
  BY DEF Post
<1>2. phase' = [phase EXCEPT ![t] = phase'[t]] /\ reply' = [reply EXCEPT ![t] = reply'[t]]
  BY DEF Post, Ends, Inductive, McpType
<1>3. /\ \/ ran' = ran
         \/ answer.status = "ok" /\ Runs(t)
      /\ \/ phase'[t] = "none"
         \/ /\ phase'[t] = IF phase[t] = "send" THEN "reply" ELSE "rereply"
            /\ reply'[t] = answer \/ reply'[t].status = "500"
  BY DEF Post, Ends, Answer, Inductive, McpType
<1>. HIDE DEF answer
<1>4. /\ ran' = [ran EXCEPT ![t] = ran'[t]] /\ ran' \in [Threads -> Nat]
      /\ ran'[t] = ran[t] \/ (answer.status = "ok" /\ ran'[t] = ran[t] + 1)
  BY <1>3 DEF Runs, RunInv
<1>5. RanOnce(t)'
  <2>1. SUFFICES ASSUME method[t] = "tools/call"
                 PROVE  /\ phase'[t] # "read" /\ ran'[t] <= 1
                        /\ phase'[t] \notin {"send", "store", "publish", "resend"}
                        /\ phase'[t] = "reply" /\ reply'[t].status = "401" => ran'[t] = 0
    BY <1>1, <1>3 DEF RanOnce, Refused
  <2>2. ran[t] = 0
    BY <1>1, <2>1 DEF RunInv, RanOnce
  <2>3. ran'[t] # 0 => ran'[t] = 1 /\ answer.status = "ok"
    BY <1>4, <2>2
  <2>4. reply'[t] = answer \/ reply'[t].status = "500" \/ phase'[t] = "none"
    BY <1>3
  <2>. QED BY <1>1, <1>3, <2>2, <2>3, <2>4
<1>6. \A u \in Threads \ {t} :
          /\ ran'[u] = ran[u] /\ phase'[u] = phase[u]
          /\ method'[u] = method[u] /\ reply'[u] = reply[u]
  BY <1>1, <1>2, <1>4 DEF RunInv, Inductive, McpType
<1>. QED BY <1>1, <1>4, <1>5, <1>6, OthersRanOnce DEF RunInv

(* Of the client's other steps only a refusal leads back to a request.     *)
LEMMA TransactRanOnce ==
    ASSUME Inductive, RunInv, NEW t \in Threads, Transact(t)
    PROVE  RunInv'
<1>1. CASE Post(t)
  BY <1>1, PostRanOnce
<1>2. CASE \/ WriteLine(t) \/ ReadLine(t) \/ Initialized(t) \/ Acknowledged(t)
           \/ Collected(t) \/ Called(t) \/ Upgrade(t) \/ StoreAuth(t) \/ PublishToken(t)
  <2>1. UNCHANGED <<wire, method, ran>>
    BY <1>2 DEF WriteLine, ReadLine, Initialized, Acknowledged, Collected, Called, Upgrade,
       StoreAuth, PublishToken, history
  <2>2. phase' = [phase EXCEPT ![t] = phase'[t]] /\ reply' = [reply EXCEPT ![t] = reply'[t]]
    BY <1>2 DEF WriteLine, ReadLine, Initialized, Acknowledged, Collected, Called, Upgrade,
       StoreAuth, PublishToken, Ends, Inductive, McpType
  <2>3. ASSUME wire = "http" PROVE \A u \in Threads : RanOnce(u)'
    <3>1. RanOnce(t)
      BY <2>3 DEF RunInv
    <3>2. RanOnce(t)'
      <4>1. CASE WriteLine(t) \/ ReadLine(t)
        BY <2>3, <3>1, <4>1 DEF WriteLine, ReadLine, RanOnce
      <4>2. CASE Initialized(t) \/ Acknowledged(t) \/ Collected(t)
        <5>1. method[t] # "tools/call" /\ phase'[t] # "read"
          BY <4>2 DEF Initialized, Acknowledged, Collected, Ends, Inductive, McpType
        <5>. QED BY <2>1, <5>1 DEF RanOnce
      <4>3. CASE Called(t)
        <5>1. phase'[t] = "none" /\ phase[t] \in {"reply", "rereply"}
          BY <4>3 DEF Called, Ends, Inductive, McpType
        <5>. QED BY <2>1, <3>1, <5>1 DEF RanOnce
      <4>4. CASE Upgrade(t)
        <5>1. phase'[t] \in {"store", "none"} /\ phase[t] = "reply" /\ Refused(t)
          BY <4>4 DEF Upgrade, Ends, Inductive, McpType
        <5>. QED BY <2>1, <3>1, <5>1 DEF RanOnce
      <4>5. CASE StoreAuth(t) \/ PublishToken(t)
        <5>1. phase'[t] \in {"publish", "resend"} /\ phase[t] \in {"store", "publish"}
          BY <4>5 DEF StoreAuth, PublishToken, Inductive, McpType
        <5>. QED BY <2>1, <3>1, <5>1 DEF RanOnce
      <4>. QED BY <1>2, <4>1, <4>2, <4>3, <4>4, <4>5
    <3>3. \A u \in Threads \ {t} :
              /\ ran'[u] = ran[u] /\ phase'[u] = phase[u]
              /\ method'[u] = method[u] /\ reply'[u] = reply[u]
      BY <2>1, <2>2 DEF Inductive, McpType
    <3>. QED BY <2>3, <3>2, <3>3, OthersRanOnce
  <2>. QED BY <2>1, <2>3 DEF RunInv
<1>. QED BY <1>1, <1>2 DEF Transact

(* Over HTTP the server runs the tool of a call at most once, however often *)
(* it is sent (_request's retry after a 401).                              *)
THEOREM ToolsRunAtMostOnce == Spec => []RunsAtMostOnce
<1>. USE McpAssumptions
<1>1. Init => RunInv
  BY DEF Init, RunInv, RanOnce
<1>2. Inductive /\ RunInv /\ [Next]_vars => RunInv'
  <2>. SUFFICES ASSUME Inductive, RunInv, [Next]_vars PROVE RunInv'
    OBVIOUS
  <2>1. CASE \/ ServerAnswers \/ ServerAside \/ ServerDies \/ UNCHANGED vars
    BY <2>1 DEF ServerAnswers, ServerAside, ServerDies, vars, request, history, RunInv,
       RanOnce, Refused
  <2>. QED BY <2>1, StartRanOnce, TransactRanOnce DEF Next
<1>3. RunInv => RunsAtMostOnce
  BY DEF RunInv, RanOnce, RunsAtMostOnce
<1>. QED BY <1>1, <1>2, <1>3, OneLineInThePipe, PTL DEF Spec
-----------------------------------------------------------------------------
(* A listing under way has collected the tools up to its cursor, and what  *)
(* comes back for it is the page at that cursor.                           *)
Listed(t) ==
    method[t] = "tools/list" /\ ~spoilt[t] =>
        /\ phase[t] \in {"none", "send", "read", "reply"}
        /\ phase[t] # "none" =>
              /\ outcome[t] = "none" /\ arg[t] \in 0..Len(Tools)
              /\ items[t] = SubSeq(Tools, 1, arg[t])
        /\ outcome[t] = "ok" => items[t] = Tools
        /\ phase[t] = "reply" => reply[t].page = Page(arg[t]) /\ reply[t].status = "ok"
        /\ lock = t /\ outbox # <<>> =>
              outbox[1].page = Page(arg[t]) /\ outbox[1].status = "ok"

ListType ==
    /\ spoilt \in [Threads -> BOOLEAN]
    /\ outcome = [t \in Threads |-> outcome[t]]
    /\ items = [t \in Threads |-> items[t]]

ListInv == ListType /\ (asides = 0 => \A t \in Threads : Listed(t))

(* The page at a cursor goes on where the tools before the cursor end, and *)
(* the last one ends with the last tool (_paginate_items).                 *)
LEMMA PagesJoin ==
    ASSUME McpAssumptions, NEW a \in 0..Len(Tools)
    PROVE  LET so == SubSeq(Tools, 1, a) \o Page(a).tools
           IN  \/ Page(a).next = 0 /\ so = Tools
               \/ /\ Page(a).next \in 1..Len(Tools)
                  /\ so = SubSeq(Tools, 1, Page(a).next)
<1>. DEFINE b == LastTool(a)
            part == SubSeq(Tools, a + 1, b)
            next == IF End(a) < Len(Tools) THEN End(a) ELSE 0
<1>1. Tools \in Seq(ToolSet) /\ Len(Tools) \in Nat /\ PageSize \in Nat
  BY DEF McpAssumptions
<1>2. End(a) \in Nat /\ End(a) >= a /\ (PageSize = 0 => End(a) >= Len(Tools))
  BY <1>1 DEF End
<1>3. /\ b \in a..Len(Tools)
      /\ End(a) >= Len(Tools) => b = Len(Tools) /\ next = 0
      /\ End(a) < Len(Tools) => b = End(a) /\ next = b /\ b # 0
  BY <1>1, <1>2 DEF LastTool, End
<1>4. Page(a) = [tools |-> part, next |-> next]
  BY DEF Page
<1>5. part = SubSeq(Tools, a + 1, b)
  OBVIOUS
<1>. HIDE DEF b, part, next
<1>6. Page(a).tools = part /\ Page(a).next = next
  BY <1>4
<1>7. SubSeq(Tools, 1, a) \o part = SubSeq(Tools, 1, b)
  <2>1. 1 \in 1..(Len(Tools) + 1) /\ a \in (1 - 1)..Len(Tools) /\ b \in a..Len(Tools)
    BY <1>1, <1>3
  <2>. QED BY <1>1, <1>5, <2>1, ConcatAdjacentSubSeq
<1>8. SubSeq(Tools, 1, Len(Tools)) = Tools
  BY <1>1, SubSeqFull
<1>9. CASE End(a) < Len(Tools)
  <2>1. next = b /\ b \in 1..Len(Tools)
    BY <1>1, <1>3, <1>9
  <2>. QED BY <1>6, <1>7, <2>1
<1>10. CASE ~(End(a) < Len(Tools))
  <2>1. next = 0 /\ b = Len(Tools)
    BY <1>1, <1>2, <1>3, <1>10
  <2>2. SubSeq(Tools, 1, b) = Tools
    BY ONLY <1>8, <2>1, Zenon
  <2>. QED BY ONLY <1>6, <1>7, <2>1, <2>2, Zenon
<1>. QED BY <1>9, <1>10

(* What the server answers to a listing is the page at its cursor.         *)
LEMMA RespondsPage ==
    ASSUME NEW t, NEW a
    PROVE  /\ Respond(t, "tools/list", a).page = Page(a)
           /\ Respond(t, "tools/list", a).status = "ok"
BY DEF Respond, Status, Missing

(* A step of t that does not touch the line of another.                    *)
NoOther(t) ==
    \A u \in Threads \ {t} :
        /\ spoilt[u] => spoilt'[u]
        /\ method'[u] = method[u] /\ phase'[u] = phase[u] /\ arg'[u] = arg[u]
        /\ reply'[u] = reply[u] /\ items'[u] = items[u] /\ outcome'[u] = outcome[u]
        /\ lock' = u => lock = u /\ outbox' = outbox

LEMMA OthersStayListed ==
    ASSUME ListInv, asides = 0, NEW t \in Threads, NoOther(t)
    PROVE  \A u \in Threads \ {t} : Listed(u)'
BY DEF ListInv, ListType, NoOther, Listed

(* A listing starts with nothing at the first page.                        *)
LEMMA StartStaysListed ==
    ASSUME Inductive, McpAssumptions, ListInv, NEW t \in Threads,
           \/ Initialize(t) \/ NotAuthorized(t) \/ SendInitialized(t) \/ ListTools(t) \/ Close(t)
           \/ \E tool \in ToolSet : CallTool(t, tool)
    PROVE  ListInv'
<1>1. CASE Close(t)
  BY <1>1 DEF Close, request, history, ListInv, ListType, Listed
<1>2. CASE ~(Close(t) \/ NotAuthorized(t))
  <2>1. PICK m, a : Starts(t, m, a) /\ (m = "tools/list" => a = 0)
    BY <1>2 DEF Initialize, SendInitialized, ListTools, CallTool
  <2>2. UNCHANGED <<lock, outbox, asides, reply>>
    BY <1>2 DEF Initialize, SendInitialized, ListTools, CallTool, wires
  <2>3. ListType'
    BY <2>1 DEF Starts, ListInv, ListType
  <2>4. ASSUME asides = 0 PROVE \A u \in Threads : Listed(u)'
    <3>1. NoOther(t)
      BY <2>1, <2>2 DEF NoOther, Starts, ListInv, ListType, Inductive, McpType
    <3>2. Listed(t)'
      <4>1. lock # t
        BY <2>1 DEF Starts, Inductive, ReaderHoldsLock
      <4>2. /\ method'[t] = m /\ arg'[t] = a /\ phase'[t] = "send"
            /\ items'[t] = <<>> /\ outcome'[t] = "none"
        BY <2>1 DEF Starts, ListInv, ListType, Inductive, McpType
      <4>3. SubSeq(Tools, 1, 0) = <<>> /\ 0 \in 0..Len(Tools)
        BY SubSeqEmpty DEF McpAssumptions
      <4>. QED BY <2>1, <2>2, <4>1, <4>2, <4>3 DEF Listed
    <3>. QED BY <2>4, <3>1, <3>2, OthersStayListed
  <2>. QED BY <2>2, <2>3, <2>4 DEF ListInv
<1>3. CASE NotAuthorized(t)
  <2>1. /\ UNCHANGED <<asides, lock, outbox, method, arg, phase, reply, items, spoilt>>
        /\ outcome' = [outcome EXCEPT ![t] = "error"] /\ calls[Mounter] = 0
    BY <1>3 DEF NotAuthorized, wires, request
  <2>2. phase[t] = "none" /\ outcome'[t] = "error"
    BY <2>1 DEF Inductive, Quiet, ListInv, ListType
  <2>3. \A u \in Threads : u # t => outcome'[u] = outcome[u]
    BY <2>1 DEF ListInv, ListType
  <2>. QED BY <2>1, <2>2, <2>3 DEF ListInv, ListType, Listed, Inductive, ReaderHoldsLock
<1>. QED BY <1>1, <1>2, <1>3

(* The server's answer to the line in the pipe.                            *)
LEMMA ServerStaysListed ==
    ASSUME Inductive, McpAssumptions, ListInv,
           \/ ServerAnswers \/ ServerAside \/ ServerDies \/ UNCHANGED vars
    PROVE  ListInv'
<1>1. ListType' /\ UNCHANGED <<lock, request, history>>
  BY DEF ServerAnswers, ServerAside, ServerDies, vars, wires, request, history,
     ListInv, ListType
<1>2. ASSUME asides' = 0, NEW t \in Threads PROVE Listed(t)'
  <2>1. asides = 0 /\ Listed(t)
    BY <1>2 DEF ServerAnswers, ServerAside, ServerDies, vars, wires, ListInv,
       Inductive, McpType
  <2>2. CASE outbox' = outbox
    BY <1>1, <2>1, <2>2 DEF Listed, request, history
  <2>3. CASE outbox' # outbox /\ lock # t
    BY <1>1, <2>1, <2>3 DEF Listed, request, history
  <2>4. CASE outbox' # outbox /\ lock = t
    <3>1. ServerAnswers
      BY <1>2, <2>4 DEF ServerAside, ServerDies, vars, wires, Inductive, McpType
    <3>2. inbox = <<Ident(t)>> /\ outbox = <<>>
      BY <2>1, <2>4, <3>1 DEF ServerAnswers, Inductive, OneLine
    <3>3. DEFINE answer == Respond(t, method[t], arg[t])
    <3>4. Head(inbox) = Ident(t)
      BY <3>2
    <3>5. outbox' = <<answer>>
      BY <3>1, <3>2, <3>4 DEF ServerAnswers, Ident
    <3>6. outbox'[1] = answer
      BY <3>5
    <3>7. method[t] = "tools/list" =>
             answer.page = Page(arg[t]) /\ answer.status = "ok"
      BY RespondsPage
    <3>. QED BY <1>1, <2>1, <3>6, <3>7 DEF Listed, request, history
  <2>. QED BY <2>2, <2>3, <2>4
<1>. QED BY <1>1, <1>2 DEF ListInv

(* A page is put behind those before it; the last one ends the listing.    *)
LEMMA CollectedStaysListed ==
    ASSUME Inductive, McpAssumptions, ListInv, asides = 0, NEW t \in Threads,
           Collected(t)
    PROVE  Listed(t)'
<1>. DEFINE page == reply[t].page
<1>1. /\ phase[t] = "reply" /\ method[t] = "tools/list"
      /\ items' = [items EXCEPT ![t] = @ \o page.tools]
      /\ arg' = [arg EXCEPT ![t] = page.next]
      /\ UNCHANGED <<method, spoilt>> /\ UNCHANGED wires
  BY DEF Collected
<1>2. /\ lock # t /\ lock' = lock /\ method'[t] = "tools/list"
      /\ items'[t] = items[t] \o page.tools /\ arg'[t] = page.next
  BY <1>1 DEF Inductive, ReaderHoldsLock, wires, ListInv, ListType, McpType
<1>3. CASE spoilt[t]
  BY <1>1, <1>3 DEF Listed
<1>4. CASE ~spoilt[t]
  <2>1. /\ page = Page(arg[t]) /\ arg[t] \in 0..Len(Tools)
        /\ items[t] = SubSeq(Tools, 1, arg[t]) /\ outcome[t] = "none"
    BY <1>1, <1>4 DEF ListInv, Listed
  <2>2. \/ page.next = 0 /\ items'[t] = Tools
        \/ /\ page.next \in 1..Len(Tools)
           /\ items'[t] = SubSeq(Tools, 1, page.next)
    BY <1>2, <2>1, PagesJoin
  <2>. HIDE DEF page
  <2>3. CASE page.next = 0
    <3>1. phase'[t] = "none"
      BY <2>3 DEF Collected, Ends, Inductive, McpType, page
    <3>2. items'[t] = Tools
      BY <2>2, <2>3
    <3>. QED BY <1>2, <3>1, <3>2 DEF Listed
  <2>4. CASE page.next # 0
    <3>1. phase'[t] = "send" /\ outcome'[t] = "none"
      BY <2>1, <2>4 DEF Collected, Inductive, McpType, page
    <3>2. items'[t] = SubSeq(Tools, 1, arg'[t])
      BY ONLY <1>2, <2>2, <2>4, Zenon
    <3>3. arg'[t] \in 0..Len(Tools)
      <4>1. page.next \in 1..Len(Tools) /\ arg'[t] = page.next
        BY ONLY <1>2, <2>2, <2>4, Zenon
      <4>2. Len(Tools) \in Nat
        BY DEF McpAssumptions
      <4>. QED BY ONLY <4>1, <4>2
    <3>. QED BY <1>2, <3>1, <3>2, <3>3 DEF Listed
  <2>. QED BY <2>3, <2>4
<1>. QED BY <1>3, <1>4

LEMMA TransactStaysListed ==
    ASSUME Inductive, McpAssumptions, ListInv, NEW t \in Threads, Transact(t)
    PROVE  ListInv'
<1>. USE McpAssumptions DEF Inductive, McpType, ListInv, ListType
<1>1. UNCHANGED <<asides, method>>
  BY DEF Transact, WriteLine, ReadLine, Post, Initialized, Acknowledged, Collected,
     Called, Upgrade, StoreAuth, PublishToken, wires
<1>2. /\ phase' = [phase EXCEPT ![t] = phase'[t]]
      /\ reply' = [reply EXCEPT ![t] = reply'[t]]
      /\ arg' = [arg EXCEPT ![t] = arg'[t]]
  BY DEF Transact, WriteLine, ReadLine, Post, Initialized, Acknowledged, Collected,
     Called, Upgrade, StoreAuth, PublishToken, Ends
<1>3. /\ outcome' = [outcome EXCEPT ![t] = outcome'[t]]
      /\ items' = [items EXCEPT ![t] = items'[t]]
  BY DEF Transact, WriteLine, ReadLine, Post, Initialized, Acknowledged, Collected,
     Called, Upgrade, StoreAuth, PublishToken, Ends, history
<1>4. spoilt' \in [Threads -> BOOLEAN] /\ \A u \in Threads \ {t} : spoilt[u] => spoilt'[u]
  BY DEF Transact, WriteLine, ReadLine, Post, Initialized, Acknowledged, Collected,
     Called, Upgrade, StoreAuth, PublishToken, history
<1>5. ListType'
  BY <1>3, <1>4
<1>6. ASSUME asides = 0 PROVE \A u \in Threads : Listed(u)'
  <2>1. \A u \in Threads \ {t} : lock' = u => lock = u /\ outbox' = outbox
    BY DEF Transact, WriteLine, ReadLine, Post, Initialized, Acknowledged, Collected,
       Called, Upgrade, StoreAuth, PublishToken, wires, Released, ReaderHoldsLock
  <2>2. NoOther(t)
    BY <1>1, <1>2, <1>3, <1>4, <2>1 DEF NoOther
  <2>3. Listed(t)
    BY <1>6
  <2>4. Listed(t)'
    <3>1. CASE WriteLine(t)
      <4>1. outbox = <<>> /\ outbox' = outbox
        BY <1>6, <3>1 DEF WriteLine, OneLine
      <4>2. UNCHANGED <<spoilt, arg, items>> /\ phase[t] = "send"
        BY <3>1 DEF WriteLine
      <4>3. \/ phase'[t] = "read" /\ outcome'[t] = outcome[t]
            \/ phase'[t] = "none" /\ outcome'[t] = "error"
        BY <3>1 DEF WriteLine, Ends
      <4>. QED BY <1>1, <2>3, <4>1, <4>2, <4>3 DEF Listed
    <3>2. CASE ReadLine(t)
      <4>1. UNCHANGED <<spoilt, arg, items>> /\ phase[t] = "read" /\ lock = t /\ lock' # t
        BY <3>2 DEF ReadLine, ReaderHoldsLock, Released
      <4>2. \/ /\ outbox # <<>> /\ phase'[t] = "reply" /\ outcome'[t] = outcome[t]
               /\ reply'[t] = Head(outbox)
            \/ phase'[t] = "none" /\ outcome'[t] = "error"
        BY <3>2 DEF ReadLine, Ends
      <4>3. outbox # <<>> => outbox = <<outbox[1]>>
        BY <1>6, <4>1 DEF OneLine
      <4>4. outbox # <<>> => Head(outbox) = outbox[1]
        BY <4>3
      <4>. QED BY <1>1, <2>3, <4>1, <4>2, <4>4 DEF Listed
    <3>3. CASE Post(t)
      <4>1. UNCHANGED <<arg, items>> /\ UNCHANGED <<lock, outbox>> /\ phase[t] \in {"send", "resend"}
        BY <3>3 DEF Post
      <4>2. \/ phase'[t] = "none" /\ outcome'[t] = "error" /\ spoilt' = spoilt
            \/ spoilt'[t]
            \/ /\ spoilt' = spoilt /\ outcome'[t] = outcome[t]
               /\ phase'[t] = IF phase[t] = "send" THEN "reply" ELSE "rereply"
               /\ reply'[t] = Respond(t, method[t], arg[t])
        BY <3>3 DEF Post, Ends
      <4>3. lock # t
        BY <4>1 DEF ReaderHoldsLock
      <4>. QED BY <1>1, <2>3, <4>1, <4>2, <4>3, RespondsPage DEF Listed
    <3>4. CASE Collected(t)
      BY <1>6, <3>4, CollectedStaysListed
    <3>5. CASE Initialized(t) \/ Acknowledged(t) \/ Called(t)
      BY <1>1, <3>5 DEF Initialized, Acknowledged, Called, Listed
    <3>6. CASE Upgrade(t)
      BY <1>1, <2>3, <3>6 DEF Upgrade, Refused, Listed
    <3>7. CASE StoreAuth(t) \/ PublishToken(t)
      <4>1. phase[t] \in {"store", "publish"} /\ spoilt'[t] = spoilt[t]
        BY <3>7 DEF StoreAuth, PublishToken, history
      <4>. QED BY <1>1, <2>3, <4>1 DEF Listed
    <3>. QED BY <3>1, <3>2, <3>3, <3>4, <3>5, <3>6, <3>7 DEF Transact
  <2>. QED BY <1>6, <2>2, <2>4, OthersStayListed
<1>. QED BY <1>1, <1>5, <1>6

(* A listing that ends has every tool once and in order, for every page    *)
(* size, unless the server wrote a line unasked or answered an error page  *)
(* (_collect_all, _paginate_items).                                        *)
THEOREM ListAlwaysComplete == Spec => []ListComplete
<1>. USE McpAssumptions
<1>1. Init => ListInv
  BY DEF Init, ListInv, ListType, Listed
<1>2. Inductive /\ ListInv /\ [Next]_vars => ListInv'
  <2>. SUFFICES ASSUME Inductive, ListInv, [Next]_vars PROVE ListInv'
    OBVIOUS
  <2>. QED BY ServerStaysListed, StartStaysListed, TransactStaysListed DEF Next
<1>3. ListInv => ListComplete
  BY DEF ListInv, Listed, ListComplete
<1>. QED BY <1>1, <1>2, <1>3, OneLineInThePipe, PTL DEF Spec

-----------------------------------------------------------------------------
(* Skills. The parser goes through a block line by line, and what it has   *)
(* found after n lines is what the first n lines say (Follows); a block    *)
(* that is retried is one without tabs (Reads). So a document is loaded    *)
(* when it is usable, with what it says (LoadIs). A table then keeps for a *)
(* skill the copy that no copy behind the discovery outranks (Entry), and  *)
(* what is behind it grows root by root and file by file (Behind).         *)


(* A non-empty set of numbers has a least one.                             *)
LEMMA LeastIs ==
    ASSUME NEW S \in SUBSET Nat, S # {} PROVE \E m \in S : \A n \in S : m <= n
<1> DEFINE R == OpToRel(<, Nat)
<1>1. \A m, n \in Nat : n < m => <<n, m>> \in R
  BY DEF OpToRel
<1>2. IsWellFoundedOn(R, Nat)
  BY NatLessThanWellFounded
<1> HIDE DEF R
<1>3. PICK m \in S : \A n \in S : ~ (<<n, m>> \in R)
  BY <1>2, WFMin
<1>4. \A n \in S : m \in Nat /\ n \in Nat /\ ~ (n < m)
  BY <1>1, <1>3
<1>5. \A n \in S : m <= n
  BY <1>4
<1> QED BY <1>5

(* Induction, for a set in place of a predicate.                           *)
LEMMA Counting ==
    ASSUME NEW S, 0 \in S, \A n \in Nat : n \in S => n + 1 \in S
    PROVE  \A n \in Nat : n \in S
<1> SUFFICES ASSUME Nat \ S # {} PROVE FALSE
  OBVIOUS
<1>1. PICK m \in Nat \ S : \A n \in Nat \ S : m <= n
  BY LeastIs
<1>2. m # 0 /\ m - 1 \in Nat /\ ~(m <= m - 1) /\ (m - 1) + 1 = m
  BY <1>1
<1>3. m - 1 \in S
  BY <1>1, <1>2
<1> QED BY <1>1, <1>2, <1>3

(* The parser, line by line.                                               *)
Keys  == STRING \cup {"none"}
Pairs == Keys \X (STRING \cup {"empty", "list", "map"})
Accs  == [fields : Seq(Pairs), block : Keys, nested : Seq(Lines), failed : BOOLEAN]
Parsed(b) == CHOOSE acc : acc = [n \in 0..Len(b) |-> IF n = 0 THEN Begun ELSE Line(acc[n - 1], b[n])]

LEMMA ParseBlockIs == ASSUME NEW b PROVE ParseBlock(b) = CloseBlock(Parsed(b)[Len(b)])
BY DEF ParseBlock, Parsed

(* The parser's recursive function exists: it begins with Begun, and Line  *)
(* leads from one of its values to the next.                               *)
LEMMA ParsedIs ==
    ASSUME NEW b \in Seq(Lines)
    PROVE  Parsed(b)[0] = Begun /\ \A n \in 1..Len(b) : Parsed(b)[n] = Line(Parsed(b)[n - 1], b[n])
<1> DEFINE L == Len(b)
           Goes(g, n) == g[0] = Begun /\ \A k \in 1..n : g[k] = Line(g[k - 1], b[k])
           S == {n \in Nat : \E g : Goes(g, n)}
<1>0. L \in Nat
  OBVIOUS
<1>1. 0 \in S
  <2>1. Goes([k \in {0} |-> Begun], 0)
    OBVIOUS
  <2> QED BY <2>1
<1>2. ASSUME NEW n \in Nat, n \in S PROVE n + 1 \in S
  <2>1. PICK g : Goes(g, n)
    BY <1>2
  <2> DEFINE h == [k \in 0..(n + 1) |-> IF k = n + 1 THEN Line(g[n], b[n + 1]) ELSE g[k]]
  <2>2. h[0] = Begun
    BY <2>1
  <2>3. ASSUME NEW k \in 1..(n + 1) PROVE h[k] = Line(h[k - 1], b[k])
    <3>1. CASE k = n + 1
      BY <3>1
    <3>2. CASE k # n + 1
      <4>1. k \in 1..n /\ h[k] = g[k] /\ h[k - 1] = g[k - 1]
        BY <3>2
      <4> QED BY <2>1, <4>1
    <3> QED BY <3>1, <3>2
  <2> HIDE DEF h
  <2>4. Goes(h, n + 1)
    BY <2>2, <2>3
  <2> QED BY <2>4
<1>3. \A n \in Nat : n \in S
  <2> HIDE DEF S
  <2> QED BY <1>1, <1>2, Counting
<1>4. PICK g : Goes(g, L)
  BY <1>0, <1>3
<1> DEFINE Step(acc) == [n \in 0..L |-> IF n = 0 THEN Begun ELSE Line(acc[n - 1], b[n])]
           h == [n \in 0..L |-> g[n]]
<1>5. h = Step(h)
  <2>1. \A n \in 0..L : n # 0 => n \in 1..L /\ n - 1 \in 0..L /\ h[n] = g[n] /\ h[n - 1] = g[n - 1]
    BY <1>0
  <2>2. h[0] = g[0]
    BY <1>0
  <2> QED BY <1>4, <2>1, <2>2
<1>6. Parsed(b) = CHOOSE acc : acc = Step(acc)
  BY DEF Parsed
<1> HIDE DEF Step, h, L
<1>7. Parsed(b) = Step(Parsed(b))
  BY <1>5, <1>6
<1>8. \A n \in 0..L : Parsed(b)[n] = IF n = 0 THEN Begun ELSE Line(Parsed(b)[n - 1], b[n])
  BY <1>7 DEF Step
<1>9. \A n \in 1..L : n \in 0..L /\ n # 0
  BY <1>0
<1>10. 0 \in 0..L
  BY <1>0
<1> QED BY <1>8, <1>9, <1>10 DEF L

(* Max of numbers below a bound.                                           *)
LEMMA MaxIs ==
    ASSUME NEW N \in Nat, NEW S \in SUBSET (1..N), S # {}
    PROVE  Max(S) \in S /\ \A i \in S : i <= Max(S)
<1> DEFINE T == {k \in Nat : N - k \in S}
<1>1. T # {}
  <2>1. PICK i \in S : TRUE
    OBVIOUS
  <2>2. N - i \in Nat /\ N - (N - i) = i
    OBVIOUS
  <2> QED BY <2>1, <2>2
<1>2. PICK m \in T : \A k \in T : m <= k
  <2>1. T \in SUBSET Nat
    OBVIOUS
  <2> HIDE DEF T
  <2> QED BY <1>1, <2>1, LeastIs
<1>3. N - m \in S /\ m \in Nat
  BY <1>2
<1>4. ASSUME NEW i \in S PROVE i <= N - m
  <2>1. N - i \in Nat /\ N - (N - i) = i /\ i \in Nat
    OBVIOUS
  <2>2. N - i \in T
    BY <2>1
  <2>3. m <= N - i
    BY <1>2, <2>2
  <2> QED BY <1>3, <2>1, <2>3
<1>5. \A i \in S : N - m >= i
  BY <1>3, <1>4
<1>6. \E x \in S : \A y \in S : x >= y
  BY <1>3, <1>5
<1>7. Max(S) \in S /\ \A i \in S : Max(S) >= i
  BY <1>6 DEF Max
<1> QED BY <1>7

LEMMA AppendIs ==
    ASSUME NEW T, NEW q \in Seq(T), NEW x \in T
    PROVE  /\ Append(q, x) \in Seq(T) /\ Len(q) \in Nat
           /\ DOMAIN q = 1..Len(q) /\ DOMAIN Append(q, x) = 1..(Len(q) + 1)
           /\ Append(q, x)[Len(q) + 1] = x /\ \A i \in 1..Len(q) : Append(q, x)[i] = q[i]
OBVIOUS

(* A field that is added decides what its key says.                        *)
LEMMA FieldAppend ==
    ASSUME NEW T, NEW fs \in Seq(T), NEW x \in T, NEW key
    PROVE  Field(Append(fs, x), key) = IF x[1] = key THEN x[2] ELSE Field(fs, key)
<1> DEFINE new == Append(fs, x)
           L   == Len(fs)
           at  == {i \in DOMAIN new : new[i][1] = key}
           was == {i \in DOMAIN fs : fs[i][1] = key}
<1>1. /\ L \in Nat /\ DOMAIN fs = 1..L /\ DOMAIN new = 1..(L + 1)
      /\ new[L + 1] = x /\ \A i \in 1..L : new[i] = fs[i]
  BY AppendIs
<1>5. /\ Field(new, key) = IF at = {} THEN "empty" ELSE new[Max(at)][2]
      /\ Field(fs, key) = IF was = {} THEN "empty" ELSE fs[Max(was)][2]
  BY DEF Field
<1> HIDE DEF new, L
<1>2. at \in SUBSET (1..(L + 1)) /\ was \in SUBSET (1..L) /\ L + 1 \in Nat
  BY <1>1
<1>6. \A i \in 1..L : i \in 1..(L + 1) /\ (i \in at <=> i \in was)
  BY <1>1
<1>7. L + 1 \in at <=> x[1] = key
  BY <1>1
<1> HIDE DEF at, was
<1>3. CASE x[1] = key
  <2>2. Max(at) \in at /\ \A i \in at : i <= Max(at)
    BY <1>2, <1>3, <1>7, MaxIs
  <2>3. Max(at) = L + 1
    <3> DEFINE m == Max(at)
    <3>1. m \in 1..(L + 1) /\ L + 1 <= m
      BY <1>2, <1>3, <1>7, <2>2
    <3> HIDE DEF m
    <3>2. m = L + 1
      BY <1>1, <3>1
    <3> QED BY <3>2 DEF m
  <2> QED BY <1>1, <1>3, <1>5, <1>7, <2>3 DEF new
<1>4. CASE x[1] # key
  <2>1. at = was
    <3>1. \A i \in 1..(L + 1) : i # L + 1 => i \in 1..L
      BY <1>1
    <3> QED BY <1>2, <1>4, <1>6, <1>7, <3>1
  <2>4. was # {} => Max(was) \in 1..L
    BY <1>1, <1>2, MaxIs
  <2>5. Field(new, key) = Field(fs, key)
    BY <1>1, <1>5, <2>1, <2>4
  <2> QED BY <1>4, <2>5 DEF new
<1> QED BY <1>3, <1>4

(* Closing adds a field for the open block, with a value that is no text.  *)
LEMMA CloseIs ==
    ASSUME NEW acc \in Accs
    PROVE  /\ CloseBlock(acc) \in Accs
           /\ CloseBlock(acc).block = "none" /\ CloseBlock(acc).failed = acc.failed
           /\ acc.block = "none" => CloseBlock(acc).fields = acc.fields
           /\ acc.block # "none" =>
                \E x \in Pairs : /\ CloseBlock(acc).fields = Append(acc.fields, x)
                                 /\ x[1] = acc.block /\ x[2] \in {"empty", "list", "map"}
<1> DEFINE v == IF acc.nested = <<>> THEN "empty" ELSE Nested(acc.nested)
           x == <<acc.block, v>>
<1>1. v \in {"empty", "list", "map"}
  BY DEF Nested
<1>2. /\ acc.fields \in Seq(Pairs) /\ acc.block \in Keys
      /\ acc.nested \in Seq(Lines) /\ acc.failed \in BOOLEAN
      /\ acc = [fields |-> acc.fields, block |-> acc.block, nested |-> acc.nested, failed |-> acc.failed]
  BY DEF Accs
<1>3. CASE acc.block = "none"
  BY <1>3 DEF CloseBlock
<1>4. CASE acc.block # "none"
  <2>1. CloseBlock(acc) = [acc EXCEPT !.fields = Append(@, x), !.block = "none", !.nested = <<>>]
    BY <1>4 DEF CloseBlock
  <2>3. x \in Pairs /\ x[1] = acc.block /\ x[2] = v
    <3> HIDE DEF v
    <3>1. v \in STRING \cup {"empty", "list", "map"}
      BY <1>1
    <3> QED BY <1>2, <3>1 DEF Pairs
  <2> HIDE DEF x, v
  <2> DEFINE fs == Append(acc.fields, x)
  <2>4. fs \in Seq(Pairs) /\ <<>> \in Seq(Lines)
    BY <1>2, <2>3, AppendIs
  <2> HIDE DEF fs
  <2>2. CloseBlock(acc) = [fields |-> fs, block |-> "none", nested |-> <<>>, failed |-> acc.failed]
    BY <1>2, <2>1 DEF fs
  <2>7. "none" \in Keys
    BY DEF Keys
  <2>5. CloseBlock(acc) \in Accs
    BY <1>2, <2>2, <2>4, <2>7 DEF Accs
  <2>6. CloseBlock(acc).block = "none" /\ CloseBlock(acc).failed = acc.failed
        /\ CloseBlock(acc).fields = Append(acc.fields, x)
    BY <2>2 DEF fs
  <2> QED BY <1>1, <1>4, <2>3, <2>5, <2>6
<1> QED BY <1>3, <1>4

(* What a table of the parser says of a key, once its open block is closed. *)
Told(acc, key, value) == Field(CloseBlock(acc).fields, key) = value
Values == {"text", "true"}

(* An open block hides what was said of its key before.                    *)
LEMMA ToldIs ==
    ASSUME NEW acc \in Accs, NEW key, key # "none", NEW value \in Values
    PROVE  Told(acc, key, value) <=> acc.block # key /\ Field(acc.fields, key) = value
<1>1. CASE acc.block = "none"
  BY <1>1, CloseIs DEF Told
<1>2. CASE acc.block # "none"
  <2>1. PICK x \in Pairs : /\ CloseBlock(acc).fields = Append(acc.fields, x)
                           /\ x[1] = acc.block /\ x[2] \in {"empty", "list", "map"}
    BY <1>2, CloseIs
  <2>2. acc.fields \in Seq(Pairs)
    BY DEF Accs
  <2>3. Field(CloseBlock(acc).fields, key) = IF x[1] = key THEN x[2] ELSE Field(acc.fields, key)
    BY <2>1, <2>2, FieldAppend
  <2> QED BY <2>1, <2>3 DEF Told, Values
<1> QED BY <1>1, <1>2

(* Two changes of a table leave the rest of it alone.                      *)
LEMMA SetBlock ==
    ASSUME NEW acc \in Accs, NEW k \in Keys, NEW new, new = [acc EXCEPT !.block = k]
    PROVE  new \in Accs /\ new.block = k /\ new.fields = acc.fields /\ new.failed = acc.failed
<1>1. acc = [fields |-> acc.fields, block |-> acc.block, nested |-> acc.nested, failed |-> acc.failed]
  BY DEF Accs
<1>2. new = [fields |-> acc.fields, block |-> k, nested |-> acc.nested, failed |-> acc.failed]
  BY <1>1
<1> QED BY <1>2 DEF Accs

LEMMA SetFields ==
    ASSUME NEW acc \in Accs, NEW fs \in Seq(Pairs), NEW new, new = [acc EXCEPT !.fields = fs]
    PROVE  new \in Accs /\ new.block = acc.block /\ new.fields = fs /\ new.failed = acc.failed
<1>1. acc = [fields |-> acc.fields, block |-> acc.block, nested |-> acc.nested, failed |-> acc.failed]
  BY DEF Accs
<1>2. new = [fields |-> fs, block |-> acc.block, nested |-> acc.nested, failed |-> acc.failed]
  BY <1>1
<1> QED BY <1>2 DEF Accs

(* What one line does: it may fail, open a block or close one, and at the  *)
(* margin it decides what its key says.                                    *)
LEMMA LineIs ==
    ASSUME NEW acc \in Accs, NEW line \in Lines, ~acc.failed
    PROVE  LET next == Line(acc, line) IN
           /\ next \in Accs
           /\ next.failed <=> line.indent # "none" /\ ~(line.indent = "space" /\ acc.block # "none")
           /\ next.block # "none" <=> IF line.indent = "none" THEN Opens(line) ELSE acc.block # "none"
           /\ ~next.failed => \A key, value : key # "none" /\ value \in Values =>
                (Told(next, key, value) <=>
                    IF line.indent = "none" /\ line.key = key THEN line.value = value
                    ELSE Told(acc, key, value))
<1> DEFINE next == Line(acc, line)
           flat == CloseBlock(acc)
<1>1. /\ acc.fields \in Seq(Pairs) /\ acc.block \in Keys
      /\ acc.nested \in Seq(Lines) /\ acc.failed \in BOOLEAN
      /\ acc = [fields |-> acc.fields, block |-> acc.block, nested |-> acc.nested, failed |-> acc.failed]
  BY DEF Accs
<1>2. /\ flat \in Accs /\ flat.block = "none" /\ ~flat.failed
  BY CloseIs
<1>3. /\ flat.fields \in Seq(Pairs) /\ flat.nested \in Seq(Lines)
      /\ flat = [fields |-> flat.fields, block |-> "none", nested |-> flat.nested, failed |-> FALSE]
  BY <1>2 DEF Accs
<1>4. line.indent \in {"none", "space", "tab"} /\ line.key \in Keys /\ line.value \in STRING
  BY DEF Lines, Keys
<1>5. CASE line.indent = "space" /\ acc.block # "none"
  <2> DEFINE q == Append(acc.nested, line)
  <2>1. next = [acc EXCEPT !.nested = q]
    BY <1>5 DEF Line
  <2>2. q \in Seq(Lines)
    BY <1>1, AppendIs
  <2> HIDE DEF next, q
  <2>3. next = [fields |-> acc.fields, block |-> acc.block, nested |-> q, failed |-> acc.failed]
    BY <1>1, <2>1
  <2>4. next \in Accs
    BY <1>1, <2>2, <2>3 DEF Accs
  <2>5. next.failed = acc.failed /\ next.block = acc.block /\ next.fields = acc.fields
    BY <2>3
  <2>6. ASSUME NEW key, NEW value, key # "none", value \in Values
        PROVE  Told(next, key, value) <=> Told(acc, key, value)
    BY <2>4, <2>5, <2>6, ToldIs
  <2> QED BY <1>5, <2>4, <2>5, <2>6 DEF next
<1>6. CASE line.indent # "none" /\ ~(line.indent = "space" /\ acc.block # "none")
  <2>1. next = [acc EXCEPT !.failed = TRUE]
    BY <1>6 DEF Line
  <2> HIDE DEF next
  <2>3. next = [fields |-> acc.fields, block |-> acc.block, nested |-> acc.nested, failed |-> TRUE]
    BY <1>1, <2>1
  <2>4. next \in Accs
    BY <1>1, <2>3 DEF Accs
  <2>5. next.failed /\ next.block = acc.block
    BY <2>3
  <2> QED BY <1>6, <2>4, <2>5 DEF next
<1>7. CASE line.indent = "none" /\ Opens(line)
  <2>1. next = [flat EXCEPT !.block = line.key]
    BY <1>7 DEF Line
  <2> HIDE DEF next, flat
  <2>3. next \in Accs /\ next.block = line.key /\ next.fields = flat.fields /\ next.failed = flat.failed
    BY <1>2, <1>4, <2>1, SetBlock
  <2>4. next \in Accs
    BY <2>3
  <2>5. ~next.failed /\ next.block = line.key /\ next.fields = flat.fields
    BY <1>2, <2>3
  <2>7. line.key # "none" /\ line.value = "empty"
    BY <1>7 DEF Opens, Colon
  <2>6. ASSUME NEW key, NEW value, key # "none", value \in Values
        PROVE  Told(next, key, value) <=>
                 IF line.key = key THEN line.value = value ELSE Told(acc, key, value)
    <3>1. Told(next, key, value) <=> line.key # key /\ flat.fields = flat.fields /\ Field(flat.fields, key) = value
      BY <2>4, <2>5, <2>6, ToldIs
    <3>2. Told(acc, key, value) <=> Field(flat.fields, key) = value
      BY DEF Told, flat
    <3>3. value # "empty"
      BY <2>6 DEF Values
    <3> QED BY <2>7, <3>1, <3>2, <3>3
  <2> QED BY <1>7, <2>4, <2>5, <2>6, <2>7 DEF next
<1>8. CASE line.indent = "none" /\ Colon(line) /\ ~Opens(line)
  <2> DEFINE x == <<line.key, line.value>>
             fs == Append(flat.fields, x)
  <2>1. next = [flat EXCEPT !.fields = fs]
    BY <1>8 DEF Line
  <2>0. x \in Pairs /\ x[1] = line.key /\ x[2] = line.value
    BY <1>4 DEF Pairs
  <2> HIDE DEF x
  <2>2. fs \in Seq(Pairs)
    BY <1>3, <2>0, AppendIs
  <2>9. \A key : Field(fs, key) = IF x[1] = key THEN x[2] ELSE Field(flat.fields, key)
    BY <1>3, <2>0, FieldAppend
  <2> HIDE DEF next, flat, fs
  <2>3. next \in Accs /\ next.block = flat.block /\ next.fields = fs /\ next.failed = flat.failed
    BY <1>2, <2>1, <2>2, SetFields
  <2>4. next \in Accs
    BY <2>3
  <2>5. ~next.failed /\ next.block = "none" /\ next.fields = fs
    BY <1>2, <2>3
  <2>6. ASSUME NEW key, NEW value, key # "none", value \in Values
        PROVE  Told(next, key, value) <=>
                 IF line.key = key THEN line.value = value ELSE Told(acc, key, value)
    <3>1. Told(next, key, value) <=> Field(fs, key) = value
      BY <2>4, <2>5, <2>6, ToldIs
    <3>2. Told(acc, key, value) <=> Field(flat.fields, key) = value
      BY DEF Told, flat
    <3> QED BY <2>0, <2>9, <3>1, <3>2
  <2> QED BY <1>8, <2>4, <2>5, <2>6 DEF next
<1>9. CASE line.indent = "none" /\ ~Colon(line)
  <2>1. next = flat
    BY <1>9 DEF Line, Opens
  <2>2. line.key = "none"
    BY <1>9 DEF Colon
  <2>6. ASSUME NEW key, NEW value, key # "none", value \in Values
        PROVE  Told(next, key, value) <=> Told(acc, key, value)
    <3>1. Told(flat, key, value) <=> Field(flat.fields, key) = value
      <4> HIDE DEF flat
      <4> QED BY <1>2, <2>6, ToldIs
    <3> QED BY <2>1, <3>1 DEF Told
  <2>7. ~Opens(line)
    BY <1>9 DEF Opens
  <2> HIDE DEF flat, next
  <2> QED BY <1>2, <1>9, <2>1, <2>2, <2>6, <2>7 DEF next
<1> HIDE DEF flat
<1> QED BY <1>4, <1>5, <1>6, <1>7, <1>8, <1>9 DEF Opens

(* Reading n lines of a block without the parser.                          *)
Margin(b, i) == b[i].indent = "none"
Said(b, n, key, value) ==
    \E i \in 1..n : /\ Margin(b, i) /\ b[i].key = key /\ b[i].value = value
                    /\ \A j \in (i + 1)..n : Margin(b, j) => b[j].key # key
OpenAt(b, n) ==
    \E j \in 1..n : Margin(b, j) /\ Opens(b[j]) /\ \A k \in (j + 1)..n : b[k].indent = "space"
Lost(b, n) == \E i \in 1..n : ~Margin(b, i) /\ ~(b[i].indent = "space" /\ OpenAt(b, i - 1))

(* How one more line changes each of the three.                            *)
LEMMA SaidNext ==
    ASSUME NEW b, NEW n \in Nat \ {0}, NEW key, NEW value
    PROVE  Said(b, n, key, value) <=>
             IF Margin(b, n) /\ b[n].key = key THEN b[n].value = value
             ELSE Said(b, n - 1, key, value)
<1>1. \A i : i \in 1..n <=> i \in 1..(n - 1) \/ i = n
  OBVIOUS
<1>2. \A i \in 1..(n - 1) : n \in (i + 1)..n /\ \A j : j \in (i + 1)..n <=> j \in (i + 1)..(n - 1) \/ j = n
  OBVIOUS
<1>3. (n + 1)..n = {}
  OBVIOUS
<1>4. CASE Margin(b, n) /\ b[n].key = key
  <2>1. ASSUME NEW i \in 1..(n - 1), \A j \in (i + 1)..n : Margin(b, j) => b[j].key # key PROVE FALSE
    BY <1>2, <1>4, <2>1
  <2> QED BY <1>1, <1>3, <1>4, <2>1 DEF Said
<1>5. CASE ~(Margin(b, n) /\ b[n].key = key)
  <2>1. \A i \in 1..(n - 1) : (\A j \in (i + 1)..n : Margin(b, j) => b[j].key # key)
                              <=> (\A j \in (i + 1)..(n - 1) : Margin(b, j) => b[j].key # key)
    BY <1>2, <1>5
  <2> QED BY <1>1, <1>5, <2>1 DEF Said
<1> QED BY <1>4, <1>5

LEMMA OpenNext ==
    ASSUME NEW b, NEW n \in Nat \ {0}
    PROVE  OpenAt(b, n) <=> IF Margin(b, n) THEN Opens(b[n])
                            ELSE b[n].indent = "space" /\ OpenAt(b, n - 1)
<1>1. \A i : i \in 1..n <=> i \in 1..(n - 1) \/ i = n
  OBVIOUS
<1>2. \A i \in 1..(n - 1) : n \in (i + 1)..n /\ \A j : j \in (i + 1)..n <=> j \in (i + 1)..(n - 1) \/ j = n
  OBVIOUS
<1>3. (n + 1)..n = {}
  OBVIOUS
<1>4. \A i \in 1..(n - 1) : (\A j \in (i + 1)..n : b[j].indent = "space")
                            <=> b[n].indent = "space" /\ \A j \in (i + 1)..(n - 1) : b[j].indent = "space"
  BY <1>2
<1>5. OpenAt(b, n) <=> \/ \E i \in 1..(n - 1) : /\ Margin(b, i) /\ Opens(b[i])
                                                /\ \A j \in (i + 1)..n : b[j].indent = "space"
                       \/ Margin(b, n) /\ Opens(b[n])
  BY <1>1, <1>3 DEF OpenAt
<1> QED BY <1>4, <1>5 DEF OpenAt, Margin

LEMMA LostNext ==
    ASSUME NEW b, NEW n \in Nat \ {0}
    PROVE  Lost(b, n) <=> Lost(b, n - 1) \/ (~Margin(b, n) /\ ~(b[n].indent = "space" /\ OpenAt(b, n - 1)))
<1>1. \A i : i \in 1..n <=> i \in 1..(n - 1) \/ i = n
  OBVIOUS
<1> QED BY <1>1 DEF Lost

Follows(b, acc, n) ==
    /\ acc \in Accs
    /\ acc.failed <=> Lost(b, n)
    /\ ~acc.failed =>
         /\ acc.block # "none" <=> OpenAt(b, n)
         /\ \A key, value : key # "none" /\ value \in Values =>
              (Told(acc, key, value) <=> Said(b, n, key, value))

LEMMA BegunFollows == ASSUME NEW b PROVE Follows(b, Begun, 0)
<1>1. <<>> \in Seq(Pairs) /\ <<>> \in Seq(Lines) /\ "none" \in Keys
  BY DEF Keys
<1>2. Begun \in Accs /\ ~Begun.failed /\ Begun.block = "none" /\ Begun.fields = <<>>
  BY <1>1 DEF Begun, Accs
<1>3. 1..0 = {}
  OBVIOUS
<1>4. ASSUME NEW key, NEW value, key # "none", value \in Values PROVE ~Told(Begun, key, value)
  <2>1. Field(<<>>, key) = "empty"
    BY DEF Field
  <2> QED BY <1>2, <1>4, <2>1, ToldIs DEF Values
<1> QED BY <1>2, <1>3, <1>4 DEF Follows, Lost, OpenAt, Said

(* The parser follows the reading, line by line.                           *)
LEMMA LineFollows ==
    ASSUME NEW b \in Seq(Lines), NEW n \in 1..Len(b), NEW acc, Follows(b, acc, n - 1)
    PROVE  Follows(b, Line(acc, b[n]), n)
<1>1. n \in Nat \ {0} /\ b[n] \in Lines
  OBVIOUS
<1> DEFINE next == Line(acc, b[n])
<1>2. CASE acc.failed
  <2>1. next = acc
    BY <1>2 DEF Line
  <2> HIDE DEF next
  <2>2. Lost(b, n)
    BY <1>1, <1>2, LostNext DEF Follows
  <2> QED BY <1>2, <2>1, <2>2 DEF Follows, next
<1>3. CASE ~acc.failed
  <2>1. /\ next \in Accs
        /\ next.failed <=> b[n].indent # "none" /\ ~(b[n].indent = "space" /\ acc.block # "none")
        /\ next.block # "none" <=> IF b[n].indent = "none" THEN Opens(b[n]) ELSE acc.block # "none"
        /\ ~next.failed => \A key, value : key # "none" /\ value \in Values =>
              (Told(next, key, value) <=>
                  IF b[n].indent = "none" /\ b[n].key = key THEN b[n].value = value
                  ELSE Told(acc, key, value))
    BY <1>1, <1>3, LineIs DEF Follows
  <2> HIDE DEF next
  <2>2. /\ acc.block # "none" <=> OpenAt(b, n - 1)
        /\ ~Lost(b, n - 1)
        /\ \A key, value : key # "none" /\ value \in Values =>
              (Told(acc, key, value) <=> Said(b, n - 1, key, value))
    BY <1>3 DEF Follows
  <2>3. next.failed <=> Lost(b, n)
    BY <1>1, <2>1, <2>2, LostNext DEF Margin
  <2>4. ~next.failed => (next.block # "none" <=> OpenAt(b, n))
    BY <1>1, <2>1, <2>2, OpenNext DEF Margin
  <2>5. ASSUME ~next.failed, NEW key, NEW value, key # "none", value \in Values
        PROVE  Told(next, key, value) <=> Said(b, n, key, value)
    <3>1. Said(b, n, key, value) <=>
             IF Margin(b, n) /\ b[n].key = key THEN b[n].value = value
             ELSE Said(b, n - 1, key, value)
      BY <1>1, SaidNext
    <3>2. Told(acc, key, value) <=> Said(b, n - 1, key, value)
      BY <2>2, <2>5
    <3>3. Told(next, key, value) <=>
                  IF b[n].indent = "none" /\ b[n].key = key THEN b[n].value = value
                  ELSE Told(acc, key, value)
      BY <2>1, <2>5
    <3> QED BY <3>1, <3>2, <3>3 DEF Margin
  <2> QED BY <2>1, <2>3, <2>4, <2>5 DEF Follows, next
<1> QED BY <1>2, <1>3

(* By induction on the lines: a block fails when a line is lost, and says  *)
(* what its lines say.                                                     *)
LEMMA BlockIs ==
    ASSUME NEW b \in Seq(Lines)
    PROVE  /\ ParseBlock(b).failed <=> Lost(b, Len(b))
           /\ ~ParseBlock(b).failed => \A key, value : key # "none" /\ value \in Values =>
                (Field(ParseBlock(b).fields, key) = value <=> Said(b, Len(b), key, value))
<1> DEFINE S == {n \in Nat : n <= Len(b) => Follows(b, Parsed(b)[n], n)}
<1>0. Len(b) \in Nat
  OBVIOUS
<1>1. 0 \in S
  BY ParsedIs, BegunFollows
<1>2. ASSUME NEW n \in Nat, n \in S PROVE n + 1 \in S
  <2> SUFFICES ASSUME n + 1 <= Len(b) PROVE Follows(b, Parsed(b)[n + 1], n + 1)
    OBVIOUS
  <2>1. n + 1 \in 1..Len(b) /\ (n + 1) - 1 = n /\ n <= Len(b)
    BY <1>0
  <2>2. Follows(b, Parsed(b)[n], n)
    BY <1>2, <2>1
  <2>3. Parsed(b)[n + 1] = Line(Parsed(b)[n], b[n + 1])
    BY <2>1, ParsedIs
  <2> QED BY <2>1, <2>2, <2>3, LineFollows
<1>3. \A n \in Nat : n \in S
  <2> HIDE DEF S
  <2> QED BY <1>1, <1>2, Counting
<1>4. Follows(b, Parsed(b)[Len(b)], Len(b))
  BY <1>0, <1>3
<1> DEFINE acc == Parsed(b)[Len(b)]
<1>5. ParseBlock(b) = CloseBlock(acc)
  BY ParseBlockIs
<1> HIDE DEF acc
<1>6. Follows(b, acc, Len(b))
  BY <1>4 DEF acc
<1>7. ParseBlock(b).failed = acc.failed
  BY <1>5, <1>6, CloseIs DEF Follows
<1> QED BY <1>5, <1>6, <1>7 DEF Follows, Told

(* Both readings of a block are readings of a block without tabs, its own  *)
(* or the normalized one.                                                  *)
Reads(b, c, retry) ==
    /\ c \in Seq(Lines) /\ Len(c) = Len(b)
    /\ \A i \in DOMAIN b :
         /\ c[i].key = b[i].key /\ c[i].value = b[i].value
         /\ Margin(c, i) <=> AtMargin(b, i, retry)
         /\ c[i].indent = "space" <=> ~AtMargin(b, i, retry) /\ (retry \/ b[i].indent = "space")

LEMMA ReadsPlain == ASSUME NEW b \in Seq(Lines) PROVE Reads(b, b, FALSE)
BY DEF Reads, Margin, AtMargin

LEMMA SetIndent ==
    ASSUME NEW line \in Lines, NEW to \in {"none", "space", "tab"}, NEW new, new = [line EXCEPT !.indent = to]
    PROVE  new \in Lines /\ new.indent = to /\ new.key = line.key /\ new.value = line.value
<1>1. line = [indent |-> line.indent, key |-> line.key, value |-> line.value, item |-> line.item]
  BY DEF Lines
<1>2. new = [indent |-> to, key |-> line.key, value |-> line.value, item |-> line.item]
  BY <1>1
<1> QED BY <1>2 DEF Lines

(* Normalize gives the second reading (_parse_skill_document).             *)
LEMMA ReadsRetried == ASSUME NEW b \in Seq(Lines) PROVE Reads(b, Normalize(b), TRUE)
<1> DEFINE c == Normalize(b)
           opened(i) == i > 1 /\ Opens(b[i - 1]) /\ ~b[i - 1].item
           moved(i) == b[i].indent # "none" /\ Colon(b[i]) /\ ~b[i].item /\ ~opened(i)
           L == Len(b)
<1>1. L \in Nat /\ DOMAIN b = 1..L /\ \A i \in 1..L : b[i] \in Lines /\ b[i].indent \in {"none", "space", "tab"}
  <2>1. L \in Nat /\ DOMAIN b = 1..L /\ \A i \in 1..L : b[i] \in Lines
    OBVIOUS
  <2>2. \A line \in Lines : line.indent \in {"none", "space", "tab"}
    BY DEF Lines
  <2> QED BY <2>1, <2>2
<1>2. c = [i \in 1..L |-> IF moved(i) THEN [b[i] EXCEPT !.indent = "none"]
                          ELSE [b[i] EXCEPT !.indent = IF @ = "tab" THEN "space" ELSE @]]
  BY <1>1 DEF Normalize
<1> HIDE DEF c
<1>3. ASSUME NEW i \in 1..L
      PROVE  /\ c[i] \in Lines /\ c[i].key = b[i].key /\ c[i].value = b[i].value
             /\ c[i].indent = IF moved(i) THEN "none" ELSE IF b[i].indent = "tab" THEN "space" ELSE b[i].indent
  <2> DEFINE to == IF moved(i) THEN "none" ELSE IF b[i].indent = "tab" THEN "space" ELSE b[i].indent
  <2>1. to \in {"none", "space", "tab"}
    BY <1>1
  <2>2. c[i] = [b[i] EXCEPT !.indent = to]
    <3> HIDE DEF moved
    <3>1. c[i] = IF moved(i) THEN [b[i] EXCEPT !.indent = "none"]
                 ELSE [b[i] EXCEPT !.indent = IF @ = "tab" THEN "space" ELSE @]
      BY <1>2
    <3> QED BY <3>1
  <2> HIDE DEF to
  <2>3. c[i] \in Lines /\ c[i].indent = to /\ c[i].key = b[i].key /\ c[i].value = b[i].value
    BY <1>1, <2>1, <2>2, SetIndent
  <2> QED BY <2>3 DEF to
<1>4. c \in Seq(Lines) /\ Len(c) = L
  <2>1. c = [i \in 1..L |-> c[i]]
    BY <1>2
  <2>2. \A i \in 1..L : c[i] \in Lines
    BY <1>3
  <2> QED BY <1>1, <2>1, <2>2
<1>5. \A i \in 1..L : AtMargin(b, i, TRUE) <=> b[i].indent = "none" \/ (Colon(b[i]) /\ ~b[i].item /\ ~opened(i))
  BY DEF AtMargin
<1> HIDE DEF opened
<1>6. ASSUME NEW i \in 1..L
      PROVE  /\ Margin(c, i) <=> AtMargin(b, i, TRUE)
             /\ c[i].indent = "space" <=> ~AtMargin(b, i, TRUE)
  BY <1>1, <1>3, <1>5 DEF Margin
<1> QED BY <1>1, <1>3, <1>4, <1>6 DEF Reads, c

(* Lines below an opening one belong to it, in both readings.              *)
LEMMA ReadsOpen ==
    ASSUME NEW b \in Seq(Lines), NEW c, NEW retry \in BOOLEAN, Reads(b, c, retry), NEW i \in DOMAIN b
    PROVE  c[i].indent = "space" /\ OpenAt(c, i - 1) <=> Belongs(b, i, retry)
<1>1. DOMAIN b = 1..Len(b) /\ Len(b) \in Nat
  OBVIOUS
<1>2. \A j \in 1..(i - 1) : /\ j \in DOMAIN b /\ i \in (j + 1)..i
                            /\ \A k : k \in (j + 1)..i <=> k \in (j + 1)..(i - 1) \/ k = i
                            /\ \A k \in (j + 1)..i : k \in DOMAIN b
  BY <1>1
<1>3. \A j \in DOMAIN b : Opens(c[j]) <=> Opens(b[j])
  BY DEF Reads, Opens, Colon
<1> DEFINE Up(j) == \A k \in (j + 1)..i : ~AtMargin(b, k, retry) /\ (retry \/ b[k].indent = "space")
<1>4. \A k \in DOMAIN b : c[k].indent = "space" <=> ~AtMargin(b, k, retry) /\ (retry \/ b[k].indent = "space")
  BY DEF Reads
<1>5. \A j \in 1..(i - 1) : Up(j) <=> c[i].indent = "space" /\ \A k \in (j + 1)..(i - 1) : c[k].indent = "space"
  <2> SUFFICES ASSUME NEW j \in 1..(i - 1)
               PROVE  Up(j) <=> c[i].indent = "space" /\ \A k \in (j + 1)..(i - 1) : c[k].indent = "space"
    OBVIOUS
  <2>1. Up(j) <=> \A k \in (j + 1)..i : c[k].indent = "space"
    BY <1>2, <1>4
  <2> HIDE DEF Up
  <2> QED BY <1>2, <2>1
<1>6. \A j \in 1..(i - 1) : Margin(c, j) <=> AtMargin(b, j, retry)
  BY <1>2 DEF Reads
<1>7. Belongs(b, i, retry) <=> \E j \in 1..(i - 1) : AtMargin(b, j, retry) /\ Opens(b[j]) /\ Up(j)
  BY DEF Belongs
<1> HIDE DEF Up
<1> QED BY <1>2, <1>3, <1>5, <1>6, <1>7 DEF OpenAt

LEMMA ReadsLost ==
    ASSUME NEW b \in Seq(Lines), NEW c, NEW retry \in BOOLEAN, Reads(b, c, retry)
    PROVE  Lost(c, Len(c)) <=> ~Readable(b, retry)
<1>1. DOMAIN b = 1..Len(b) /\ Len(c) = Len(b)
  BY DEF Reads
<1>2. \A i \in DOMAIN b : /\ Margin(c, i) <=> AtMargin(b, i, retry)
                          /\ c[i].indent = "space" /\ OpenAt(c, i - 1) <=> Belongs(b, i, retry)
  BY ReadsOpen DEF Reads
<1> QED BY <1>1, <1>2 DEF Lost, Readable

LEMMA ReadsSaid ==
    ASSUME NEW b \in Seq(Lines), NEW c, Reads(b, c, ~Readable(b, FALSE)), NEW key, NEW value
    PROVE  Said(c, Len(c), key, value) <=> Says(b, key, value)
<1> DEFINE retry == ~Readable(b, FALSE)
<1>1. DOMAIN b = 1..Len(b) /\ Len(c) = Len(b) /\ Len(b) \in Nat
  BY DEF Reads
<1>2. \A i \in DOMAIN b : /\ Margin(c, i) <=> AtMargin(b, i, retry)
                          /\ c[i].key = b[i].key /\ c[i].value = b[i].value
  BY DEF Reads
<1>3. \A i \in 1..Len(b) : \A j \in (i + 1)..Len(b) : j \in DOMAIN b
  BY <1>1
<1>4. Says(b, key, value) <=>
        \E i \in DOMAIN b :
          /\ AtMargin(b, i, retry) /\ b[i].key = key /\ b[i].value = value
          /\ \A j \in (i + 1)..Len(b) : AtMargin(b, j, retry) => b[j].key # key
  BY DEF Says
<1> HIDE DEF retry
<1>5. \A i \in DOMAIN b : (\A j \in (i + 1)..Len(c) : Margin(c, j) => c[j].key # key)
                           <=> (\A j \in (i + 1)..Len(b) : AtMargin(b, j, retry) => b[j].key # key)
  BY <1>1, <1>2, <1>3
<1>6. Said(c, Len(c), key, value) <=>
        \E i \in DOMAIN b :
          /\ Margin(c, i) /\ c[i].key = key /\ c[i].value = value
          /\ \A j \in (i + 1)..Len(c) : Margin(c, j) => c[j].key # key
  BY <1>1 DEF Said
<1> HIDE DEF Margin, AtMargin
<1> QED BY <1>2, <1>4, <1>5, <1>6

(* What the parser makes of a block is what the block says.                *)
LEMMA DocumentIs ==
    ASSUME NEW doc, doc.front = "closed", doc.block \in Seq(Lines)
    PROVE  LET parsed == ParseDocument(doc) IN
           /\ parsed.text = doc.text
           /\ parsed.failed <=> ~Readable(doc.block, FALSE) /\ ~Readable(doc.block, TRUE)
           /\ ~parsed.failed => \A key, value : key # "none" /\ value \in Values =>
                (Field(parsed.fields, key) = value <=> Says(doc.block, key, value))
<1> DEFINE b == doc.block
           retry == ~Readable(b, FALSE)
           c == IF retry THEN Normalize(b) ELSE b
           p == ParseBlock(c)
<1>1. ParseBlock(b).failed <=> retry
  BY ReadsPlain, ReadsLost, BlockIs
<1>2. /\ ParseDocument(doc).text = doc.text /\ ParseDocument(doc).failed = p.failed
      /\ ParseDocument(doc).fields = p.fields
  BY <1>1 DEF ParseDocument
<1>3. Reads(b, c, retry)
  BY ReadsPlain, ReadsRetried
<1>4. c \in Seq(Lines) /\ retry \in BOOLEAN
  BY <1>3 DEF Reads
<1>5. \A key, value : Said(c, Len(c), key, value) <=> Says(b, key, value)
  <2> HIDE DEF c
  <2> QED BY <1>3, ReadsSaid
<1>6. Lost(c, Len(c)) <=> ~Readable(b, retry)
  <2> HIDE DEF c, retry
  <2> QED BY <1>3, <1>4, ReadsLost
<1>7. /\ p.failed <=> Lost(c, Len(c))
      /\ ~p.failed => \A key, value : key # "none" /\ value \in Values =>
                (Field(p.fields, key) = value <=> Said(c, Len(c), key, value))
  <2> HIDE DEF c
  <2> QED BY <1>4, BlockIs
<1>8. Readable(b, retry) <=> Readable(b, FALSE) \/ Readable(b, TRUE)
  BY DEF retry
<1> HIDE DEF p, c
<1> QED BY <1>2, <1>5, <1>6, <1>7, <1>8

IsEntry(c) ==
    c = [place |-> c.place, doc |-> c.doc, notes |-> c.notes, invocable |-> c.invocable]

(* A document is loaded when it is usable, with what it says.              *)
LEMMA LoadIs ==
    ASSUME SkillsAssumption, NEW p \in Places, NEW doc \in Docs
    PROVE  LET new == LoadFromRef(p, doc) IN
           /\ new = None <=> ~Usable(doc)
           /\ new # None =>
                /\ IsEntry(new) /\ new.place = p /\ new.doc = doc /\ new.notes = {}
                /\ new.invocable <=> /\ ~DocSays(doc, "disable-model-invocation", "true")
                                     /\ RootOf[p] \notin Untrusted
<1>1. /\ doc.front \in {"none", "unclosed", "closed"} /\ doc.text \in BOOLEAN
      /\ doc.block \in Seq(Lines) /\ doc # Absent
  BY DEF SkillsAssumption
<1> DEFINE m == ParseDocument(doc)
           new == [place |-> p, doc |-> doc, notes |-> {},
                   invocable |-> /\ Field(m.fields, "disable-model-invocation") # "true"
                                 /\ RootOf[p] \notin Untrusted]
<1>2. LoadFromRef(p, doc) = IF m.failed \/ ~Describes(m) THEN None ELSE new
  BY DEF LoadFromRef
<1>3. new # None
  <2>1. DOMAIN None = {"place"} /\ "doc" \in DOMAIN new
    BY DEF None
  <2> HIDE DEF new
  <2> QED BY <2>1
<1>4. /\ (m.failed \/ ~Describes(m)) <=> ~Usable(doc)
      /\ ~m.failed => (Field(m.fields, "disable-model-invocation") = "true"
                       <=> DocSays(doc, "disable-model-invocation", "true"))
  <2>1. CASE doc.front = "closed"
    <3>1. /\ m.text = doc.text
          /\ m.failed <=> ~Readable(doc.block, FALSE) /\ ~Readable(doc.block, TRUE)
          /\ ~m.failed => \A key, value : key # "none" /\ value \in Values =>
                (Field(m.fields, key) = value <=> Says(doc.block, key, value))
      BY <1>1, <2>1, DocumentIs
    <3> HIDE DEF m
    <3>2. ~m.failed => /\ Field(m.fields, "description") = "text" <=> DocSays(doc, "description", "text")
                       /\ Field(m.fields, "disable-model-invocation") = "true"
                          <=> DocSays(doc, "disable-model-invocation", "true")
      BY <2>1, <3>1 DEF DocSays, Values
    <3> QED BY <1>1, <2>1, <3>1, <3>2 DEF Usable, Describes
  <2>2. CASE doc.front # "closed"
    <3>1. ~m.failed /\ m.fields = <<>> /\ (m.text <=> doc.text \/ doc.front = "unclosed")
      BY <1>1, <2>2 DEF ParseDocument
    <3>2. \A key : Field(<<>>, key) = "empty"
      BY DEF Field
    <3> HIDE DEF m
    <3> QED BY <1>1, <2>2, <3>1, <3>2 DEF Usable, Describes, DocSays
  <2> QED BY <2>1, <2>2
<1>5. /\ IsEntry(new) /\ new.place = p /\ new.doc = doc /\ new.notes = {}
      /\ new.invocable <=> /\ Field(m.fields, "disable-model-invocation") # "true"
                           /\ RootOf[p] \notin Untrusted
  BY DEF IsEntry
<1> HIDE DEF m, new
<1> QED BY <1>2, <1>3, <1>4, <1>5 DEF m

-----------------------------------------------------------------------------
(* What an entry c of a table says of skill s when the places P are behind *)
(* the discovery and those in d have changed since it began.               *)
Entry(c, s, P, d, f) ==
    /\ c = None => \A p \in P : IdOf[p] = s /\ p \notin d => ~Usable(f[p])
    /\ c # None =>
         /\ IsEntry(c)
         /\ c.place \in P /\ IdOf[c.place] = s /\ Usable(c.doc)
         /\ c.place \notin d => c.doc = f[c.place]
         /\ c.invocable <=> /\ ~DocSays(c.doc, "disable-model-invocation", "true")
                            /\ RootOf[c.place] \notin Untrusted
         /\ \A p \in P : IdOf[p] = s /\ p \notin d /\ Usable(f[p])
                         => ~Before(p, c.place) /\ (c.notes = {} => p = c.place)
         /\ \A p \in c.notes : /\ p \in P /\ IdOf[p] = s /\ p # c.place
                               /\ p \notin d => Usable(f[p])

(* An entry begins with nothing behind it, and stays true when a place     *)
(* changes and when places are passed that hold no usable copy.            *)
LEMMA EntryNone == ASSUME NEW s, NEW d, NEW f PROVE Entry(None, s, {}, d, f)
BY DEF Entry

LEMMA EntryEdited ==
    ASSUME NEW c, NEW s, NEW P, NEW d, NEW f, NEW g, NEW p, Entry(c, s, P, d, f),
           \A q \in P : q # p => g[q] = f[q]
    PROVE  Entry(c, s, P, d \cup {p}, g)
<1>1. CASE c = None
  BY <1>1 DEF Entry
<1>2. CASE c # None
  BY <1>2 DEF Entry
<1> QED BY <1>1, <1>2

LEMMA EntryGrows ==
    ASSUME NEW c, NEW s, NEW P, NEW Q, NEW d, NEW f, Entry(c, s, P, d, f),
           P \subseteq Q, \A q \in Q : q \in P \/ q \in d \/ ~Usable(f[q])
    PROVE  Entry(c, s, Q, d, f)
<1>1. CASE c = None
  BY <1>1 DEF Entry
<1>2. CASE c # None
  BY <1>2 DEF Entry
<1> QED BY <1>1, <1>2

LEMMA RankIs == ASSUME SkillsAssumption, NEW p \in Places PROVE Rank(p) \in Nat
<1>1. DOMAIN Precedence = {"project", "managed", "user", "bundled", "plugin", "mcp"}
  BY DEF Precedence
<1>2. \A x \in DOMAIN Precedence : Precedence[x] \in Nat
  <2>1. /\ Precedence["project"] = 0 /\ Precedence["managed"] = 1 /\ Precedence["user"] = 2
        /\ Precedence["bundled"] = 3 /\ Precedence["plugin"] = 4 /\ Precedence["mcp"] = 5
    BY DEF Precedence
  <2> QED BY <1>1, <2>1
<1> QED BY <1>2 DEF Rank

(* Precedence, and the path within one, order the places strictly.         *)
LEMMA BeforeIs ==
    ASSUME SkillsAssumption
    PROVE  /\ \A p, q : Shadows(p, q) <=> Before(p, q)
           /\ \A p, q, r \in Places : Before(p, q) /\ Before(q, r) => Before(p, r)
           /\ \A p, q \in Places : Before(p, q) => ~Before(q, p)
           /\ \A p \in Places : ~Before(p, p)
<1>1. \A p \in Places : Rank(p) \in Nat /\ PathOrder[p] \in Nat
  BY RankIs DEF SkillsAssumption
<1>2. \A p, q : Shadows(p, q) <=> Before(p, q)
  BY DEF Shadows, Before
<1>3. ASSUME NEW p \in Places, NEW q \in Places, NEW r \in Places, Before(p, q), Before(q, r)
      PROVE  Before(p, r)
  BY <1>1, <1>3 DEF Before
<1>4. ASSUME NEW p \in Places, NEW q \in Places, Before(p, q) PROVE ~Before(q, p)
  BY <1>1, <1>4 DEF Before
<1> QED BY <1>2, <1>3, <1>4

(* A table is a function on the skill ids.                                 *)
Table(tab) == tab = [s \in Ids |-> tab[s]]

LEMMA NothingIs == Table(Nothing) /\ \A s \in Ids : Nothing[s] = None
BY DEF Table, Nothing

LEMMA MadeEntry ==
    ASSUME NEW place, NEW doc, NEW notes, NEW invocable, NEW c,
           c = [place |-> place, doc |-> doc, notes |-> notes, invocable |-> invocable]
    PROVE  /\ IsEntry(c) /\ c # None
           /\ c.place = place /\ c.doc = doc /\ c.invocable = invocable /\ c.notes = notes
<1>1. DOMAIN None = {"place"} /\ "doc" \in DOMAIN c
  BY DEF None
<1> QED BY <1>1 DEF IsEntry

(* Merging a copy from a new place keeps every entry true: the winner      *)
(* outranks whatever the loser did, and notes it.                          *)
LEMMA EntryMerged ==
    ASSUME SkillsAssumption, NEW P \in SUBSET Places, NEW d, NEW f, NEW p \in Places, p \notin P,
           f[p] \in Docs, NEW tab, Table(tab), \A s \in Ids : Entry(tab[s], s, P, d, f),
           NEW next, next = IF LoadFromRef(p, f[p]) = None THEN tab ELSE Merge(tab, LoadFromRef(p, f[p]))
    PROVE  Table(next) /\ \A s \in Ids : Entry(next[s], s, P \cup {p}, d, f)
<1> DEFINE new == LoadFromRef(p, f[p])
           x   == IdOf[p]
<1>1. /\ new = None <=> ~Usable(f[p])
      /\ new # None => /\ IsEntry(new) /\ new.place = p /\ new.doc = f[p] /\ new.notes = {}
                       /\ new.invocable <=> /\ ~DocSays(f[p], "disable-model-invocation", "true")
                                            /\ RootOf[p] \notin Untrusted
  BY LoadIs
<1>2. x \in Ids
  BY DEF SkillsAssumption
<1> HIDE DEF new
<1>3. CASE new = None
  <2>1. next = tab
    BY <1>3 DEF new
  <2>2. ~Usable(f[p])
    BY <1>1, <1>3
  <2>3. ASSUME NEW s \in Ids PROVE Entry(tab[s], s, P \cup {p}, d, f)
    BY <2>2, EntryGrows
  <2> QED BY <2>1, <2>3
<1>4. CASE new # None
  <2>1. next = Merge(tab, new)
    BY <1>4 DEF new
  <2> DEFINE old == tab[x]
             c == IF old = None THEN new
                  ELSE IF Shadows(p, old.place) THEN [new EXCEPT !.notes = @ \cup {old.place}]
                  ELSE [old EXCEPT !.notes = @ \cup {p}]
  <2>2. next = [tab EXCEPT ![x] = c]
    BY <1>1, <1>4, <2>1 DEF Merge
  <2> HIDE DEF c
  <2>3. Table(next) /\ \A s \in Ids : next[s] = IF s = x THEN c ELSE tab[s]
    BY <1>2, <2>2 DEF Table
  <2>4. ASSUME NEW s \in Ids, s # x PROVE Entry(tab[s], s, P \cup {p}, d, f)
    <3>1. Entry(tab[s], s, P, d, f) /\ IdOf[p] # s
      BY <2>4
    <3>2. CASE tab[s] = None
      BY <3>1, <3>2 DEF Entry
    <3>3. CASE tab[s] # None
      BY <3>1, <3>3 DEF Entry
    <3> QED BY <3>2, <3>3
  <2>5. Entry(old, x, P, d, f)
    BY <1>2
  <2>6. Usable(f[p])
    BY <1>1, <1>4
  <2> HIDE DEF old
  <2>7. Entry(c, x, P \cup {p}, d, f)
    <3>1. CASE old = None
      <4>1. c = new
        BY <3>1 DEF c
      <4>2. \A q \in P \cup {p} : IdOf[q] = x /\ q \notin d /\ Usable(f[q]) => q = p
        BY <2>5, <3>1 DEF Entry
      <4>3. ~Before(p, p)
        BY BeforeIs
      <4> QED BY <1>1, <1>4, <2>6, <4>1, <4>2, <4>3 DEF Entry
    <3>2. CASE old # None /\ Shadows(p, old.place)
      <4>1. c = [new EXCEPT !.notes = @ \cup {old.place}]
        BY <3>2 DEF c
      <4>8. c = [new EXCEPT !.notes = new.notes \cup {old.place}]
        BY <4>1
      <4>2. /\ IsEntry(c) /\ c # None /\ c.place = p /\ c.doc = f[p] /\ c.invocable = new.invocable
            /\ c.notes = {old.place}
        <5>1. IsEntry(new) /\ new.place = p /\ new.doc = f[p] /\ new.notes = {}
          BY <1>1, <1>4
        <5>2. /\ IsEntry(c) /\ c # None /\ c.place = new.place /\ c.doc = new.doc
              /\ c.invocable = new.invocable /\ c.notes = new.notes \cup {old.place}
          <6>1. c = [place |-> new.place, doc |-> new.doc, notes |-> new.notes \cup {old.place},
                     invocable |-> new.invocable]
            BY <4>8, <5>1 DEF IsEntry
          <6> QED BY <6>1, MadeEntry
        <5> QED BY <5>1, <5>2
      <4>3. /\ old.place \in P /\ IdOf[old.place] = x /\ Usable(old.doc)
            /\ old.place \notin d => old.doc = f[old.place]
            /\ \A q \in P : IdOf[q] = x /\ q \notin d /\ Usable(f[q]) => ~Before(q, old.place)
        BY <2>5, <3>2 DEF Entry
      <4>4. Before(p, old.place) /\ ~Before(p, p)
        BY <3>2, BeforeIs
      <4>5. ASSUME NEW q \in P, IdOf[q] = x /\ q \notin d /\ Usable(f[q]) PROVE ~Before(q, p)
        <5>1. q \in Places /\ old.place \in Places
          BY <4>3
        <5> QED BY <4>3, <4>4, <4>5, <5>1, BeforeIs
      <4>6. \A q \in P \cup {p} : IdOf[q] = x /\ q \notin d /\ Usable(f[q]) => ~Before(q, p)
        BY <4>4, <4>5
      <4>7. c.notes # {} /\ \A q \in c.notes : q \in P \cup {p} /\ IdOf[q] = x /\ q # p /\ (q \notin d => Usable(f[q]))
        BY <4>2, <4>3
      <4> QED BY <1>1, <1>4, <2>6, <4>2, <4>6, <4>7 DEF Entry
    <3>3. CASE old # None /\ ~Shadows(p, old.place)
      <4>1. c = [old EXCEPT !.notes = @ \cup {p}]
        BY <3>3 DEF c
      <4>8. c = [old EXCEPT !.notes = old.notes \cup {p}]
        BY <4>1
      <4>3. /\ IsEntry(old) /\ old.place \in P /\ IdOf[old.place] = x /\ Usable(old.doc)
            /\ old.place \notin d => old.doc = f[old.place]
            /\ old.invocable <=> /\ ~DocSays(old.doc, "disable-model-invocation", "true")
                                 /\ RootOf[old.place] \notin Untrusted
            /\ \A q \in P : IdOf[q] = x /\ q \notin d /\ Usable(f[q]) => ~Before(q, old.place)
            /\ \A q \in old.notes : q \in P /\ IdOf[q] = x /\ q # old.place /\ (q \notin d => Usable(f[q]))
        BY <2>5, <3>3 DEF Entry
      <4>2. /\ IsEntry(c) /\ c # None /\ c.place = old.place /\ c.doc = old.doc /\ c.invocable = old.invocable
            /\ c.notes = old.notes \cup {p}
        <5>1. IsEntry(old)
          BY <4>3
        <5>2. c = [place |-> old.place, doc |-> old.doc, notes |-> old.notes \cup {p},
                   invocable |-> old.invocable]
          BY <4>8, <5>1 DEF IsEntry
        <5> QED BY <5>2, MadeEntry
      <4>4. ~Before(p, old.place) /\ p # old.place
        BY <3>3, <4>3, BeforeIs
      <4>6. \A q \in P \cup {p} : IdOf[q] = x /\ q \notin d /\ Usable(f[q]) => ~Before(q, c.place)
        BY <4>2, <4>3, <4>4
      <4>7. c.notes # {} /\ \A q \in c.notes :
              q \in P \cup {p} /\ IdOf[q] = x /\ q # c.place /\ (q \notin d => Usable(f[q]))
        BY <2>6, <4>2, <4>3, <4>4
      <4> QED BY <4>2, <4>3, <4>6, <4>7 DEF Entry
    <3> QED BY <3>1, <3>2, <3>3
  <2> QED BY <2>3, <2>4, <2>7
<1> QED BY <1>3, <1>4

-----------------------------------------------------------------------------
(* The places that a discovery at l, in root r, with the files q of it yet *)
(* to read, has behind it.                                                 *)
Behind(l, r, q) ==
    {p \in Places : RootOf[p] < r \/ (RootOf[p] = r /\ l = "read" /\ p \notin q)}

Honest(l, r, q, tab, d, f) ==
    /\ Table(tab)
    /\ l \in {"scan", "read"} =>
         /\ r \in 1..(Len(RootScopes) + 1)
         /\ l = "read" => r \in DOMAIN RootScopes /\ \A p \in q : RootOf[p] = r
         /\ \A s \in Ids : Entry(tab[s], s, Behind(l, r, q), d, f)

Domains == /\ DOMAIN pc = SkillThreads /\ DOMAIN root = SkillThreads /\ DOMAIN todo = SkillThreads
           /\ DOMAIN found = SkillThreads /\ DOMAIN dirty = SkillThreads
HonestAt(t) == Honest(pc[t], root[t], todo[t], found[t], dirty[t], file)
HonestCache == calm => \A s \in Ids : Entry(cache[s], s, Places, {}, file)

SkillsInv ==
    /\ file \in [Places -> Docs \cup {Absent}] /\ Domains
    /\ \A t \in SkillThreads : HonestAt(t)
    /\ HonestCache

LEMMA Roots ==
    ASSUME SkillsAssumption
    PROVE  /\ Len(RootScopes) \in Nat /\ DOMAIN RootScopes = 1..Len(RootScopes)
           /\ \A p \in Places : RootOf[p] \in 1..Len(RootScopes)
<1>1. RootScopes \in Seq(STRING) /\ RootOf \in [Places -> DOMAIN RootScopes]
  BY DEF SkillsAssumption
<1> QED BY <1>1

Others(t) ==
    \A u \in SkillThreads \ {t} :
       /\ pc'[u] = pc[u] /\ root'[u] = root[u] /\ todo'[u] = todo[u]
       /\ found'[u] = found[u] /\ dirty'[u] = dirty[u]

(* One thread moves and the files stay: its own part is to be shown.       *)
LEMMA OneMoves ==
    ASSUME SkillsInv, NEW t \in SkillThreads, Others(t), Domains', file' = file,
           Honest(pc'[t], root'[t], todo'[t], found'[t], dirty'[t], file), HonestCache'
    PROVE  SkillsInv'
<1>1. ASSUME NEW u \in SkillThreads PROVE HonestAt(u)'
  <2>1. CASE u = t
    BY <2>1 DEF HonestAt
  <2>2. CASE u # t
    <3>1. HonestAt(u)
      BY DEF SkillsInv
    <3>2. /\ pc'[u] = pc[u] /\ root'[u] = root[u] /\ todo'[u] = todo[u]
          /\ found'[u] = found[u] /\ dirty'[u] = dirty[u]
      BY <2>2 DEF Others
    <3> QED BY <3>1, <3>2 DEF HonestAt
  <2> QED BY <2>1, <2>2
<1> QED BY <1>1 DEF SkillsInv

LEMMA QuietCache == ASSUME SkillsInv, UNCHANGED <<file, cache, calm>> PROVE HonestCache'
BY DEF SkillsInv, HonestCache

(* A thread that is done with its discovery, or begins one.                *)
LEMMA Rests ==
    ASSUME NEW l, l \notin {"scan", "read"}, NEW r, NEW q, NEW tab, Table(tab), NEW d, NEW f
    PROVE  Honest(l, r, q, tab, d, f)
BY DEF Honest

LEMMA Begins ==
    ASSUME SkillsAssumption, NEW q, NEW f PROVE Honest("scan", 1, q, Nothing, {}, f)
<1>1. Behind("scan", 1, q) = {}
  BY Roots DEF Behind
<1>2. ASSUME NEW s \in Ids PROVE Entry(Nothing[s], s, Behind("scan", 1, q), {}, f)
  <2>1. Entry(None, s, {}, {}, f)
    BY EntryNone
  <2> QED BY <1>1, <2>1, NothingIs
<1>3. 1 \in 1..(Len(RootScopes) + 1)
  BY Roots
<1> QED BY <1>2, <1>3, NothingIs DEF Honest

(* A discovery that raises or is done leaves nothing behind.               *)
LEMMA Left ==
    ASSUME SkillsAssumption, SkillsInv, NEW t \in SkillThreads, Go(t, "idle"), Reset(t),
           UNCHANGED <<file, cache, calm>>
    PROVE  SkillsInv'
<1>1. /\ pc'[t] = "idle" /\ found'[t] = Nothing /\ Others(t) /\ Domains'
  BY DEF Go, Reset, Others, SkillsInv, Domains
<1>2. Honest(pc'[t], root'[t], todo'[t], found'[t], dirty'[t], file)
  <2>1. "idle" \notin {"scan", "read"}
    OBVIOUS
  <2> QED BY <1>1, <2>1, Rests, NothingIs
<1> QED BY <1>1, <1>2, QuietCache, OneMoves

LEMMA DiscoverKeeps ==
    ASSUME SkillsAssumption, SkillsInv, NEW t \in SkillThreads, Discover(t), UNCHANGED <<file, cache, calm>>
    PROVE  SkillsInv'
<1>1. /\ pc'[t] = "scan" /\ root'[t] = 1 /\ found'[t] = Nothing /\ dirty'[t] = {} /\ Others(t) /\ Domains'
  BY DEF Discover, Go, Others, SkillsInv, Domains
<1>2. Honest(pc'[t], root'[t], todo'[t], found'[t], dirty'[t], file)
  BY <1>1, Begins
<1> QED BY <1>1, <1>2, QuietCache, OneMoves

(* It goes on to a place where nothing is said of its table.               *)
LEMMA GoesKeeps ==
    ASSUME SkillsAssumption, SkillsInv, NEW t \in SkillThreads, NEW l, l \notin {"scan", "read"}, Go(t, l),
           UNCHANGED <<file, cache, calm, root, todo, found, dirty>>
    PROVE  SkillsInv'
<1>1. pc'[t] = l /\ found'[t] = found[t] /\ Others(t) /\ Domains'
  BY DEF Go, Others, SkillsInv, Domains
<1>2. Table(found[t])
  BY DEF SkillsInv, HonestAt, Honest
<1>3. Honest(pc'[t], root'[t], todo'[t], found'[t], dirty'[t], file)
  BY <1>1, <1>2, Rests
<1> QED BY <1>1, <1>3, QuietCache, OneMoves

(* An edit makes the place dirty for every discovery under way.            *)
LEMMA EditKeeps ==
    ASSUME SkillsAssumption, SkillsInv, NEW p \in Places, NEW doc \in Docs \cup {Absent}, Edit(p, doc)
    PROVE  SkillsInv'
<1>1. /\ file' = [file EXCEPT ![p] = doc] /\ ~calm'
      /\ dirty' = [t \in SkillThreads |-> IF pc[t] \in {"scan", "read"} THEN dirty[t] \cup {p} ELSE dirty[t]]
      /\ UNCHANGED <<pc, root, todo, found>>
  BY DEF Edit, locals
<1>2. file' \in [Places -> Docs \cup {Absent}] /\ \A q \in Places : q # p => file'[q] = file[q]
  BY <1>1 DEF SkillsInv
<1>3. ASSUME NEW t \in SkillThreads PROVE HonestAt(t)'
  <2>1. HonestAt(t)
    BY DEF SkillsInv
  <2>2. CASE pc[t] \in {"scan", "read"}
    <3>1. dirty'[t] = dirty[t] \cup {p}
      BY <1>1, <2>2
    <3> DEFINE P == Behind(pc[t], root[t], todo[t])
    <3>2. \A q \in P : q # p => file'[q] = file[q]
      BY <1>2 DEF Behind
    <3>3. \A s \in Ids : Entry(found[t][s], s, P, dirty[t], file)
      BY <2>1, <2>2 DEF HonestAt, Honest
    <3> HIDE DEF P
    <3>4. ASSUME NEW s \in Ids PROVE Entry(found[t][s], s, P, dirty[t] \cup {p}, file')
      <4>1. Entry(found[t][s], s, P, dirty[t], file)
        BY <3>3
      <4> QED BY <3>2, <4>1, EntryEdited
    <3>5. Honest(pc[t], root[t], todo[t], found[t], dirty[t] \cup {p}, file')
      BY <2>1, <2>2, <3>4 DEF HonestAt, Honest, P
    <3> QED BY <1>1, <3>1, <3>5 DEF HonestAt
  <2>3. CASE pc[t] \notin {"scan", "read"}
    <3>1. Honest(pc[t], root[t], todo[t], found[t], dirty'[t], file')
      BY <2>1, <2>3 DEF HonestAt, Honest
    <3> QED BY <1>1, <3>1 DEF HonestAt
  <2> QED BY <2>2, <2>3
<1>4. Domains' /\ HonestCache'
  BY <1>1 DEF SkillsInv, Domains, HonestCache
<1> QED BY <1>2, <1>3, <1>4 DEF SkillsInv

(* What a scan does not list holds no document.                            *)
LEMMA ScanKeeps ==
    ASSUME SkillsAssumption, SkillsInv, NEW t \in SkillThreads, ScanRoot(t)
    PROVE  SkillsInv'
<1> DEFINE q == {p \in Places : RootOf[p] = root[t] /\ file[p] # Absent}
           P == Behind("scan", root[t], todo[t])
           Q == Behind("read", root[t], q)
<1>1. /\ pc[t] = "scan" /\ root[t] \in DOMAIN RootScopes
      /\ pc'[t] = "read" /\ root'[t] = root[t] /\ todo'[t] = q /\ found'[t] = found[t] /\ dirty'[t] = dirty[t]
      /\ Others(t) /\ Domains' /\ UNCHANGED <<file, cache, calm>>
  BY DEF ScanRoot, Go, Others, shared, SkillsInv, Domains
<1>2. /\ Table(found[t]) /\ root[t] \in 1..(Len(RootScopes) + 1)
      /\ \A s \in Ids : Entry(found[t][s], s, P, dirty[t], file)
  BY <1>1 DEF SkillsInv, HonestAt, Honest
<1>3. P \subseteq Q /\ \A p \in Q : p \in P \/ ~Usable(file[p])
  BY DEF Behind, Usable
<1>4. \A p \in q : RootOf[p] = root[t]
  OBVIOUS
<1> HIDE DEF P, Q, q
<1>5. \A s \in Ids : Entry(found[t][s], s, Q, dirty[t], file)
  BY <1>2, <1>3, EntryGrows
<1>6. Honest("read", root[t], q, found[t], dirty[t], file)
  BY <1>1, <1>2, <1>4, <1>5 DEF Honest, Q
<1> QED BY <1>1, <1>6, QuietCache, OneMoves

(* A file that is read was not behind the discovery before.                *)
LEMMA ReadKeepsTable ==
    ASSUME SkillsAssumption, SkillsInv, NEW t \in SkillThreads, NEW p \in Places, Read(t, p)
    PROVE  SkillsInv'
<1>1. pc[t] = "read" /\ p \in todo[t] /\ UNCHANGED <<file, cache, calm>>
  BY DEF Read, shared
<1>2. CASE file[p] = Absent
  BY <1>1, <1>2, Left DEF Read
<1>3. CASE file[p] # Absent
  <2> DEFINE new == LoadFromRef(p, file[p])
             tab == IF new = None THEN found[t] ELSE Merge(found[t], new)
             P == Behind("read", root[t], todo[t])
             q == todo[t] \ {p}
  <2>1. /\ pc'[t] = "read" /\ root'[t] = root[t] /\ todo'[t] = q /\ found'[t] = tab /\ dirty'[t] = dirty[t]
        /\ Others(t) /\ Domains'
    <3>1. /\ found' = [found EXCEPT ![t] = tab] /\ todo' = [todo EXCEPT ![t] = q]
          /\ UNCHANGED <<pc, root, dirty>>
      BY <1>3 DEF Read
    <3> HIDE DEF tab, q
    <3> QED BY <1>1, <3>1 DEF Others, SkillsInv, Domains
  <2>2. /\ Table(found[t]) /\ root[t] \in 1..(Len(RootScopes) + 1) /\ root[t] \in DOMAIN RootScopes
        /\ \A r \in todo[t] : RootOf[r] = root[t]
        /\ \A s \in Ids : Entry(found[t][s], s, P, dirty[t], file)
    BY <1>1 DEF SkillsInv, HonestAt, Honest
  <2>3. P \in SUBSET Places /\ p \notin P /\ file[p] \in Docs
    <3>1. RootOf[p] = root[t] /\ root[t] \in Nat
      BY <1>1, <2>2
    <3> QED BY <1>1, <1>3, <3>1 DEF Behind, SkillsInv
  <2>4. Behind("read", root[t], q) = P \cup {p}
    <3>1. RootOf[p] = root[t]
      BY <1>1, <2>2
    <3> QED BY <3>1 DEF Behind
  <2>5. Table(tab) /\ \A s \in Ids : Entry(tab[s], s, P \cup {p}, dirty[t], file)
    <3> HIDE DEF P
    <3> QED BY <2>2, <2>3, EntryMerged
  <2>6. \A r \in q : RootOf[r] = root[t]
    BY <2>2
  <2> HIDE DEF tab, P, q
  <2>7. Honest("read", root[t], q, tab, dirty[t], file)
    BY <2>2, <2>4, <2>5, <2>6 DEF Honest
  <2> QED BY <1>1, <2>1, <2>7, QuietCache, OneMoves
<1> QED BY <1>2, <1>3

(* Behind the last file of a root is the next root.                        *)
LEMMA RootDoneKeeps ==
    ASSUME SkillsAssumption, SkillsInv, NEW t \in SkillThreads, RootDone(t)
    PROVE  SkillsInv'
<1>1. /\ pc[t] = "read" /\ todo[t] = {}
      /\ pc'[t] = "scan" /\ root'[t] = root[t] + 1 /\ todo'[t] = {} /\ found'[t] = found[t] /\ dirty'[t] = dirty[t]
      /\ Others(t) /\ Domains' /\ UNCHANGED <<file, cache, calm>>
  BY DEF RootDone, Go, Others, shared, SkillsInv, Domains
<1>2. /\ Table(found[t]) /\ root[t] \in DOMAIN RootScopes
      /\ \A s \in Ids : Entry(found[t][s], s, Behind("read", root[t], {}), dirty[t], file)
  BY <1>1 DEF SkillsInv, HonestAt, Honest
<1>3. root[t] + 1 \in 1..(Len(RootScopes) + 1)
  BY <1>2, Roots
<1>4. Behind("scan", root[t] + 1, {}) = Behind("read", root[t], {})
  <2>1. \A p \in Places : RootOf[p] < root[t] + 1 <=> RootOf[p] < root[t] \/ RootOf[p] = root[t]
    BY <1>2, Roots
  <2> QED BY <2>1 DEF Behind
<1>5. Honest("scan", root[t] + 1, {}, found[t], dirty[t], file)
  BY <1>2, <1>3, <1>4 DEF Honest
<1> QED BY <1>1, <1>5, QuietCache, OneMoves

(* Behind the last root are all the places.                                *)
LEMMA DiscoveredKeeps ==
    ASSUME SkillsAssumption, SkillsInv, NEW t \in SkillThreads, Discovered(t)
    PROVE  SkillsInv'
<1>1. /\ pc[t] = "scan" /\ root[t] \notin DOMAIN RootScopes /\ file' = file
      /\ calm' => dirty[t] = {} /\ cache' = found[t]
  BY DEF Discovered
<1>2. /\ Table(found[t]) /\ root[t] \in 1..(Len(RootScopes) + 1)
      /\ \A s \in Ids : Entry(found[t][s], s, Behind("scan", root[t], todo[t]), dirty[t], file)
  BY <1>1 DEF SkillsInv, HonestAt, Honest
<1>3. Behind("scan", root[t], todo[t]) = Places
  <2>1. \A p \in Places : RootOf[p] < root[t]
    BY <1>1, <1>2, Roots
  <2> QED BY <2>1 DEF Behind
<1>4. HonestCache'
  <2> SUFFICES ASSUME calm', NEW s \in Ids PROVE Entry(cache'[s], s, Places, {}, file')
    BY DEF HonestCache
  <2>1. Entry(found[t][s], s, Places, dirty[t], file)
    BY <1>2, <1>3
  <2>2. cache'[s] = found[t][s] /\ dirty[t] = {} /\ file' = file
    BY <1>1
  <2> QED BY <2>1, <2>2
<1>5. /\ found'[t] = Nothing /\ pc'[t] \in {"idle", "lookup"} /\ Others(t) /\ Domains'
  <2>1. CASE op[t] \in {"mount", "list"}
    BY <2>1 DEF Discovered, Go, Reset, Others, SkillsInv, Domains
  <2>2. CASE op[t] \notin {"mount", "list"}
    BY <2>2 DEF Discovered, Go, Others, SkillsInv, Domains
  <2> QED BY <2>1, <2>2
<1>6. Honest(pc'[t], root'[t], todo'[t], found'[t], dirty'[t], file)
  <2>1. pc'[t] \notin {"scan", "read"}
    BY <1>5
  <2> QED BY <1>5, <2>1, NothingIs, Rests
<1> QED BY <1>1, <1>4, <1>5, <1>6, OneMoves

(* Every step of the skills, action by action.                             *)
LEMMA SkillsStep ==
    ASSUME SkillsAssumption, SkillsInv, [SkillsNext]_skillsVars PROVE SkillsInv'
<1>1. ASSUME NEW p \in Places, NEW doc \in Docs \cup {Absent}, Edit(p, doc) PROVE SkillsInv'
  BY <1>1, EditKeeps
<1>2. ASSUME NEW t \in SkillThreads, Mount(t) \/ List(t) PROVE SkillsInv'
  BY <1>2, DiscoverKeeps DEF Mount, List, shared
<1>3. ASSUME NEW t \in SkillThreads, Load(t) PROVE SkillsInv'
  <2>1. CASE cache[want[t]] = None
    BY <1>3, <2>1, DiscoverKeeps DEF Load, shared
  <2>2. CASE cache[want[t]] # None
    <3>1. Go(t, "lookup") /\ "lookup" \notin {"scan", "read"}
          /\ UNCHANGED <<file, cache, calm, root, todo, found, dirty>>
      BY <1>3, <2>2 DEF Load, shared
    <3> QED BY <3>1, GoesKeeps
  <2> QED BY <2>1, <2>2
<1>4. ASSUME NEW t \in SkillThreads, Lookup(t) PROVE SkillsInv'
  <2>1. UNCHANGED <<file, cache, calm>>
    BY <1>4 DEF Lookup
  <2>2. \/ Go(t, "idle") /\ Reset(t)
        \/ Go(t, "load") /\ UNCHANGED <<root, todo, found, dirty>>
    BY <1>4 DEF Lookup
  <2>3. "load" \notin {"scan", "read"}
    OBVIOUS
  <2> QED BY <2>1, <2>2, <2>3, Left, GoesKeeps
<1>5. ASSUME NEW t \in SkillThreads, Discovery(t) PROVE SkillsInv'
  BY <1>5, ScanKeeps, ReadKeepsTable, RootDoneKeeps, DiscoveredKeeps DEF Discovery
<1>6. ASSUME NEW t \in SkillThreads, NEW s \in Ids, NEW o, Invoke(t, o, s) PROVE SkillsInv'
  <2>1. Go(t, "load") /\ "load" \notin {"scan", "read"}
        /\ UNCHANGED <<file, cache, calm, root, todo, found, dirty>>
    BY <1>6 DEF Invoke, shared
  <2> QED BY <2>1, GoesKeeps
<1>7. CASE UNCHANGED skillsVars
  BY <1>7 DEF skillsVars, shared, locals, SkillsInv, Domains, HonestAt, HonestCache
<1> QED BY <1>1, <1>2, <1>3, <1>4, <1>5, <1>6, <1>7 DEF SkillsNext

LEMMA SkillsBegin == ASSUME SkillsAssumption, SkillsInit PROVE SkillsInv
<1>1. file \in [Places -> Docs \cup {Absent}] /\ Domains /\ HonestCache
  BY DEF SkillsInit, Domains, HonestCache
<1>2. ASSUME NEW t \in SkillThreads PROVE HonestAt(t)
  <2>1. pc[t] = "idle" /\ found[t] = Nothing /\ "idle" \notin {"scan", "read"}
    BY DEF SkillsInit
  <2> QED BY <2>1, NothingIs, Rests DEF HonestAt
<1> QED BY <1>1, <1>2 DEF SkillsInv

(* Tables and the calm cache say what the files they were read from say,   *)
(* however discoveries and edits interleave (discover_skills).             *)
THEOREM SkillsHonest == SkillsSpec => []SkillsInv
<1>1. SkillsInit => SkillsInv
  BY SkillsAssumption, SkillsBegin
<1>2. SkillsInv /\ [SkillsNext]_skillsVars => SkillsInv'
  BY SkillsAssumption, SkillsStep
<1> QED BY <1>1, <1>2, PTL DEF SkillsSpec

(* When no file changed since the discovery that filled the cache began,   *)
(* the cache has each skill's copy of highest precedence, with what its    *)
(* document says and a note of the others (discover_skills, _load_from_ref,*)
(* _resolve_shadow, _parse_skill_document), for any documents and places.  *)
THEOREM CalmCacheIsAlwaysExact == SkillsSpec => []CalmCacheIsExact
<1>1. SkillsInv => CalmCacheIsExact
  <2> SUFFICES ASSUME SkillsInv, calm, NEW s \in Ids
               PROVE  IF Copies(s) = {} THEN cache[s] = None
                      ELSE LET c == cache[s]
                           IN /\ c # None
                              /\ c.place \in Copies(s) /\ \A p \in Copies(s) : ~Before(p, c.place)
                              /\ c.doc = file[c.place]
                              /\ c.invocable <=> /\ ~DocSays(c.doc, "disable-model-invocation", "true")
                                                /\ RootOf[c.place] \notin Untrusted
                              /\ c.notes \subseteq Copies(s) \ {c.place}
                              /\ c.notes = {} => Copies(s) = {c.place}
    BY DEF CalmCacheIsExact
  <2> DEFINE c == cache[s]
  <2>1. Entry(c, s, Places, {}, file)
    BY DEF SkillsInv, HonestCache
  <2> HIDE DEF c
  <2>2. \A p : p \in Copies(s) <=> p \in Places /\ IdOf[p] = s /\ Usable(file[p])
    BY DEF Copies
  <2>3. CASE c = None
    <3>1. Copies(s) = {}
      BY <2>1, <2>2, <2>3 DEF Entry
    <3> QED BY <2>3, <3>1 DEF c
  <2>4. CASE c # None
    <3>1. c.place \in Copies(s) /\ c.doc = file[c.place]
      BY <2>1, <2>2, <2>4 DEF Entry
    <3>2. \A p \in Copies(s) : ~Before(p, c.place) /\ (c.notes = {} => p = c.place)
      BY <2>1, <2>2, <2>4 DEF Entry
    <3>3. c.notes \subseteq Copies(s) \ {c.place}
      BY <2>1, <2>2, <2>4 DEF Entry
    <3>4. c.invocable <=> /\ ~DocSays(c.doc, "disable-model-invocation", "true")
                          /\ RootOf[c.place] \notin Untrusted
      BY <2>1, <2>4 DEF Entry
    <3>5. c.notes = {} => Copies(s) = {c.place}
      BY <3>1, <3>2
    <3> QED BY <2>4, <3>1, <3>2, <3>3, <3>4, <3>5 DEF c
  <2> QED BY <2>3, <2>4
<1> QED BY <1>1, SkillsHonest, PTL

(* No copy that a discovery has passed, and that did not change, outranks  *)
(* the one it keeps, whatever other files change (discover_skills).        *)
THEOREM SteadyCopyIsNeverOutranked == SkillsSpec => []SteadyCopyIsNotOutranked
<1>1. SkillsInv => SteadyCopyIsNotOutranked
  <2> SUFFICES ASSUME SkillsInv, NEW t \in SkillThreads, NEW p \in Places,
                      pc[t] \in {"scan", "read"}, p \notin dirty[t], Usable(file[p]),
                      RootOf[p] < root[t] \/ (RootOf[p] = root[t] /\ pc[t] = "read" /\ p \notin todo[t])
               PROVE  /\ found[t][IdOf[p]] # None
                      /\ ~Before(p, found[t][IdOf[p]].place)
    BY DEF SteadyCopyIsNotOutranked
  <2>1. p \in Behind(pc[t], root[t], todo[t])
    BY DEF Behind
  <2>2. IdOf[p] \in Ids
    BY SkillsAssumption
  <2>3. Entry(found[t][IdOf[p]], IdOf[p], Behind(pc[t], root[t], todo[t]), dirty[t], file)
    BY <2>2 DEF SkillsInv, HonestAt, Honest
  <2> QED BY <2>1, <2>3 DEF Entry
<1> QED BY <1>1, SkillsHonest, PTL
=============================================================================
