----------------------------- MODULE ChannelHost -----------------------------
(***************************************************************************)
(* The host processes of host/app.py and the channel manager they own.     *)
(* A channel is loaded by the main thread (the preloaded ones, under the   *)
(* host's lock) or by a thread that serves a connection and was sent       *)
(* /channel <name> (without the lock).  Loading starts a host for the      *)
(* channel in a thread of its own; a Feishu host first takes the lock file *)
(* of its app, which the processes of the machine share.                   *)
(*                                                                         *)
(* The module is read side by side with FeishuChannel, the host that is    *)
(* loaded here; no name of the one is a name of the other.                 *)
(***************************************************************************)
EXTENDS Naturals, Sequences, FiniteSets

CONSTANTS
    Procs,          \* host processes on one machine, for one Feishu app
    Actors,         \* their threads
    ProcOf,         \* [Actors -> Procs]
    Main,           \* [Procs -> Actors], the thread that runs start()
    Channels,       \* what can be loaded, without the terminal
    Feishu,         \* the one whose host takes the run lock
    Terminal,       \* the terminal's name
    Keys,           \* names of configuration values
    Preloaded,      \* [Procs -> Seq(Channels)], what start() loads
    Required,       \* [Channels -> SUBSET Keys]
    KeysOf,         \* [Channels -> SUBSET Keys], what /channel-config accepts
    Free,           \* nobody
    MaxDeaths

ASSUME HostAssumptions ==
    /\ ProcOf \in [Actors -> Procs]
    /\ Main \in [Procs -> Actors] /\ \A p \in Procs : ProcOf[Main[p]] = p
    /\ \A p \in Procs : Preloaded[p] \in Seq(Channels)
    /\ Required \in [Channels -> SUBSET Keys]
    /\ KeysOf \in [Channels -> SUBSET Keys]
    /\ \A c \in Channels : Required[c] \subseteq KeysOf[c]
    /\ Feishu \in Channels /\ Terminal \notin Channels /\ Free \notin Actors
    /\ MaxDeaths \in Nat

VARIABLES
    alive,      \* processes that run
    adapters,   \* per process: the channels the gateway has an adapter for
    managed,    \* per process: ChannelHostManager._loaded_channels
    loaded,     \* per process: OpenAgentHost._loaded_channels
    preload,    \* per process: the channels start() has still to load
    config,     \* per process: the values set at run time or by environment
    mutex,      \* per process: who holds OpenAgentHost._lock
    pc,         \* per thread: where it is
    want,       \* per thread: the channel it is loading
    host,       \* per thread and channel: the host that thread started
    flock,      \* whose host holds the app's lock file
    deaths

process == <<alive, preload, config, deaths>>
marks == <<adapters, managed, loaded>>
thread == <<mutex, pc, want>>
hosts == <<host, flock>>
hostVars == <<process, marks, thread, hosts>>

Names == Channels \cup {Terminal}
NoHosts == [c \in Channels |-> "none"]

\* "new": not started; "idle": waits for input; "gone": ended.  A thread that
\* loads goes through "lock", "check" (holding the lock), "manager", "adapter",
\* "create", "mark" and "note".
Places == {"new", "gone", "idle", "lock", "check", "manager", "adapter",
           "create", "mark", "note"}
HostStates == {"none", "starting", "running", "closing", "ended"}

HostTypeOK ==
    /\ alive \subseteq Procs
    /\ adapters \in [Procs -> SUBSET Names]
    /\ managed \in [Procs -> SUBSET Channels]
    /\ loaded \in [Procs -> SUBSET Names]
    /\ \A p \in Procs : preload[p] \in Seq(Channels)
    /\ config \in [Procs -> SUBSET Keys]
    /\ mutex \in [Procs -> Actors \cup {Free}]
    /\ pc \in [Actors -> Places]
    /\ want \in [Actors -> Names]
    /\ host \in [Actors -> [Channels -> HostStates]]
    /\ flock \in Actors \cup {Free}
    /\ deaths \in 0..MaxDeaths

HostInit ==
    /\ alive = {}
    /\ adapters = [p \in Procs |-> {}]
    /\ managed = [p \in Procs |-> {}]
    /\ loaded = [p \in Procs |-> {}]
    /\ preload = Preloaded
    /\ config = [p \in Procs |-> {}]
    /\ mutex = [p \in Procs |-> Free]
    /\ pc = [a \in Actors |-> "new"]
    /\ want = [a \in Actors |-> Terminal]
    /\ host = [a \in Actors |-> NoHosts]
    /\ flock = Free
    /\ deaths = 0

-----------------------------------------------------------------------------
(* Starting a process.  The environment gives some configuration values; the *)
(* terminal server listens before the channels are preloaded.                *)
Boot(p) ==
    /\ p \notin alive
    /\ alive' = alive \cup {p}
    /\ \E env \in SUBSET Keys : config' = [config EXCEPT ![p] = env]
    /\ pc' = [pc EXCEPT ![Main[p]] = "idle"]
    /\ UNCHANGED <<marks, hosts, preload, mutex, want, deaths>>

\* start() loads the configured channels one after the other; the first one
\* that raises ends it, the terminal server goes on.
Preload(p) ==
    /\ pc[Main[p]] = "idle" /\ preload[p] # <<>>
    /\ pc' = [pc EXCEPT ![Main[p]] = "lock"]
    /\ want' = [want EXCEPT ![Main[p]] = Head(preload[p])]
    /\ preload' = [preload EXCEPT ![p] = Tail(@)]
    /\ UNCHANGED <<marks, hosts, alive, config, mutex, deaths>>

\* A connection of the terminal: its handler first loads the terminal channel.
Connect(a) ==
    /\ a # Main[ProcOf[a]] /\ ProcOf[a] \in alive /\ pc[a] = "new"
    /\ pc' = [pc EXCEPT ![a] = "lock"]
    /\ want' = [want EXCEPT ![a] = Terminal]
    /\ UNCHANGED <<process, marks, hosts, mutex>>

Disconnect(a) ==
    /\ a # Main[ProcOf[a]] /\ pc[a] = "idle"
    /\ pc' = [pc EXCEPT ![a] = "gone"]
    /\ UNCHANGED <<process, marks, hosts, mutex, want>>

-----------------------------------------------------------------------------
(* OpenAgentHost.ensure_channel_loaded, under the lock. *)
Enter(a) ==
    /\ pc[a] = "lock" /\ mutex[ProcOf[a]] = Free
    /\ mutex' = [mutex EXCEPT ![ProcOf[a]] = a]
    /\ pc' = [pc EXCEPT ![a] = "check"]
    /\ UNCHANGED <<process, marks, hosts, want>>

\* The lock is released on every way out of the with statement.
Unlock(a) == mutex' = [p \in Procs |-> IF mutex[p] = a THEN Free ELSE mutex[p]]

\* The call ends and the thread goes on, or ends with it.
Return(a, place) ==
    /\ Unlock(a)
    /\ pc' = [pc EXCEPT ![a] = place]
    /\ want' = [want EXCEPT ![a] = Terminal]

Check(a) ==
    /\ pc[a] = "check"
    /\ LET p == ProcOf[a] IN
       \/ /\ want[a] \in loaded[p]
          /\ Return(a, "idle")
          /\ UNCHANGED <<adapters, loaded>>
       \/ /\ want[a] \notin loaded[p] /\ want[a] = Terminal
          /\ adapters' = [adapters EXCEPT ![p] = @ \cup {Terminal}]
          /\ loaded' = [loaded EXCEPT ![p] = @ \cup {Terminal}]
          /\ Return(a, "idle")
       \/ /\ want[a] \notin loaded[p] /\ want[a] # Terminal
          /\ pc' = [pc EXCEPT ![a] = "manager"]
          /\ UNCHANGED <<adapters, loaded, mutex, want>>
    /\ UNCHANGED <<process, hosts, managed>>

(* /channel <name> on a connection: the manager is asked without the lock. *)
Missing(p, c) == Required[c] \ config[p]

LoadCommand(a, c) ==
    /\ a # Main[ProcOf[a]] /\ pc[a] = "idle"
    /\ LET p == ProcOf[a] IN
       \/ /\ c \in managed[p]                      \* "already loaded"
          /\ loaded' = [loaded EXCEPT ![p] = @ \cup {c}]
          /\ UNCHANGED <<pc, want>>
       \/ /\ c \notin managed[p] /\ Missing(p, c) # {}   \* "config missing"
          /\ UNCHANGED <<loaded, pc, want>>
       \/ /\ c \notin managed[p] /\ Missing(p, c) = {}
          /\ pc' = [pc EXCEPT ![a] = "manager"]
          /\ want' = [want EXCEPT ![a] = c]
          /\ UNCHANGED loaded
    /\ UNCHANGED <<process, hosts, adapters, managed, mutex>>

\* /channel-config <name> <key> <value>
SetConfig(a, c, k) ==
    /\ a # Main[ProcOf[a]] /\ pc[a] = "idle" /\ k \in KeysOf[c]
    /\ config' = [config EXCEPT ![ProcOf[a]] = @ \cup {k}]
    /\ UNCHANGED <<marks, thread, hosts, alive, preload, deaths>>

-----------------------------------------------------------------------------
(* ChannelHostManager.ensure_channel_loaded. *)

\* Mutant: an exception leaves the lock taken.
RaiseLocked(a) ==
    /\ pc' = [pc EXCEPT ![a] = "gone"]
    /\ want' = [want EXCEPT ![a] = Terminal]
    /\ UNCHANGED mutex

\* An exception leaves the lock and ends the thread that was loading.
LoadRaises(a) == Return(a, "gone")

\* Loaded meanwhile, or the configuration is resolved, which may raise.
Resolve(a) ==
    /\ pc[a] = "manager"
    /\ \/ /\ want[a] \in managed[ProcOf[a]]
          /\ pc' = [pc EXCEPT ![a] = "note"] /\ UNCHANGED <<mutex, want>>
       \/ /\ want[a] \notin managed[ProcOf[a]]
          /\ Missing(ProcOf[a], want[a]) # {}
          /\ LoadRaises(a)
       \/ /\ want[a] \notin managed[ProcOf[a]]
          /\ Missing(ProcOf[a], want[a]) = {}
          /\ pc' = [pc EXCEPT ![a] = "adapter"] /\ UNCHANGED <<mutex, want>>
    /\ UNCHANGED <<process, marks, hosts>>

Register(a) ==
    /\ pc[a] = "adapter"
    /\ adapters' = [adapters EXCEPT ![ProcOf[a]] = @ \cup {want[a]}]
    /\ pc' = [pc EXCEPT ![a] = "create"]
    /\ UNCHANGED <<process, hosts, managed, loaded, mutex, want>>

\* The channel's host is built (an SDK that is not installed raises) and its
\* thread is started.
StartHost(a) ==
    /\ pc[a] = "create"
    /\ \/ LoadRaises(a) /\ UNCHANGED host
       \/ /\ host' = [host EXCEPT ![a][want[a]] = "starting"]
          /\ pc' = [pc EXCEPT ![a] = "mark"] /\ UNCHANGED <<mutex, want>>
    /\ UNCHANGED <<process, marks, flock>>

MarkManaged(a) ==
    /\ pc[a] = "mark"
    /\ managed' = [managed EXCEPT ![ProcOf[a]] = @ \cup {want[a]}]
    /\ pc' = [pc EXCEPT ![a] = "note"]
    /\ UNCHANGED <<process, hosts, adapters, loaded, mutex, want>>

MarkLoaded(a) ==
    /\ pc[a] = "note"
    /\ loaded' = [loaded EXCEPT ![ProcOf[a]] = @ \cup {want[a]}]
    /\ Return(a, "idle")
    /\ UNCHANGED <<process, hosts, adapters, managed>>

-----------------------------------------------------------------------------
(* The threads of the channel hosts. *)

\* Mutant: the lock file is written but not locked.
AcquireAlways(a) ==
    /\ host[a][Feishu] = "starting"
    /\ flock' = a
    /\ host' = [host EXCEPT ![a][Feishu] = "running"]
    /\ UNCHANGED <<process, marks, thread>>

\* FeishuHostRunLock.acquire: a lock that is taken ends the host's thread.
AcquireRunLock(a) ==
    /\ host[a][Feishu] = "starting"
    /\ \/ /\ flock = Free /\ flock' = a
          /\ host' = [host EXCEPT ![a][Feishu] = "running"]
       \/ /\ flock # Free /\ UNCHANGED flock
          /\ host' = [host EXCEPT ![a][Feishu] = "ended"]
    /\ UNCHANGED <<process, marks, thread>>

\* The client's connection ends; the retry thread and the client are closed ...
CloseHost(a) ==
    /\ host[a][Feishu] = "running"
    /\ host' = [host EXCEPT ![a][Feishu] = "closing"]
    /\ UNCHANGED <<process, marks, thread, flock>>

\* ... and then the lock is released.
ReleaseRunLock(a) ==
    /\ host[a][Feishu] = "closing"
    /\ host' = [host EXCEPT ![a][Feishu] = "ended"]
    /\ flock' = IF flock = a THEN Free ELSE flock
    /\ UNCHANGED <<process, marks, thread>>

\* The other hosts hand over to a client with a thread of its own.
RunClient(a, c) ==
    /\ c # Feishu /\ host[a][c] = "starting"
    /\ host' = [host EXCEPT ![a][c] = "running"]
    /\ UNCHANGED <<process, marks, thread, flock>>

\* A process dies: the system closes its files, which frees their locks.
Die(p) ==
    /\ p \in alive /\ deaths < MaxDeaths
    /\ deaths' = deaths + 1
    /\ alive' = alive \ {p}
    /\ adapters' = [adapters EXCEPT ![p] = {}]
    /\ managed' = [managed EXCEPT ![p] = {}]
    /\ loaded' = [loaded EXCEPT ![p] = {}]
    /\ preload' = [preload EXCEPT ![p] = Preloaded[p]]
    /\ config' = [config EXCEPT ![p] = {}]
    /\ mutex' = [mutex EXCEPT ![p] = Free]
    /\ pc' = [a \in Actors |-> IF ProcOf[a] = p THEN "new" ELSE pc[a]]
    /\ want' = [a \in Actors |-> IF ProcOf[a] = p THEN Terminal ELSE want[a]]
    /\ host' = [a \in Actors |-> IF ProcOf[a] = p THEN NoHosts ELSE host[a]]
    /\ flock' = IF flock \in Actors /\ ProcOf[flock] = p THEN Free ELSE flock

-----------------------------------------------------------------------------
Load(a) ==
    \/ Enter(a) \/ Check(a) \/ Resolve(a) \/ Register(a) \/ StartHost(a)
    \/ MarkManaged(a) \/ MarkLoaded(a)

HostNext ==
    \/ \E p \in Procs : Boot(p) \/ Die(p) \/ Preload(p)
    \/ \E a \in Actors :
          \/ Connect(a) \/ Disconnect(a) \/ Load(a)
          \/ AcquireRunLock(a) \/ CloseHost(a) \/ ReleaseRunLock(a)
          \/ \E c \in Channels :
                \/ LoadCommand(a, c) \/ RunClient(a, c)
                \/ \E k \in Keys : SetConfig(a, c, k)

HostSpec == HostInit /\ [][HostNext]_hostVars

\* Every thread is scheduled, and a lock that is free again and again is got.
FairHostSpec == HostSpec /\ \A a \in Actors : SF_hostVars(Enter(a)) /\ WF_hostVars(Load(a))

-----------------------------------------------------------------------------
(* At most one host of the machine consumes the Feishu app's stream, however *)
(* commands, preloading, a closing host and a dying process interleave.      *)
(* "Prevent multiple local hosts from consuming the same Feishu app stream." *)
(* (FeishuHostRunLock)                                                       *)
Consumers == {a \in Actors : host[a][Feishu] \in {"running", "closing"}}
OneConsumer == \A a, b \in Consumers : a = b

(* A thread that waits for the host's lock gets in and out again, also when  *)
(* the load of another thread raised while it held it                        *)
(* (OpenAgentHost.ensure_channel_loaded), unless its process dies.           *)
LoadReturns == \A a \in Actors : pc[a] = "lock" ~> pc[a] \in {"new", "idle", "gone"}

=============================================================================
