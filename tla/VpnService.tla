----------------------------- MODULE VpnService -----------------------------
(***************************************************************************)
(* The life of a connection in the Android app: IodineVpnService, whose    *)
(* broadcast receiver runs on the main thread and whose run() runs on a    *)
(* thread of its own for each connection, and the flags of the native      *)
(* client that both write (iodine-client.c, client.c).  Nothing in this    *)
(* code is synchronized: every access to a shared field or flag is a step  *)
(* of its own, and the threads take their steps in any order.              *)
(*                                                                         *)
(* A method called on a field that another thread has just set to null     *)
(* throws, nobody catches it, and the process dies: "crashed".             *)
(***************************************************************************)
EXTENDS Naturals

CONSTANTS Config,        \* the configurations of the database
          Null,          \* null
          MaxThreads,    \* bound: the connections tried
          MaxInstances   \* bound: the times the service is created

ASSUME ServiceAssumption ==
  /\ Null \notin Config
  /\ MaxThreads \in Nat
  /\ MaxInstances \in Nat \ {0}

Threads   == 1 .. MaxThreads
Instances == 1 .. MaxInstances

ASSUME NullIsNoThread == Null \notin Threads

VARIABLES
  inst,            \* the latest instance of the service ...
  live,            \* ... and whether it is between onCreate and onDestroy
  mThread,         \* the fields of each instance; a thread keeps the fields
  mConfiguration,  \*   of the instance that started it
  status,          \* currentActionStatus
  main,            \* where the main thread is, "idle" between two callbacks
  destroying,      \* the callback is onDestroy
  pc,              \* where each connection's thread is
  home,            \* the instance that started it
  started,         \* how many threads have been started
  running,                \* static int running of client.c
  request_disconnect,     \* tun_config_android.request_disconnect
  crashed,
  asked, told      \* ghosts: the threads a CONTROL_DISCONNECT was meant for,
                   \* and those in native code when tunnelInterrupt was called

service == << inst, live, mThread, mConfiguration, status >>
native  == << running, request_disconnect >>
threads == << pc, home, started >>
ghosts  == << asked, told >>
vars == << service, main, destroying, threads, native, crashed, ghosts >>

Init ==
  /\ inst = 1 /\ live = TRUE
  /\ mThread = [i \in Instances |-> Null]
  /\ mConfiguration = [i \in Instances |-> Null]
  /\ status = [i \in Instances |-> "IDLE"]
  /\ main = "idle" /\ destroying = FALSE
  /\ pc = [t \in Threads |-> "none"]
  /\ home = [t \in Threads |-> 1]
  /\ started = 0
  /\ running = FALSE /\ request_disconnect = FALSE
  /\ crashed = FALSE
  /\ asked = {} /\ told = {}

SetStatus(i, s) == status' = [status EXCEPT ![i] = s]

\* A step that only reads and writes the status of instance i
StatusStep(i, s) ==
  SetStatus(i, s) /\ UNCHANGED << inst, live, mThread, mConfiguration >>

Crash == crashed' = TRUE /\ UNCHANGED << service, threads, native, ghosts,
                                         main, destroying >>

-----------------------------------------------------------------------------
(***************************************************************************)
(* The main thread: onReceive, onRevoke, onCreate and onDestroy, one       *)
(* callback at a time.                                                     *)
(***************************************************************************)
At(place) == main = place /\ ~ crashed
GoTo(place) == main' = place /\ UNCHANGED << destroying, crashed >>
Receive == At("idle") /\ live

\* CONTROL_CONNECT while "mThread != null", or without a configuration's id
ConnectRefused ==
  /\ Receive
  /\ StatusStep(inst, "ERROR")
  /\ GoTo("idle")
  /\ UNCHANGED << threads, native, ghosts >>

\* Wrong: the test of mThread is missing.
ConnectSelect_Untested(c) ==
  /\ Receive
  /\ started < MaxThreads
  /\ mConfiguration' = [mConfiguration EXCEPT ![inst] = c]
  /\ GoTo("start")
  /\ UNCHANGED << inst, live, mThread, status, threads, native, ghosts >>

\* CONTROL_CONNECT: mConfiguration = selectById(id), null for no such id
ConnectSelect(c) ==
  /\ Receive
  /\ started < MaxThreads
  /\ mThread[inst] = Null
  /\ mConfiguration' = [mConfiguration EXCEPT ![inst] = c]
  /\ GoTo("start")
  /\ UNCHANGED << inst, live, mThread, status, threads, native, ghosts >>

ConnectNoConfiguration ==
  /\ At("start")
  /\ mConfiguration[inst] = Null
  /\ StatusStep(inst, "ERROR")
  /\ GoTo("idle")
  /\ UNCHANGED << threads, native, ghosts >>

\* Wrong: mThread.start() without the assignment.
ConnectStart_Unrecorded ==
  /\ At("start")
  /\ mConfiguration[inst] # Null
  /\ started' = started + 1
  /\ pc' = [pc EXCEPT ![started + 1] = "enter"]
  /\ home' = [home EXCEPT ![started + 1] = inst]
  /\ GoTo("idle")
  /\ UNCHANGED << inst, live, mThread, mConfiguration, status, native, ghosts >>

\* mThread = new Thread(...); mThread.start()
ConnectStart ==
  /\ At("start")
  /\ mConfiguration[inst] # Null
  /\ started' = started + 1
  /\ mThread' = [mThread EXCEPT ![inst] = started + 1]
  /\ pc' = [pc EXCEPT ![started + 1] = "enter"]
  /\ home' = [home EXCEPT ![started + 1] = inst]
  /\ GoTo("idle")
  /\ UNCHANGED << inst, live, mConfiguration, status, native, ghosts >>

\* CONTROL_DISCONNECT or onRevoke: shutdown(), as far as the first test
ShutdownEnter ==
  /\ Receive
  /\ asked' = IF mThread[inst] = Null THEN asked ELSE asked \cup {mThread[inst]}
  /\ UNCHANGED << told, threads, native >>
  /\ \/ /\ mConfiguration[inst] # Null
        /\ GoTo("announce")
        /\ UNCHANGED service
     \/ /\ mConfiguration[inst] = Null
        /\ StatusStep(inst, "IDLE")
        /\ GoTo("shutdown")

\* setStatus(ACTION_STATUS_DISCONNECT, mConfiguration.getId(), null)
ShutdownAnnounce ==
  /\ At("announce")
  /\ \/ mConfiguration[inst] = Null /\ Crash
     \/ /\ mConfiguration[inst] # Null
        /\ StatusStep(inst, "DISCONNECT")
        /\ GoTo("shutdown")
        /\ UNCHANGED << threads, native, ghosts >>

\* if (mThread != null)
ShutdownTest ==
  /\ At("shutdown")
  /\ GoTo(IF mThread[inst] = Null THEN "idle" ELSE "interrupt")
  /\ UNCHANGED << service, threads, native, ghosts >>

\* mThread.interrupt(): the thread waits in native code or not at all, so
\* that nothing but the null reference has an effect.
ShutdownInterrupt ==
  /\ At("interrupt")
  /\ \/ mThread[inst] = Null /\ Crash
     \/ /\ mThread[inst] # Null
        /\ GoTo("flag")
        /\ UNCHANGED << service, threads, native, ghosts >>

\* Past the reset of request_disconnect in connect(), not yet out of tunnel()
InNative(t) == pc[t] \in {"init", "handshake", "connected", "establish",
                          "tunnel"}

\* tunnelInterrupt(): request_disconnect = 1, then client_stop()
InterruptFlag ==
  /\ At("flag")
  /\ request_disconnect' = TRUE
  /\ told' = told \cup {t \in Threads : InNative(t)}
  /\ GoTo("stop")
  /\ UNCHANGED << service, threads, running, asked >>

InterruptStop ==
  /\ At("stop")
  /\ running' = FALSE
  /\ main' = "idle" /\ destroying' = FALSE
  /\ IF destroying
     THEN live' = FALSE /\ mThread' = [mThread EXCEPT ![inst] = Null]
     ELSE UNCHANGED << live, mThread >>
  /\ UNCHANGED << inst, mConfiguration, status, threads, request_disconnect,
                  crashed, ghosts >>

\* onDestroy: without a thread it ends here, with one by way of "interrupt"
OnDestroy ==
  /\ Receive
  /\ IF mThread[inst] = Null
     THEN live' = FALSE /\ UNCHANGED << main, destroying >>
     ELSE main' = "interrupt" /\ destroying' = TRUE /\ UNCHANGED live
  /\ UNCHANGED << inst, mThread, mConfiguration, status, threads, native,
                  crashed, ghosts >>

\* startService makes a new instance; the native library stays loaded.
OnCreate ==
  /\ At("idle")
  /\ ~ live
  /\ inst < MaxInstances
  /\ inst' = inst + 1
  /\ live' = TRUE
  /\ UNCHANGED << mThread, mConfiguration, status, main, destroying, threads,
                  native, crashed, ghosts >>

MainContinues ==
  \/ ConnectNoConfiguration
  \/ ConnectStart
  \/ ShutdownAnnounce
  \/ ShutdownTest
  \/ ShutdownInterrupt
  \/ InterruptFlag
  \/ InterruptStop

MainReceives ==
  \/ ConnectRefused
  \/ \E c \in Config \cup {Null} : ConnectSelect(c)
  \/ ShutdownEnter
  \/ OnDestroy
  \/ OnCreate

-----------------------------------------------------------------------------
(***************************************************************************)
(* run(), on the thread t, step by step.                                   *)
(***************************************************************************)
Move(t, from, to) ==
  /\ ~ crashed
  /\ pc[t] = from
  /\ pc' = [pc EXCEPT ![t] = to]
  /\ UNCHANGED << main, destroying, home, started, crashed, ghosts >>

\* mConfiguration.get...(): the field is null
NoConfiguration(t) ==
  /\ ~ crashed
  /\ pc[t] \in {"enter", "lookup", "failed", "establish"}
  /\ mConfiguration[home[t]] = Null
  /\ Crash

\* getActiveNetwork() without a default network, establish() = null once the
\* user has revoked the permission: null references that nobody catches
Dies(t) ==
  /\ ~ crashed
  /\ pc[t] \in {"lookup", "establish"}
  /\ Crash

HasConfiguration(t) == mConfiguration[home[t]] # Null

Enter(t) ==
  /\ Move(t, "enter", "lookup")
  /\ HasConfiguration(t)
  /\ StatusStep(home[t], "CONNECT")
  /\ UNCHANGED native

\* Wrong: the early return without setStatus.
LookupFails_Silent(t) ==
  /\ Move(t, "lookup", "finally")
  /\ HasConfiguration(t)
  /\ UNCHANGED << service, native >>

\* No network, or no name server found
LookupFails(t) ==
  /\ Move(t, "lookup", "finally")
  /\ HasConfiguration(t)
  /\ StatusStep(home[t], "ERROR")
  /\ UNCHANGED native

Lookup(t) ==
  /\ Move(t, "lookup", "connect")
  /\ HasConfiguration(t)
  /\ UNCHANGED << service, native >>

\* IodineClient.connect: request_disconnect = 0, later client_init
ConnectReset(t) ==
  /\ Move(t, "connect", "init")
  /\ request_disconnect' = FALSE
  /\ UNCHANGED << service, running >>

ConnectInit(t) ==
  /\ Move(t, "init", "handshake")
  /\ running' = TRUE
  /\ UNCHANGED << service, request_disconnect >>

\* client_handshake returns 0.  A stop ends it at the next test of "running",
\* but the answer to a raw login can still come after the last of these.
HandshakeSucceeds(t) ==
  /\ Move(t, "handshake", "connected")
  /\ UNCHANGED << service, native >>

\* No socket, no answer, or not running any more
HandshakeFails(t) ==
  /\ Move(t, "handshake", "failed")
  /\ UNCHANGED << service, native >>

Connected(t) ==
  /\ Move(t, "connected", "establish")
  /\ StatusStep(home[t], "CONNECTED")
  /\ UNCHANGED native

\* runTunnel throws before the interface is there
EstablishFails(t) ==
  /\ Move(t, "establish", "failed")
  /\ UNCHANGED << service, native >>

Establish(t) ==
  /\ Move(t, "establish", "tunnel")
  /\ HasConfiguration(t)
  /\ StatusStep(home[t], "CONNECTED")
  /\ UNCHANGED native

\* Wrong: while (running)
TunnelEnds_Unasked(t) ==
  /\ Move(t, "tunnel", "closing")
  /\ ~ running
  /\ UNCHANGED << service, native >>

\* while (running && cb_ask_continue())
TunnelEnds(t) ==
  /\ Move(t, "tunnel", "closing")
  /\ ~ running \/ request_disconnect
  /\ UNCHANGED << service, native >>

\* No downstream data received in 60 seconds
TunnelDies(t) ==
  /\ Move(t, "tunnel", "closing")
  /\ running' = FALSE
  /\ UNCHANGED << service, request_disconnect >>

\* The second close of tun_fd may fail
CloseFails(t) ==
  /\ Move(t, "closing", "failed")
  /\ UNCHANGED << service, native >>

Closed(t) ==
  /\ Move(t, "closing", "finally")
  /\ StatusStep(home[t], "IDLE")
  /\ UNCHANGED native

\* Every failure ends in setStatus(ACTION_STATUS_ERROR, ...getId(), ...)
Failed(t) ==
  /\ Move(t, "failed", "finally")
  /\ HasConfiguration(t)
  /\ StatusStep(home[t], "ERROR")
  /\ UNCHANGED native

FinallyThread(t) ==
  /\ Move(t, "finally", "forget")
  /\ mThread' = [mThread EXCEPT ![home[t]] = Null]
  /\ UNCHANGED << inst, live, mConfiguration, status, native >>

FinallyConfiguration(t) ==
  /\ Move(t, "forget", "done")
  /\ mConfiguration' = [mConfiguration EXCEPT ![home[t]] = Null]
  /\ UNCHANGED << inst, live, mThread, status, native >>

\* What the thread does by itself ...
ThreadContinues(t) ==
  \/ NoConfiguration(t)
  \/ Enter(t)
  \/ LookupFails(t) \/ Lookup(t)
  \/ ConnectReset(t) \/ ConnectInit(t)
  \/ HandshakeSucceeds(t) \/ HandshakeFails(t)
  \/ Connected(t)
  \/ EstablishFails(t) \/ Establish(t)
  \/ TunnelEnds(t)
  \/ CloseFails(t) \/ Closed(t)
  \/ Failed(t)
  \/ FinallyThread(t) \/ FinallyConfiguration(t)

\* ... and what the network may or may not do to it
Next ==
  \/ MainReceives
  \/ MainContinues
  \/ \E t \in Threads : ThreadContinues(t) \/ TunnelDies(t) \/ Dies(t)

Spec == Init /\ [][Next]_vars

(***************************************************************************)
(* A callback runs to its end, and so does a thread: no loop of the        *)
(* handshake makes more than a few rounds of a few seconds, and the        *)
(* select() of the tunnel times out.  That a tunnel dies, or that the user *)
(* does something, is not promised.                                        *)
(***************************************************************************)
FairSpec ==
  /\ Spec
  /\ WF_vars(MainContinues)
  /\ \A t \in Threads : WF_vars(ThreadContinues(t))
-----------------------------------------------------------------------------
(***************************************************************************)
(* Properties                                                              *)
(***************************************************************************)
Statuses == {"IDLE", "CONNECT", "CONNECTED", "DISCONNECT", "ERROR"}
MainPlaces == {"idle", "start", "announce", "shutdown", "interrupt", "flag",
               "stop"}
ThreadPlaces == {"none", "enter", "lookup", "connect", "init", "handshake",
                 "connected", "establish", "tunnel", "closing", "failed",
                 "finally", "forget", "done"}

\* The type invariant: the fields hold what Java and C declare them to hold,
\* and the main thread is inside a callback only of a service that lives.
TypeOK ==
  /\ inst \in Instances /\ live \in BOOLEAN
  /\ mThread \in [Instances -> Threads \cup {Null}]
  /\ mConfiguration \in [Instances -> Config \cup {Null}]
  /\ status \in [Instances -> Statuses]
  /\ main \in MainPlaces /\ destroying \in BOOLEAN
  /\ pc \in [Threads -> ThreadPlaces]
  /\ home \in [Threads -> Instances]
  /\ started \in 0 .. MaxThreads
  /\ running \in BOOLEAN /\ request_disconnect \in BOOLEAN
  /\ crashed \in BOOLEAN
  /\ asked \subseteq Threads /\ told \subseteq Threads
  /\ main # "idle" => live

\* Between its start and the "mThread = null" of its end
Active(t) == pc[t] \notin {"none", "forget", "done"}

\* One instance of the service never runs two connections side by side: the
\* unsynchronized "mThread != null" of onReceive suffices for that, since
\* only the main thread ever makes the field non-null, whatever the order in
\* which connections end, are interrupted or are refused.
OneThreadPerService ==
  \A t, u \in Threads :
     Active(t) /\ Active(u) /\ home[t] = home[u] => t = u

\* The configuration of a connection is taken from under it, and the process
\* with it, only by the "mConfiguration = null" of a connection of the same
\* service that had already given up its mThread: never by a CONTROL_CONNECT
\* or a CONTROL_DISCONNECT that comes while it runs.
OnlyThePastTakesConfiguration ==
  \A t \in Threads :
     Active(t) /\ mConfiguration[home[t]] = Null =>
        \E u \in Threads : u # t /\ home[u] = home[t] /\ pc[u] = "done"

\* The five states that the service broadcasts settle: once no connection
\* runs, the last state broadcast is not one of "trying to connect" and
\* "connected", however the connection ended and whichever of the two threads
\* wrote last.
StatusSettles ==
  \A i \in Instances :
     (\A t \in Threads : home[t] = i => ~ Active(t))
        => status[i] \notin {"CONNECT", "CONNECTED"}

\* Liveness: a connection past the first step of connect() when
\* tunnelInterrupt is called ends, although connect() may set "running" again
\* after the stop cleared it: request_disconnect outlasts the handshake.  Only
\* the death of the process and a second instance of the service, whose
\* connect() resets the flag for all, get in its way.
InterruptIsObeyed ==
  \A t \in Threads : t \in told ~> pc[t] = "done" \/ crashed \/ inst > 1

\* Liveness: a CONTROL_DISCONNECT received while a connection exists closes
\* it.  The code does not hold this: see the run.
DisconnectCloses ==
  \A t \in Threads : t \in asked ~> pc[t] = "done" \/ crashed
=============================================================================
