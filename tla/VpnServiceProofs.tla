-------------------------- MODULE VpnServiceProofs --------------------------
(***************************************************************************)
(* Theorems about VpnService, for any number of connections and of         *)
(* instances of the service.  All of them follow from one inductive        *)
(* invariant, IInv: the field mThread of a living service is the thread    *)
(* that is active, so that the test of it in onReceive, which only the     *)
(* main thread makes, is still true when it starts the next one.           *)
(***************************************************************************)
EXTENDS VpnService, TLAPS

\* A thread has a place exactly when it has been started.
StartedInOrder == \A t \in Threads : pc[t] = "none" <=> t > started

\* No thread belongs to an instance that does not exist yet.
HomesExist == \A t \in Threads : home[t] <= inst

\* The field of a living service is its active thread.
FieldIsThread ==
  \A t \in Threads : Active(t) /\ home[t] = inst /\ live => mThread[inst] = t

\* What onReceive has tested still holds when it starts the thread.
TestedIsTrue ==
  main = "start" => mThread[inst] = Null /\ started < MaxThreads

\* Where a connection has announced itself and not yet its end
Announced(t) == pc[t] \in {"lookup", "connect", "init", "handshake",
                           "connected", "establish", "tunnel", "closing",
                           "failed"}

AnnouncedByThread ==
  \A i \in Instances : status[i] \in {"CONNECT", "CONNECTED"} =>
     \E t \in Threads : home[t] = i /\ Announced(t)

IInv ==
  /\ TypeOK
  /\ StartedInOrder
  /\ HomesExist
  /\ FieldIsThread
  /\ TestedIsTrue
  /\ OneThreadPerService

-----------------------------------------------------------------------------

LEMMA TypeInit == Init => TypeOK
<1> SUFFICES ASSUME Init PROVE TypeOK
  OBVIOUS
<1>1. inst \in Instances /\ started \in 0 .. MaxThreads
  BY ServiceAssumption DEF Init, Instances
<1>2. home \in [Threads -> Instances]
  BY ServiceAssumption DEF Init, Instances
<1>3. /\ mThread \in [Instances -> Threads \cup {Null}]
      /\ mConfiguration \in [Instances -> Config \cup {Null}]
      /\ status \in [Instances -> Statuses]
      /\ pc \in [Threads -> ThreadPlaces]
      /\ main \in MainPlaces
  BY DEF Init, Statuses, MainPlaces, ThreadPlaces
<1>4. /\ live \in BOOLEAN /\ destroying \in BOOLEAN
      /\ running \in BOOLEAN /\ request_disconnect \in BOOLEAN
      /\ crashed \in BOOLEAN
  BY Zenon DEF Init
<1>5. asked \subseteq Threads /\ told \subseteq Threads
  BY DEF Init
<1>6. main # "idle" => live
  BY DEF Init
<1> QED
  BY <1>1, <1>2, <1>3, <1>4, <1>5, <1>6 DEF TypeOK

-----------------------------------------------------------------------------
(***************************************************************************)
(* Type correctness                                                        *)
(***************************************************************************)
LEMMA TypeStep == TypeOK /\ StartedInOrder /\ TestedIsTrue /\ [Next]_vars => TypeOK'
<1> SUFFICES ASSUME TypeOK, StartedInOrder, TestedIsTrue, [Next]_vars
             PROVE  TypeOK'
  OBVIOUS
<1>c. Crash => TypeOK'
  BY DEF Crash, TypeOK, service, threads, native, ghosts
<1> USE DEF TypeOK, At, GoTo, Receive, StatusStep, SetStatus, Move, service, threads, native, ghosts
<1>s. {"IDLE", "CONNECT", "CONNECTED", "DISCONNECT", "ERROR"} \subseteq Statuses
  BY DEF Statuses
<1>1. CASE ConnectRefused
  BY <1>1, <1>s, <1>c DEF ConnectRefused, MainPlaces
<1>2. CASE ConnectNoConfiguration
  BY <1>2, <1>s, <1>c DEF ConnectNoConfiguration, MainPlaces
<1>3. CASE ConnectStart
  <2>1. started + 1 \in Threads /\ started' \in 0 .. MaxThreads
    BY <1>3, ServiceAssumption DEF ConnectStart, TestedIsTrue, Threads
  <2> QED
    BY <1>3, <2>1 DEF ConnectStart, MainPlaces, ThreadPlaces
<1>4. CASE ShutdownEnter
  <2>1. asked' \subseteq Threads
    BY <1>4 DEF ShutdownEnter
  <2>2. CASE mConfiguration[inst] = Null
    BY <1>4, <2>1, <2>2, <1>s DEF ShutdownEnter, MainPlaces
  <2>3. CASE mConfiguration[inst] # Null
    BY <1>4, <2>1, <2>3 DEF ShutdownEnter, MainPlaces
  <2> QED
    BY <2>2, <2>3
<1>5. CASE ShutdownAnnounce
  <2>1. CASE mConfiguration[inst] = Null
    BY <1>5, <2>1, <1>c DEF ShutdownAnnounce
  <2>2. CASE mConfiguration[inst] # Null
    <3>1. /\ At("announce") /\ StatusStep(inst, "DISCONNECT")
          /\ GoTo("shutdown") /\ UNCHANGED << threads, native, ghosts >>
      BY <1>5, <2>2, Zenon DEF ShutdownAnnounce
    <3> QED
      BY <3>1, <1>s DEF MainPlaces
  <2> QED
    BY <2>1, <2>2
<1>6. CASE ShutdownTest
  BY <1>6, <1>s, <1>c DEF ShutdownTest, MainPlaces
<1>7. CASE ShutdownInterrupt
  <2>1. CASE mThread[inst] = Null
    BY <1>7, <2>1, <1>c DEF ShutdownInterrupt
  <2>2. CASE mThread[inst] # Null
    <3>1. /\ At("interrupt") /\ GoTo("flag")
          /\ UNCHANGED << service, threads, native, ghosts >>
      BY <1>7, <2>2, Zenon DEF ShutdownInterrupt
    <3> QED
      BY <3>1 DEF MainPlaces
  <2> QED
    BY <2>1, <2>2
<1>8. CASE InterruptFlag
  BY <1>8, <1>s, <1>c DEF InterruptFlag, MainPlaces
<1>9. CASE InterruptStop
  BY <1>9, <1>s, <1>c DEF InterruptStop, MainPlaces
<1>10. CASE OnDestroy
  BY <1>10, <1>s, <1>c DEF OnDestroy, MainPlaces
<1>11. CASE OnCreate
  <2>1. inst' \in Instances
    BY <1>11, ServiceAssumption DEF OnCreate, Instances
  <2> QED
    BY <1>11, <2>1 DEF OnCreate
<1>12. ASSUME NEW c \in Config \cup {Null}, ConnectSelect(c) PROVE TypeOK'
  BY <1>12 DEF ConnectSelect, MainPlaces
<1>13. ASSUME NEW t \in Threads,
              ThreadContinues(t) \/ TunnelDies(t) \/ Dies(t)
       PROVE  TypeOK'
  <2>1. CASE Enter(t)
    BY <2>1, <1>s DEF Enter, ThreadPlaces
  <2>2. CASE LookupFails(t)
    BY <2>2, <1>s DEF LookupFails, ThreadPlaces
  <2>3. CASE Lookup(t)
    BY <2>3, <1>s DEF Lookup, ThreadPlaces
  <2>4. CASE ConnectReset(t)
    BY <2>4, <1>s DEF ConnectReset, ThreadPlaces
  <2>5. CASE ConnectInit(t)
    BY <2>5, <1>s DEF ConnectInit, ThreadPlaces
  <2>6. CASE HandshakeSucceeds(t)
    BY <2>6, <1>s DEF HandshakeSucceeds, ThreadPlaces
  <2>7. CASE HandshakeFails(t)
    BY <2>7, <1>s DEF HandshakeFails, ThreadPlaces
  <2>8. CASE Connected(t)
    BY <2>8, <1>s DEF Connected, ThreadPlaces
  <2>9. CASE EstablishFails(t)
    BY <2>9, <1>s DEF EstablishFails, ThreadPlaces
  <2>10. CASE Establish(t)
    BY <2>10, <1>s DEF Establish, ThreadPlaces
  <2>11. CASE TunnelEnds(t)
    BY <2>11, <1>s DEF TunnelEnds, ThreadPlaces
  <2>12. CASE TunnelDies(t)
    BY <2>12, <1>s DEF TunnelDies, ThreadPlaces
  <2>13. CASE CloseFails(t)
    BY <2>13, <1>s DEF CloseFails, ThreadPlaces
  <2>14. CASE Closed(t)
    BY <2>14, <1>s DEF Closed, ThreadPlaces
  <2>15. CASE Failed(t)
    BY <2>15, <1>s DEF Failed, ThreadPlaces
  <2>16. CASE FinallyThread(t)
    BY <2>16, <1>s DEF FinallyThread, ThreadPlaces
  <2>17. CASE FinallyConfiguration(t)
    BY <2>17, <1>s DEF FinallyConfiguration, ThreadPlaces
  <2>18. CASE NoConfiguration(t) \/ Dies(t)
    BY <2>18, <1>c DEF NoConfiguration, Dies
  <2> QED
    BY <1>13, <2>1, <2>2, <2>3, <2>4, <2>5, <2>6, <2>7, <2>8, <2>9, <2>10,
       <2>11, <2>12, <2>13, <2>14, <2>15, <2>16, <2>17, <2>18
       DEF ThreadContinues
<1>14. CASE UNCHANGED vars
  BY <1>14 DEF vars
<1> QED
  BY <1>1, <1>2, <1>3, <1>4, <1>5, <1>6, <1>7, <1>8, <1>9, <1>10, <1>11,
     <1>12, <1>13, <1>14 DEF Next, MainReceives, MainContinues

-----------------------------------------------------------------------------
(***************************************************************************)
(* The steps by what they do to the threads and to the fields              *)
(***************************************************************************)
Alive == << inst, live, mThread, home, started >>

\* Nothing that the invariant mentions changes but the place of the main
\* thread, which is not about to start a connection.
Harmless ==
  /\ UNCHANGED Alive /\ pc' = pc
  /\ main' = main \/ main' # "start"

\* A thread that has not ended goes on to a place before its end.
GoesOn(t) ==
  /\ UNCHANGED Alive /\ main' = main
  /\ pc[t] \notin {"none", "forget", "done"}
  /\ \E to \in ThreadPlaces \ {"none", "forget", "done"} :
        pc' = [pc EXCEPT ![t] = to]

LEMMA CrashIsHarmless == Crash => Harmless
BY DEF Crash, Harmless, Alive, service, threads

LEMMA HarmlessSteps ==
  ASSUME \/ ConnectRefused \/ ConnectNoConfiguration
         \/ ShutdownEnter \/ ShutdownAnnounce \/ ShutdownTest
         \/ ShutdownInterrupt \/ InterruptFlag
         \/ UNCHANGED vars
  PROVE  Harmless
<1> USE DEF Harmless, Alive, GoTo, StatusStep, service, threads
<1>1. CASE ConnectRefused
  BY <1>1 DEF ConnectRefused
<1>2. CASE ConnectNoConfiguration
  BY <1>2 DEF ConnectNoConfiguration
<1>3. CASE ShutdownEnter
  BY <1>3 DEF ShutdownEnter
<1>4. CASE ShutdownTest
  BY <1>4 DEF ShutdownTest
<1>5. CASE InterruptFlag
  BY <1>5 DEF InterruptFlag
<1>6. CASE ShutdownAnnounce
  BY <1>6, CrashIsHarmless DEF ShutdownAnnounce
<1>7. CASE ShutdownInterrupt
  BY <1>7, CrashIsHarmless DEF ShutdownInterrupt
<1>8. CASE UNCHANGED vars
  BY <1>8 DEF vars
<1> QED
  BY <1>1, <1>2, <1>3, <1>4, <1>5, <1>6, <1>7, <1>8

LEMMA ThreadSteps ==
  ASSUME NEW t \in Threads, ThreadContinues(t) \/ TunnelDies(t) \/ Dies(t)
  PROVE  Harmless \/ GoesOn(t) \/ FinallyThread(t) \/ FinallyConfiguration(t)
<1> USE DEF GoesOn, Alive, Move, StatusStep, service, threads, ThreadPlaces
<1>1. CASE Enter(t)
  BY <1>1 DEF Enter
<1>2. CASE LookupFails(t)
  BY <1>2 DEF LookupFails
<1>3. CASE Lookup(t)
  BY <1>3 DEF Lookup
<1>4. CASE ConnectReset(t)
  BY <1>4 DEF ConnectReset
<1>5. CASE ConnectInit(t)
  BY <1>5 DEF ConnectInit
<1>6. CASE HandshakeSucceeds(t)
  BY <1>6 DEF HandshakeSucceeds
<1>7. CASE HandshakeFails(t)
  BY <1>7 DEF HandshakeFails
<1>8. CASE Connected(t)
  BY <1>8 DEF Connected
<1>9. CASE EstablishFails(t)
  BY <1>9 DEF EstablishFails
<1>10. CASE Establish(t)
  BY <1>10 DEF Establish
<1>11. CASE TunnelEnds(t)
  BY <1>11 DEF TunnelEnds
<1>12. CASE TunnelDies(t)
  BY <1>12 DEF TunnelDies
<1>13. CASE CloseFails(t)
  BY <1>13 DEF CloseFails
<1>14. CASE Closed(t)
  BY <1>14 DEF Closed
<1>15. CASE Failed(t)
  BY <1>15 DEF Failed
<1>16. CASE NoConfiguration(t) \/ Dies(t)
  BY <1>16, CrashIsHarmless DEF NoConfiguration, Dies
<1> QED
  BY <1>1, <1>2, <1>3, <1>4, <1>5, <1>6, <1>7, <1>8, <1>9, <1>10, <1>11,
     <1>12, <1>13, <1>14, <1>15, <1>16 DEF ThreadContinues

-----------------------------------------------------------------------------
(***************************************************************************)
(* One thread per service                                                  *)
(***************************************************************************)
LEMMA InvariantInit == Init => IInv
<1> SUFFICES ASSUME Init PROVE IInv
  OBVIOUS
<1>1. \A t \in Threads : pc[t] = "none"
  BY DEF Init
<1>2. StartedInOrder
  BY <1>1, ServiceAssumption DEF Init, StartedInOrder, Threads
<1>3. HomesExist
  BY DEF Init, HomesExist
<1>4. FieldIsThread /\ OneThreadPerService
  BY <1>1 DEF FieldIsThread, OneThreadPerService, Active
<1>5. TestedIsTrue
  BY DEF Init, TestedIsTrue
<1> QED
  BY TypeInit, <1>2, <1>3, <1>4, <1>5 DEF IInv

LEMMA HarmlessKeepsInvariant == IInv /\ TypeOK' /\ Harmless => IInv'
BY DEF IInv, Harmless, Alive, StartedInOrder, HomesExist, FieldIsThread,
   TestedIsTrue, OneThreadPerService, Active

LEMMA GoingOnKeepsInvariant ==
  ASSUME NEW t \in Threads, IInv, TypeOK', GoesOn(t)
  PROVE  IInv'
<1>1. /\ UNCHANGED Alive /\ main' = main
      /\ \A u \in Threads : Active(u)' <=> Active(u)
      /\ \A u \in Threads : pc'[u] = "none" <=> pc[u] = "none"
  BY DEF IInv, TypeOK, GoesOn, Active
<1> QED
  BY <1>1 DEF IInv, Alive, StartedInOrder, HomesExist, FieldIsThread,
     TestedIsTrue, OneThreadPerService

LEMMA EndKeepsInvariant ==
  ASSUME NEW t \in Threads, IInv, TypeOK',
         FinallyThread(t) \/ FinallyConfiguration(t)
  PROVE  IInv'
<1>1. /\ UNCHANGED << inst, live, home, started, main >>
      /\ \A u \in Threads : Active(u)' => Active(u) /\ u # t
      /\ \A u \in Threads : pc'[u] = "none" <=> pc[u] = "none"
  <2>1. CASE FinallyThread(t)
    BY <2>1 DEF FinallyThread, Move, IInv, TypeOK, Active
  <2>2. CASE FinallyConfiguration(t)
    BY <2>2 DEF FinallyConfiguration, Move, IInv, TypeOK, Active
  <2> QED
    BY <2>1, <2>2
<1>2. /\ \A i \in Instances : mThread'[i] \in {mThread[i], Null}
      /\ \A u \in Threads : Active(u)' => mThread'[home[u]] = mThread[home[u]]
  <2>1. CASE FinallyThread(t)
    <3>1. Active(t)
      BY <2>1 DEF FinallyThread, Move, Active
    <3>2. \A u \in Threads : Active(u)' => home[u] # home[t]
      BY <1>1, <3>1 DEF IInv, OneThreadPerService
    <3> QED
      BY <2>1, <3>2 DEF FinallyThread, IInv, TypeOK
  <2>2. CASE FinallyConfiguration(t)
    BY <2>2 DEF FinallyConfiguration, IInv, TypeOK
  <2> QED
    BY <2>1, <2>2
<1>3. FieldIsThread'
  BY <1>1, <1>2 DEF IInv, FieldIsThread
<1>4. OneThreadPerService'
  BY <1>1 DEF IInv, OneThreadPerService
<1>5. TestedIsTrue'
  BY <1>1, <1>2 DEF IInv, TypeOK, TestedIsTrue
<1> QED
  BY <1>1, <1>3, <1>4, <1>5 DEF IInv, StartedInOrder, HomesExist

LEMMA StartKeepsInvariant == IInv /\ TypeOK' /\ ConnectStart => IInv'
<1> SUFFICES ASSUME IInv, TypeOK', ConnectStart PROVE IInv'
  OBVIOUS
<1> DEFINE new == started + 1
<1>1. /\ main = "start" /\ main' = "idle" /\ live /\ live' = live /\ inst' = inst
      /\ mThread[inst] = Null
  BY DEF IInv, TypeOK, TestedIsTrue, ConnectStart, At, GoTo
<1>2. new \in Threads /\ started' = new /\ started \in Nat
  BY <1>1, ServiceAssumption DEF IInv, TypeOK, TestedIsTrue, ConnectStart, Threads
<1>3. /\ pc'[new] = "enter" /\ home'[new] = inst /\ mThread'[inst] = new
      /\ \A u \in Threads \ {new} : pc'[u] = pc[u] /\ home'[u] = home[u]
  BY <1>2 DEF ConnectStart, IInv, TypeOK
<1>4. \A u \in Threads \ {new} : ~ (Active(u)' /\ home'[u] = inst)
  BY <1>1, <1>3, NullIsNoThread DEF IInv, FieldIsThread, Active
<1> HIDE DEF new
<1>5. StartedInOrder'
  <2> SUFFICES ASSUME NEW u \in Threads
               PROVE  pc'[u] = "none" <=> u > started'
    BY DEF StartedInOrder
  <2>1. u \in Nat
    BY ServiceAssumption DEF Threads
  <2>2. CASE u = new
    BY <1>2, <1>3, <2>1, <2>2
  <2>3. CASE u # new
    BY <1>2, <1>3, <2>1, <2>3 DEF new, IInv, StartedInOrder
  <2> QED
    BY <2>2, <2>3
<1>6. HomesExist'
  <2>1. inst <= inst
    BY DEF IInv, TypeOK, Instances
  <2>2. \A u \in Threads : home[u] <= inst
    BY DEF IInv, HomesExist
  <2> QED
    BY <1>1, <1>3, <2>1, <2>2 DEF HomesExist
<1>7. FieldIsThread'
  BY <1>1, <1>3, <1>4 DEF FieldIsThread
<1>8. OneThreadPerService'
  BY <1>3, <1>4 DEF IInv, OneThreadPerService, Active
<1>9. TestedIsTrue'
  BY <1>1 DEF TestedIsTrue
<1> QED
  BY <1>5, <1>6, <1>7, <1>8, <1>9 DEF IInv

LEMMA InvariantStep == IInv /\ [Next]_vars => IInv'
<1> SUFFICES ASSUME IInv, [Next]_vars PROVE IInv'
  OBVIOUS
<1>0. TypeOK'
  BY TypeStep DEF IInv
<1>1. CASE \/ ConnectRefused \/ ConnectNoConfiguration
           \/ ShutdownEnter \/ ShutdownAnnounce \/ ShutdownTest
           \/ ShutdownInterrupt \/ InterruptFlag
           \/ UNCHANGED vars
  BY <1>0, <1>1, HarmlessSteps, HarmlessKeepsInvariant
<1>2. CASE ConnectStart
  BY <1>0, <1>2, StartKeepsInvariant
<1>3. ASSUME NEW c \in Config \cup {Null}, ConnectSelect(c) PROVE IInv'
  <2>1. /\ UNCHANGED Alive /\ pc' = pc
        /\ mThread[inst] = Null /\ started < MaxThreads
    BY <1>3 DEF ConnectSelect, Alive, threads
  <2> QED
    BY <1>0, <2>1 DEF IInv, Alive, StartedInOrder, HomesExist, FieldIsThread,
       TestedIsTrue, OneThreadPerService, Active
<1>4. CASE InterruptStop \/ OnDestroy
  <2>1. /\ UNCHANGED << inst, home, started, pc >> /\ main' # "start"
        /\ ~ live' \/ (live' = live /\ mThread' = mThread)
    <3>1. CASE InterruptStop
      BY <3>1 DEF InterruptStop, threads
    <3>2. CASE OnDestroy
      BY <3>2 DEF OnDestroy, threads, Receive, At
    <3> QED
      BY <1>4, <3>1, <3>2
  <2> QED
    BY <1>0, <2>1 DEF IInv, StartedInOrder, HomesExist, FieldIsThread,
       TestedIsTrue, OneThreadPerService, Active
<1>5. CASE OnCreate
  <2>1. /\ UNCHANGED << home, started, pc, mThread >>
        /\ main' = "idle" /\ inst' = inst + 1
    BY <1>5 DEF OnCreate, threads, At
  <2>2. inst \in Nat /\ \A t \in Threads : home[t] \in Nat /\ home[t] <= inst
    BY DEF IInv, TypeOK, Instances, HomesExist
  <2>3. HomesExist' /\ \A t \in Threads : home'[t] # inst'
    BY <2>1, <2>2 DEF HomesExist
  <2> QED
    BY <1>0, <2>1, <2>3 DEF IInv, StartedInOrder, FieldIsThread,
       TestedIsTrue, OneThreadPerService, Active
<1>6. ASSUME NEW t \in Threads, ThreadContinues(t) \/ TunnelDies(t) \/ Dies(t)
      PROVE  IInv'
  BY <1>0, <1>6, ThreadSteps, HarmlessKeepsInvariant, GoingOnKeepsInvariant,
     EndKeepsInvariant
<1> QED
  BY <1>1, <1>2, <1>3, <1>4, <1>5, <1>6 DEF Next, MainReceives, MainContinues

LEMMA Invariant == Spec => []IInv
BY InvariantInit, InvariantStep, PTL DEF Spec

\* Type correctness: every field and flag keeps the type that Java and C give
\* it, and callbacks of a service run only while the service lives.
THEOREM TypeCorrect == Spec => []TypeOK
<1>1. IInv => TypeOK
  BY DEF IInv
<1> QED
  BY <1>1, Invariant, PTL

\* However often the user connects and disconnects, and however often the
\* system destroys and creates the service, one instance of it never runs two
\* connections at a time (onReceive and the "finally" of run).
THEOREM OneThread == Spec => []OneThreadPerService
<1>1. IInv => OneThreadPerService
  BY DEF IInv
<1> QED
  BY <1>1, Invariant, PTL

-----------------------------------------------------------------------------
(***************************************************************************)
(* The configuration of a connection                                       *)
(***************************************************************************)
ConfigurationKept ==
  /\ UNCHANGED mConfiguration
  /\ \A u \in Threads : /\ Active(u)' => Active(u) /\ home'[u] = home[u]
                        /\ pc[u] = "done" => pc'[u] = "done" /\ home'[u] = home[u]

LEMMA KeptConfiguration ==
  OnlyThePastTakesConfiguration /\ ConfigurationKept
     => OnlyThePastTakesConfiguration'
BY DEF OnlyThePastTakesConfiguration, ConfigurationKept

LEMMA ConfigurationStep ==
  IInv /\ OnlyThePastTakesConfiguration /\ [Next]_vars
     => OnlyThePastTakesConfiguration'
<1> SUFFICES ASSUME IInv, OnlyThePastTakesConfiguration, [Next]_vars
             PROVE  OnlyThePastTakesConfiguration'
  OBVIOUS
<1>c. Crash => ConfigurationKept
  BY DEF Crash, ConfigurationKept, service, threads, Active
<1>1. CASE \/ ConnectRefused \/ ConnectNoConfiguration
           \/ ShutdownEnter \/ ShutdownTest \/ InterruptFlag
           \/ InterruptStop \/ OnDestroy \/ OnCreate \/ UNCHANGED vars
  <2>1. UNCHANGED << mConfiguration, pc, home >>
    BY <1>1 DEF ConnectRefused, ConnectNoConfiguration, ShutdownEnter,
       ShutdownTest, InterruptFlag, InterruptStop, OnDestroy, OnCreate, vars,
       StatusStep, service, threads
  <2> QED
    BY <2>1, KeptConfiguration DEF ConfigurationKept, Active
<1>2. CASE ShutdownAnnounce \/ ShutdownInterrupt
  <2>1. Crash \/ UNCHANGED << mConfiguration, pc, home >>
    BY <1>2 DEF ShutdownAnnounce, ShutdownInterrupt, StatusStep, service,
       threads
  <2> QED
    BY <2>1, <1>c, KeptConfiguration DEF ConfigurationKept, Active
<1>3. ASSUME NEW c \in Config \cup {Null}, ConnectSelect(c)
      PROVE  OnlyThePastTakesConfiguration'
  <2>1. /\ UNCHANGED << pc, home >> /\ mThread[inst] = Null /\ live
        /\ \A i \in Instances \ {inst} : mConfiguration'[i] = mConfiguration[i]
    BY <1>3 DEF ConnectSelect, Receive, threads, IInv, TypeOK
  <2>2. \A t \in Threads : Active(t) => home[t] # inst
    BY <2>1, NullIsNoThread DEF IInv, FieldIsThread
  <2> QED
    BY <2>1, <2>2 DEF OnlyThePastTakesConfiguration, Active, IInv, TypeOK
<1>4. CASE ConnectStart
  <2>1. pc[started + 1] = "none" /\ started + 1 \in Threads
    BY <1>4, ServiceAssumption DEF ConnectStart, At, IInv, TypeOK,
       TestedIsTrue, StartedInOrder, Threads
  <2>2. /\ UNCHANGED mConfiguration /\ mConfiguration[inst] # Null
        /\ home'[started + 1] = inst
        /\ \A u \in Threads \ {started + 1} :
              pc'[u] = pc[u] /\ home'[u] = home[u]
    BY <1>4, <2>1 DEF ConnectStart, IInv, TypeOK
  <2> QED
    BY <2>1, <2>2 DEF OnlyThePastTakesConfiguration, Active
<1>5. ASSUME NEW t \in Threads, ThreadContinues(t) \/ TunnelDies(t) \/ Dies(t)
      PROVE  OnlyThePastTakesConfiguration'
  <2> USE DEF Move, StatusStep, service, IInv, TypeOK, Active, ConfigurationKept
  <2>1. CASE Enter(t)
    BY <2>1, KeptConfiguration DEF Enter
  <2>2. CASE LookupFails(t)
    BY <2>2, KeptConfiguration DEF LookupFails
  <2>3. CASE Lookup(t)
    BY <2>3, KeptConfiguration DEF Lookup
  <2>4. CASE ConnectReset(t)
    BY <2>4, KeptConfiguration DEF ConnectReset
  <2>5. CASE ConnectInit(t)
    BY <2>5, KeptConfiguration DEF ConnectInit
  <2>6. CASE HandshakeSucceeds(t)
    BY <2>6, KeptConfiguration DEF HandshakeSucceeds
  <2>7. CASE HandshakeFails(t)
    BY <2>7, KeptConfiguration DEF HandshakeFails
  <2>8. CASE Connected(t)
    BY <2>8, KeptConfiguration DEF Connected
  <2>9. CASE EstablishFails(t)
    BY <2>9, KeptConfiguration DEF EstablishFails
  <2>10. CASE Establish(t)
    BY <2>10, KeptConfiguration DEF Establish
  <2>11. CASE TunnelEnds(t)
    BY <2>11, KeptConfiguration DEF TunnelEnds
  <2>12. CASE TunnelDies(t)
    BY <2>12, KeptConfiguration DEF TunnelDies
  <2>13. CASE CloseFails(t)
    BY <2>13, KeptConfiguration DEF CloseFails
  <2>14. CASE Closed(t)
    BY <2>14, KeptConfiguration DEF Closed
  <2>15. CASE Failed(t)
    BY <2>15, KeptConfiguration DEF Failed
  <2>16. CASE FinallyThread(t)
    BY <2>16, KeptConfiguration DEF FinallyThread
  <2>17. CASE FinallyConfiguration(t)
    <3>1. /\ UNCHANGED home /\ pc'[t] = "done" /\ pc[t] = "forget"
          /\ \A u \in Threads \ {t} : pc'[u] = pc[u]
          /\ \A i \in Instances \ {home[t]} :
                mConfiguration'[i] = mConfiguration[i]
      BY <2>17 DEF FinallyConfiguration
    <3> QED
      BY <3>1 DEF OnlyThePastTakesConfiguration
  <2>18. CASE NoConfiguration(t) \/ Dies(t)
    BY <2>18, <1>c, KeptConfiguration DEF NoConfiguration, Dies
  <2> QED
    BY <1>5, <2>1, <2>2, <2>3, <2>4, <2>5, <2>6, <2>7, <2>8, <2>9, <2>10,
       <2>11, <2>12, <2>13, <2>14, <2>15, <2>16, <2>17, <2>18
       DEF ThreadContinues
<1> QED
  BY <1>1, <1>2, <1>3, <1>4, <1>5 DEF Next, MainReceives, MainContinues

\* A connection loses its configuration, and the process dies of it, only
\* through the end of an earlier connection of the same service: the gap
\* between "mThread = null" and "mConfiguration = null" in the "finally" of
\* run() is the only one.
THEOREM OnlyThePast == Spec => []OnlyThePastTakesConfiguration
<1>1. Init => OnlyThePastTakesConfiguration
  BY DEF Init, OnlyThePastTakesConfiguration, Active
<1> QED
  BY <1>1, ConfigurationStep, Invariant, PTL DEF Spec

-----------------------------------------------------------------------------
(***************************************************************************)
(* The status                                                              *)
(***************************************************************************)
\* No status becomes "trying" or "connected", and who announced it is there.
StatusKept ==
  /\ \A i \in Instances :
        status'[i] \in {"CONNECT", "CONNECTED"} => status'[i] = status[i]
  /\ \A u \in Threads : Announced(u) => Announced(u)' /\ home'[u] = home[u]

LEMMA KeptStatus ==
  AnnouncedByThread /\ StatusKept => AnnouncedByThread'
BY DEF AnnouncedByThread, StatusKept

LEMMA StatusStepsSettle ==
  IInv /\ AnnouncedByThread /\ [Next]_vars => AnnouncedByThread'
<1> SUFFICES ASSUME IInv, AnnouncedByThread, [Next]_vars
             PROVE  AnnouncedByThread'
  OBVIOUS
<1>c. Crash => StatusKept
  BY DEF Crash, StatusKept, service, threads, Announced
<1>1. CASE \/ ShutdownTest \/ InterruptFlag
           \/ InterruptStop \/ OnDestroy \/ OnCreate \/ UNCHANGED vars
           \/ \E c \in Config \cup {Null} : ConnectSelect(c)
  <2>1. UNCHANGED << status, pc, home >>
    BY <1>1 DEF ConnectSelect, ShutdownTest, InterruptFlag, InterruptStop,
       OnDestroy, OnCreate, vars, service, threads
  <2> QED
    BY <2>1, KeptStatus DEF StatusKept, Announced
<1>2. CASE \/ ConnectRefused \/ ConnectNoConfiguration
           \/ ShutdownEnter \/ ShutdownAnnounce \/ ShutdownInterrupt
  <2>1. \/ Crash
        \/ /\ UNCHANGED << pc, home >>
           /\ \/ UNCHANGED status
              \/ \E s \in {"ERROR", "IDLE", "DISCONNECT"} : SetStatus(inst, s)
    BY <1>2 DEF ConnectRefused, ConnectNoConfiguration, ShutdownEnter,
       ShutdownAnnounce, ShutdownInterrupt, StatusStep, service, threads
  <2>2. CASE \E s \in {"ERROR", "IDLE", "DISCONNECT"} : SetStatus(inst, s)
             /\ UNCHANGED << pc, home >>
    BY <2>2, KeptStatus DEF SetStatus, StatusKept, Announced, IInv, TypeOK
  <2> QED
    BY <2>1, <2>2, <1>c, KeptStatus DEF StatusKept, Announced
<1>3. CASE ConnectStart
  <2>1. pc[started + 1] = "none" /\ started + 1 \in Threads
    BY <1>3, ServiceAssumption DEF ConnectStart, At, IInv, TypeOK,
       TestedIsTrue, StartedInOrder, Threads
  <2>2. /\ UNCHANGED status
        /\ \A u \in Threads \ {started + 1} :
              pc'[u] = pc[u] /\ home'[u] = home[u]
    BY <1>3, <2>1 DEF ConnectStart, IInv, TypeOK
  <2> QED
    BY <2>1, <2>2, KeptStatus DEF StatusKept, Announced
<1>4. ASSUME NEW t \in Threads, ThreadContinues(t) \/ TunnelDies(t) \/ Dies(t)
      PROVE  AnnouncedByThread'
  <2> USE DEF Move, StatusStep, SetStatus, service, IInv, TypeOK, Announced
  <2>1. CASE Enter(t)
    BY <2>1 DEF Enter, AnnouncedByThread
  <2>2. CASE LookupFails(t)
    BY <2>2 DEF LookupFails, AnnouncedByThread
  <2>3. CASE Lookup(t)
    BY <2>3, KeptStatus DEF Lookup, StatusKept
  <2>4. CASE ConnectReset(t)
    BY <2>4, KeptStatus DEF ConnectReset, StatusKept
  <2>5. CASE ConnectInit(t)
    BY <2>5, KeptStatus DEF ConnectInit, StatusKept
  <2>6. CASE HandshakeSucceeds(t)
    BY <2>6, KeptStatus DEF HandshakeSucceeds, StatusKept
  <2>7. CASE HandshakeFails(t)
    BY <2>7, KeptStatus DEF HandshakeFails, StatusKept
  <2>8. CASE Connected(t)
    BY <2>8 DEF Connected, AnnouncedByThread
  <2>9. CASE EstablishFails(t)
    BY <2>9, KeptStatus DEF EstablishFails, StatusKept
  <2>10. CASE Establish(t)
    BY <2>10 DEF Establish, AnnouncedByThread
  <2>11. CASE TunnelEnds(t)
    BY <2>11, KeptStatus DEF TunnelEnds, StatusKept
  <2>12. CASE TunnelDies(t)
    BY <2>12, KeptStatus DEF TunnelDies, StatusKept
  <2>13. CASE CloseFails(t)
    BY <2>13, KeptStatus DEF CloseFails, StatusKept
  <2>14. CASE Closed(t)
    BY <2>14 DEF Closed, AnnouncedByThread
  <2>15. CASE Failed(t)
    BY <2>15 DEF Failed, AnnouncedByThread
  <2>16. CASE FinallyThread(t)
    BY <2>16, KeptStatus DEF FinallyThread, StatusKept
  <2>17. CASE FinallyConfiguration(t)
    BY <2>17, KeptStatus DEF FinallyConfiguration, StatusKept
  <2>18. CASE NoConfiguration(t) \/ Dies(t)
    BY <2>18, <1>c, KeptStatus DEF NoConfiguration, Dies
  <2> QED
    BY <1>4, <2>1, <2>2, <2>3, <2>4, <2>5, <2>6, <2>7, <2>8, <2>9, <2>10,
       <2>11, <2>12, <2>13, <2>14, <2>15, <2>16, <2>17, <2>18
       DEF ThreadContinues
<1> QED
  BY <1>1, <1>2, <1>3, <1>4 DEF Next, MainReceives, MainContinues

\* Whatever ends a connection has announced it before the thread gives up its
\* field: no service without a connection says that it is connecting or
\* connected (setStatus in run()).
THEOREM StatusIsSettled == Spec => []StatusSettles
<1>1. Init => AnnouncedByThread
  BY DEF Init, AnnouncedByThread
<1>2. AnnouncedByThread => StatusSettles
  BY DEF AnnouncedByThread, StatusSettles, Announced, Active
<1> QED
  BY <1>1, <1>2, StatusStepsSettle, Invariant, PTL DEF Spec

=============================================================================
