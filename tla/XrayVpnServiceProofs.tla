------------------------- MODULE XrayVpnServiceProofs -------------------------
(***************************************************************************)
(* Proofs that XrayVpnService keeps its descriptors, cores and reports     *)
(* straight, for any number of sessions and any restart cap, as long as    *)
(* intents do not overlap a bring-up, a restart or a teardown.             *)
(***************************************************************************)
EXTENDS XrayVpnService, TLAPS

\* The main thread is in a handler exactly when it is in cleanup().
MainInv == main = "idle" <=> clean[Main] = "off"

\* One thread at a time: either one bring-up, or one cleanup(), which is a
\* failing bring-up's own if there is a bring-up at all.
OneInv ==
  /\ \A r, s \in Session : up[r] # "none" /\ up[s] # "none" => r = s
  /\ \A g, h \in Thread : clean[g] # "off" /\ clean[h] # "off" => g = h
  /\ \A s \in Session : clean[BringUpOf(s)] # "off" <=> up[s] = "failing"
  /\ \A s \in Session, h \in Thread :
       up[s] # "none" /\ clean[h] # "off" => h = BringUpOf(s)

\* Nothing is open, running or un-cancelled outside the session in `scope`, until
\* cleanup() has cancelled that.
ScopeInv ==
  /\ \A s \in Session : up[s] \notin {"none", "failing"} => scope = s
  /\ \A s \in Session : up[s] = "failing" /\ clean[BringUpOf(s)] = "cancel" => scope = s
  /\ \A s \in Session :
       poll[s] # None /\ s \notin stopped => scope = s /\ poll[s] = s /\ pollJob = s
  /\ \A s \in Session : up[s] # "none" => poll[s] = None
  /\ \A s \in Session :
       /\ clean[LoopOf(s)] = "cancel" => scope = s /\ poll[s] # None
       /\ clean[RestartOf(s)] = "cancel" => scope = s
  /\ \A h \in Thread : clean[h] \notin {"off", "cancel"} => scope = None
  /\ stopped \subseteq {s \in Session : poll[s] # None}

\* What the fields point at, at each stage of a session's life.
FieldInv ==
  /\ \A s \in Session : up[s] \in {"launched", "running"} => tunFd = None /\ controller = None
  /\ \A s \in Session : up[s] = "detached" => tunFd = s /\ controller = None /\ fd[s]
  /\ \A s \in Session : up[s] = "created" => tunFd = s /\ controller = s /\ fd[s] /\ ~core[s]
  /\ \A s \in Session : up[s] \in {"started", "announced"} => controller = s /\ core[s]
  /\ \A s \in Session : (fd[s] => tunFd = s) /\ (core[s] => controller = s)
  /\ \A s \in Session, h \in Thread :
       core[s] => fd[s] /\ clean[h] \in {"off", "cancel", "core"}
  /\ \A s \in Session, h \in Thread :
       fd[s] => clean[h] \in {"off", "cancel", "core", "field", "close"}
  /\ \A h \in Thread : clean[h] \in {"close", "unset", "done"} => controller = None
  /\ \A h \in Thread : clean[h] = "done" => tunFd = None
  /\ ~Busy => \/ scope = None /\ tunFd = None /\ controller = None
              \/ scope # None /\ core[scope]

\* What the UI and the tester were told.
ReportInv ==
  /\ reported = "none" =>
       /\ scope = None
       /\ \A s \in Session :
            poll[s] = None /\ up[s] = "none" /\ clean[RestartOf(s)] = "off"
  /\ \A s \in Session : up[s] = "announced" => reported = "CONNECTED" /\ isTunnelRunning
  /\ \A s \in Session : up[s] \in {"launched", "running", "detached", "created", "started"}
                          => ~isTunnelRunning
  /\ \A s \in Session : up[s] = "failing" => reported # "CONNECTED"
  /\ \A s \in Session : clean[LoopOf(s)] # "off" => reported # "CONNECTED"
  /\ main \in {"stop", "destroy"} => reported # "CONNECTED"
  /\ \A h \in Thread : clean[h] \notin {"off", "cancel"} => ~isTunnelRunning
  /\ ~Busy => IF scope = None THEN reported # "CONNECTED" /\ ~isTunnelRunning
                              ELSE reported = "CONNECTED" /\ isTunnelRunning

CalmInv == ~overlap => OneInv /\ ScopeInv /\ FieldInv /\ ReportInv

IInv == TypeOK /\ MainInv /\ CalmInv
-----------------------------------------------------------------------------
USE NoneAssumption, RestartsAssumption

\* The threads are the main thread and three for each session, all different.
LEMMA Threads ==
  /\ Main \in Thread
  /\ \A s \in Session :
       /\ BringUpOf(s) \in Thread /\ LoopOf(s) \in Thread /\ RestartOf(s) \in Thread
       /\ Main \notin {BringUpOf(s), LoopOf(s), RestartOf(s)}
  /\ \A r, s \in Session :
       /\ BringUpOf(r) # LoopOf(s) /\ BringUpOf(r) # RestartOf(s) /\ LoopOf(r) # RestartOf(s)
       /\ BringUpOf(r) = BringUpOf(s) => r = s
       /\ LoopOf(r) = LoopOf(s) => r = s
       /\ RestartOf(r) = RestartOf(s) => r = s
  /\ \A h \in Thread :
       h = Main \/ \E s \in Session : h \in {BringUpOf(s), LoopOf(s), RestartOf(s)}
  <1>1. Main \in Thread
    BY DEF Thread
  <1>2. ASSUME NEW s \in Session
        PROVE  BringUpOf(s) \in Thread /\ LoopOf(s) \in Thread /\ RestartOf(s) \in Thread
    BY DEF Thread, BringUpOf, LoopOf, RestartOf
  <1>3. ASSUME NEW s \in Session
        PROVE  Main \notin {BringUpOf(s), LoopOf(s), RestartOf(s)}
    BY DEF Main, BringUpOf, LoopOf, RestartOf
  <1>4. ASSUME NEW r \in Session, NEW s \in Session
        PROVE  /\ BringUpOf(r) # LoopOf(s) /\ BringUpOf(r) # RestartOf(s)
               /\ LoopOf(r) # RestartOf(s)
               /\ BringUpOf(r) = BringUpOf(s) => r = s
               /\ LoopOf(r) = LoopOf(s) => r = s
               /\ RestartOf(r) = RestartOf(s) => r = s
    BY DEF BringUpOf, LoopOf, RestartOf
  <1>5. ASSUME NEW h \in Thread
        PROVE  h = Main \/ \E s \in Session : h \in {BringUpOf(s), LoopOf(s), RestartOf(s)}
    BY DEF Thread, BringUpOf, LoopOf, RestartOf
  <1>6. QED
    BY <1>1, <1>2, <1>3, <1>4, <1>5

\* What a history that is still clean says about the step just taken.
LEMMA Calm ==
  ASSUME overlap \in BOOLEAN, NEW bad, Overlaps(bad)
  PROVE  overlap' \in BOOLEAN /\ (~overlap' => ~overlap /\ ~bad)
  BY Zenon DEF Overlaps

LEMMA InitIInv == Init => IInv
  <1> SUFFICES ASSUME Init PROVE IInv
    OBVIOUS
  <1> USE Threads DEF Init
  <1>1. TypeOK
    <2>1. clean \in [Thread -> {"off", "cancel", "core", "field", "close", "unset", "done"}]
      OBVIOUS
    <2>2. fd \in [Session -> BOOLEAN] /\ core \in [Session -> BOOLEAN]
      BY Zenon
    <2>3. isTunnelRunning \in BOOLEAN /\ overlap \in BOOLEAN
      BY Zenon
    <2>4. QED
      BY <2>1, <2>2, <2>3 DEF TypeOK, SessionOrNull
  <1>2. MainInv /\ OneInv /\ ScopeInv
    BY DEF MainInv, OneInv, ScopeInv
  <1>3. FieldInv /\ ReportInv
    BY DEF FieldInv, ReportInv
  <1>4. QED
    BY <1>1, <1>2, <1>3 DEF IInv, CalmInv

\* A loop that stalls while the history is clean finds nothing else in progress.
LEMMA StallsAlone ==
  ASSUME TypeOK, MainInv, OneInv, ScopeInv, main = "idle", NEW s \in Session,
         Polls(s), s \notin stopped, clean[RestartOf(s)] = "off"
  PROVE  /\ \A r \in Session : up[r] = "none"
         /\ \A h \in Thread : clean[h] = "off"
  <1>1. scope = s /\ poll[s] # None
    BY DEF Polls, ScopeInv
  <1>2. \A h \in Thread : clean[h] \in {"off", "cancel"}
    BY <1>1 DEF ScopeInv
  <1>3. ASSUME NEW r \in Session PROVE up[r] = "none"
    BY <1>1, <1>2, Threads DEF ScopeInv, OneInv
  <1>4. ASSUME NEW h \in Thread PROVE clean[h] = "off"
    <2>1. CASE h = Main
      BY <2>1 DEF MainInv
    <2>2. ASSUME NEW r \in Session, h \in {BringUpOf(r), LoopOf(r), RestartOf(r)}
          PROVE  clean[h] = "off"
      BY <1>1, <1>2, <1>3, <2>2, Threads DEF ScopeInv, OneInv, Polls
    <2>3. QED
      BY <2>1, <2>2, Threads
  <1>5. QED
    BY <1>3, <1>4

LEMMA NextIInv == IInv /\ [Next]_vars => IInv'
  <1> SUFFICES ASSUME IInv, [Next]_vars PROVE IInv'
    OBVIOUS
  <1> USE Threads DEF IInv, CalmInv, TypeOK, MainInv, SessionOrNull, Busy, OneInv,
              ScopeInv, FieldInv, ReportInv, fieldVars, loopVars, lifeVars
  <1>0. ASSUME NEW s \in Session, Dispatch(s) PROVE IInv'
    BY <1>0 DEF Dispatch, Moves
  <1>1. ASSUME NEW s \in Session, Refused(s) PROVE IInv'
    BY <1>1 DEF Refused, Moves, Fail, SendEvent, Enters
  <1>2. ASSUME NEW s \in Session, Detach(s) PROVE IInv'
    BY <1>2 DEF Detach, Moves
  <1>3. ASSUME NEW s \in Session, NewCoreController(s) PROVE IInv'
    BY <1>3 DEF NewCoreController, Moves
  <1>4. ASSUME NEW s \in Session, StartLoop(s) PROVE IInv'
    BY <1>4 DEF StartLoop, Moves
  <1>5. ASSUME NEW s \in Session, Throws(s) PROVE IInv'
    BY <1>5 DEF Throws, Fail, SendEvent, Enters
  <1>6. ASSUME NEW s \in Session, Announce(s) PROVE IInv'
    BY <1>6 DEF Announce, Moves, SendEvent
  <1>7. ASSUME NEW s \in Session, StartPolling(s) PROVE IInv'
    BY <1>7 DEF StartPolling, Moves
  <1>8. ASSUME NEW h \in Thread, Cancel(h) PROVE IInv'
    <2> USE <1>8 DEF Cancel, CleanStep
    <2>0. isTunnelRunning' \in BOOLEAN
      BY Zenon
    <2>1. TypeOK' /\ MainInv'
      BY <2>0
    <2>2. ~overlap' => OneInv'
      OBVIOUS
    <2>3. ~overlap' => ScopeInv'
      OBVIOUS
    <2>4. ~overlap' => FieldInv'
      OBVIOUS
    <2>5. ~overlap' => ReportInv'
      OBVIOUS
    <2>6. QED
      BY <2>1, <2>2, <2>3, <2>4, <2>5
  <1>9. ASSUME NEW h \in Thread, StopCore(h) PROVE IInv'
    BY <1>9 DEF StopCore, CleanStep
  <1>10. ASSUME NEW h \in Thread, DropController(h) PROVE IInv'
    BY <1>10 DEF DropController, CleanStep
  <1>11. ASSUME NEW h \in Thread, CloseFd(h) PROVE IInv'
    BY <1>11 DEF CloseFd, CleanStep
  <1>12. ASSUME NEW h \in Thread, UnsetFd(h) PROVE IInv'
    BY <1>12 DEF UnsetFd, CleanStep
  <1>13. ASSUME NEW s \in Session, Failed(s) PROVE IInv'
    <2>1. TypeOK' /\ MainInv'
      BY <1>13 DEF Failed, CleanStep, StopSelf
    <2>2. ~overlap' => OneInv'
      <3>1. CASE /\ CleanStep(BringUpOf(s), "done", "off")
                 /\ up' = [up EXCEPT ![s] = "none"]
        BY <1>13, <3>1 DEF Failed, CleanStep
      <3>2. CASE CleanStep(LoopOf(s), "done", "off") /\ UNCHANGED up
        BY <1>13, <3>2 DEF Failed, CleanStep
      <3>3. QED
        BY <1>13, <3>1, <3>2 DEF Failed
    <2>3. ~overlap' => ScopeInv'
      BY <1>13 DEF Failed, CleanStep, StopSelf
    <2>4. ~overlap' => FieldInv'
      BY <1>13 DEF Failed, CleanStep, StopSelf
    <2>5. ~overlap' => ReportInv'
      BY <1>13 DEF Failed, CleanStep, StopSelf
    <2>6. QED
      BY <2>1, <2>2, <2>3, <2>4, <2>5
  <1>14. ASSUME NEW s \in Session, Restarted(s) PROVE IInv'
    BY <1>14 DEF Restarted, CleanStep, BringUp, Fresh
  <1>15. ASSUME HandlerDone PROVE IInv'
    BY <1>15 DEF HandlerDone, CleanStep, StopSelf, SendEvent
  <1>16. ASSUME Start PROVE IInv'
    <2>1. overlap' \in BOOLEAN /\ (~overlap' => ~overlap /\ ~(Busy \/ scope # None))
      BY <1>16, Calm DEF Start
    <2>2. QED
      BY <1>16, <2>1 DEF Start, BringUp, Fresh
  <1>17. ASSUME Shutdown PROVE IInv'
    <2>1. overlap' \in BOOLEAN /\ (~overlap' => ~overlap /\ ~(Busy))
      BY <1>17, Calm DEF Shutdown, Handler
    <2>2. QED
      BY <1>17, <2>1 DEF Shutdown, Handler, SendEvent, Enters
  <1>18. ASSUME ForceStop PROVE IInv'
    <2>1. overlap' \in BOOLEAN /\ (~overlap' => ~overlap /\ ~(Busy))
      BY <1>18, Calm DEF ForceStop, Handler
    <2>2. QED
      BY <1>18, <2>1 DEF ForceStop, Handler, Enters
  <1>19. ASSUME OnDestroy PROVE IInv'
    <2>1. overlap' \in BOOLEAN /\ (~overlap' => ~overlap /\ ~(Busy))
      BY <1>19, Calm DEF OnDestroy, Handler
    <2>2. CASE controller # None \/ tunFd # None
      <3>1. Handler("destroy") /\ SendEvent("STOPPED")
        BY <1>19, <2>2 DEF OnDestroy
      <3>2. QED
        BY <2>1, <3>1 DEF Handler, SendEvent, Enters
    <2>3. CASE ~(controller # None \/ tunFd # None)
      BY <1>19, <2>1, <2>3 DEF OnDestroy
    <2>4. QED
      BY <2>2, <2>3
  <1>20. ASSUME NEW s \in Session, PollEnds(s) PROVE IInv'
    BY <1>20 DEF PollEnds, Polls
  <1>21. ASSUME NEW s \in Session, PollResets(s) PROVE IInv'
    BY <1>21 DEF PollResets, Polls
  <1>22. ASSUME NEW s \in Session, AutoRestart(s) PROVE IInv'
    <2>1. overlap' \in BOOLEAN /\ (~overlap' => ~overlap /\ ~(main # "idle"))
      BY <1>22, Calm DEF AutoRestart, Stalls
    <2>2. TypeOK' /\ MainInv'
      BY <1>22, <2>1 DEF AutoRestart, Stalls, Polls, Enters
    <2>3. ~overlap' => OneInv'
      <3>1. ~overlap' => /\ \A r \in Session : up[r] = "none"
                         /\ \A h \in Thread : clean[h] = "off"
        BY ONLY IInv, <1>22, <2>1, StallsAlone DEF IInv, CalmInv, AutoRestart, Stalls
      <3>2. QED
        BY <1>22, <2>1, <3>1 DEF AutoRestart, Stalls, Polls, Enters
    <2>4. ~overlap' => ScopeInv'
      BY <1>22, <2>1 DEF AutoRestart, Stalls, Polls, Enters
    <2>5. ~overlap' => FieldInv'
      BY <1>22, <2>1 DEF AutoRestart, Stalls, Polls, Enters
    <2>6. ~overlap' => ReportInv'
      BY <1>22, <2>1 DEF AutoRestart, Stalls, Polls, Enters
    <2>7. QED
      BY <2>2, <2>3, <2>4, <2>5, <2>6
  <1>23. ASSUME NEW s \in Session, GiveUp(s) PROVE IInv'
    <2>1. overlap' \in BOOLEAN /\ (~overlap' => ~overlap /\ ~(main # "idle"))
      BY <1>23, Calm DEF GiveUp, Stalls
    <2>2. TypeOK' /\ MainInv'
      BY <1>23, <2>1 DEF GiveUp, Stalls, Polls, Fail, SendEvent, Enters
    <2>3. ~overlap' => OneInv'
      <3>1. ~overlap' => /\ \A r \in Session : up[r] = "none"
                         /\ \A h \in Thread : clean[h] = "off"
        BY ONLY IInv, <1>23, <2>1, StallsAlone DEF IInv, CalmInv, GiveUp, Stalls
      <3>2. QED
        BY <1>23, <2>1, <3>1 DEF GiveUp, Stalls, Polls, Fail, SendEvent, Enters
    <2>4. ~overlap' => ScopeInv'
      BY <1>23, <2>1 DEF GiveUp, Stalls, Polls, Fail, SendEvent, Enters
    <2>5. ~overlap' => FieldInv'
      BY <1>23, <2>1 DEF GiveUp, Stalls, Polls, Fail, SendEvent, Enters
    <2>6. ~overlap' => ReportInv'
      BY <1>23, <2>1 DEF GiveUp, Stalls, Polls, Fail, SendEvent, Enters
    <2>7. QED
      BY <2>2, <2>3, <2>4, <2>5, <2>6
  <1>24. CASE UNCHANGED vars
    BY <1>24 DEF vars
  <1>25. ASSUME PathChanges PROVE IInv'
    BY <1>25 DEF PathChanges
  <1>26. QED
    BY ONLY [Next]_vars, <1>0, <1>1, <1>2, <1>3, <1>4, <1>5, <1>6, <1>7, <1>8, <1>9, <1>10, <1>11, <1>12, <1>13, <1>14, <1>15, <1>16, <1>17, <1>18, <1>19, <1>20, <1>21, <1>22, <1>23, <1>24, <1>25
    DEF Next, BringUpStep, LoopStep, CleanupStep, PollTraffic, PollIdle

\* IInv holds throughout.
THEOREM Invariance == Spec => []IInv
  <1>1. Init => IInv
    BY InitIInv
  <1>2. IInv /\ [Next]_vars => IInv'
    BY NextIInv
  <1>3. QED
    BY <1>1, <1>2, PTL DEF Spec

\* The types of the service's fields, with the restart counter within its cap.
THEOREM TypeCorrect == Spec => []TypeOK
  <1>1. IInv => TypeOK
    BY DEF IInv
  <1>2. QED
    BY <1>1, Invariance, PTL

\* cleanup() never closes a descriptor under a running core.
THEOREM CoreNeverLosesTun == Spec => []CoreHasTun
  <1>1. IInv => CoreHasTun
    BY Threads DEF IInv, CalmInv, FieldInv, CoreHasTun
  <1>2. QED
    BY <1>1, Invariance, PTL

\* Through connects, failures and automatic restarts nothing is leaked.
THEOREM NoLeak == Spec => []NothingLost
  <1>1. IInv => NothingLost
    BY DEF IInv, CalmInv, FieldInv, NothingLost
  <1>2. QED
    BY <1>1, Invariance, PTL

\* At rest, the events sent and isTunnelRunning tell the truth about the core.
THEOREM ReportsAreTrue == Spec => []UiAgrees
  <1>1. IInv => UiAgrees
    <2> SUFFICES ASSUME IInv, ~overlap, ~Busy
                 PROVE  LET serving == \E s \in Session : core[s]
                        IN (reported = "CONNECTED" <=> serving) /\ (isTunnelRunning <=> serving)
      BY DEF UiAgrees
    <2> USE DEF IInv, CalmInv, TypeOK, SessionOrNull
    <2>1. CASE scope = None
      <3>1. \A s \in Session : ~core[s]
        <4>1. controller = None
          BY <2>1 DEF FieldInv
        <4>2. QED
          BY <4>1 DEF FieldInv
      <3>2. reported # "CONNECTED" /\ ~isTunnelRunning
        BY <2>1 DEF ReportInv
      <3>3. QED
        BY <3>1, <3>2
    <2>2. CASE scope # None
      <3>1. scope \in Session /\ core[scope]
        BY <2>2 DEF FieldInv
      <3>2. reported = "CONNECTED" /\ isTunnelRunning
        BY <2>2 DEF ReportInv
      <3>3. QED
        BY <3>1, <3>2
    <2>3. QED
      BY <2>1, <2>2
  <1>2. QED
    BY <1>1, Invariance, PTL
=============================================================================
