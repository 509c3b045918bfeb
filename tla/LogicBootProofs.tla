---------------------------- MODULE LogicBootProofs ----------------------------
(***************************************************************************)
(* Proofs about LogicBoot for every number of robots and players and every *)
(* bound: its types, that the attempts to connect never multiply, that the *)
(* robots are loaded once, and that no robot is loaded without its links.  *)
(***************************************************************************)
EXTENDS LogicBoot, TLAPS


\* Robots are among the loaded objects, and no player is one.
LEMMA RobotsAreObjs == /\ Robots \subseteq Objs
                       /\ Players \subseteq Objs
                       /\ \A p \in Players : p \notin Robots
BY PlayersAssumption DEF Objs

\* What StartLoad returns.
LEMMA StartLoadType ==
    ASSUME TypeOK, NEW O
    PROVE  StartLoad(O) \in [Objs -> {"no", "ugame", "uinfo", "done", "failed",
                                      "silent", "noreply"}]
BY DEF TypeOK, StartLoad

\* The model's variables keep their types (TypeOK of LogicBoot).
THEOREM Types == Spec => []TypeOK
<1>1. Init => TypeOK
  <2> SUFFICES ASSUME Init PROVE TypeOK
    OBVIOUS
  <2>1. user_keys \subseteq Objs \X BOOLEAN
    <3>1. user_keys = Players \X {TRUE}
      BY DEF Init
    <3> QED BY <3>1, RobotsAreObjs
  <2>2. 0 \in 0 .. MaxFails /\ 0 \in 0 .. MaxLost
    BY BoundsAssumption
  <2> QED BY <2>1, <2>2 DEF Init, TypeOK
<1>2. TypeOK /\ [Next]_vars => TypeOK'
  <2> SUFFICES ASSUME TypeOK, [Next]_vars PROVE TypeOK'
    OBVIOUS
  <2> USE NumRobotsAssumption, BoundsAssumption
  <2>1. ASSUME NEW d \in Links, ConnectFailed(d) PROVE TypeOK'
    BY <2>1 DEF TypeOK, ConnectFailed, RetryTimer, chainVars, loadVars, redisVars
  <2>2. ASSUME NEW d \in Links, Connected(d) PROVE TypeOK'
    BY <2>2 DEF TypeOK, Connected, Jobs, chainVars, loadVars, redisVars
  <2>3. ASSUME NEW d \in Links, RetryFires(d) PROVE TypeOK'
    BY <2>3 DEF TypeOK, RetryFires, AfterFirst, chainVars, loadVars, redisVars
  <2>4. ASSUME NEW p \in Players, login_server_enter(p) PROVE TypeOK'
    BY <2>4, StartLoadType DEF TypeOK, login_server_enter, linkVars, chainVars, redisVars
  <2>5. ASSUME NEW o \in Objs, LoadStep(o) PROVE TypeOK'
    <3>1. CASE UgameRead(o)
      BY <3>1 DEF TypeOK, UgameRead, HasRedis, Jobs, linkVars, chainVars, redisVars
    <3>2. CASE UgameFailed(o)
      BY <3>2 DEF TypeOK, UgameFailed, linkVars, chainVars, redisVars
    <3>3. CASE UinfoRead(o)
      BY <3>3 DEF TypeOK, UinfoRead, linkVars, chainVars, redisVars
    <3>4. CASE UinfoNoReply(o)
      BY <3>4 DEF TypeOK, UinfoNoReply, linkVars, chainVars, redisVars
    <3> QED BY <2>5, <3>1, <3>2, <3>3, <3>4 DEF LoadStep
  <2>6. CASE ExecuteSelect
    BY <2>6 DEF TypeOK, ExecuteSelect, linkVars, chainVars, loadVars
  <2>7. CASE load_robots
    BY <2>7 DEF TypeOK, load_robots, PollAgain, AfterFirst, linkVars, loadVars, redisVars
  <2>8. CASE RobotsRead
    <3>1. 1 \in Robots
      BY DEF Robots
    <3>2. jobs' \subseteq Jobs
      BY <2>8 DEF TypeOK, RobotsRead, Jobs
    <3> QED
      BY <2>8, <3>1, <3>2 DEF TypeOK, RobotsRead, linkVars, loadVars, redisVars
  <2>9. CASE RobotsFailed
    BY <2>9 DEF TypeOK, RobotsFailed, linkVars, loadVars, redisVars
  <2>10. ASSUME NEW r \in Robots, ExecuteHmset(r) PROVE TypeOK'
    <3>1. user_keys' \subseteq Objs \X BOOLEAN
      <4>1. <<r, selected>> \in Objs \X BOOLEAN
        BY RobotsAreObjs DEF TypeOK
      <4> QED BY <2>10, <4>1 DEF TypeOK, ExecuteHmset
    <3> QED
      BY <2>10, <3>1 DEF TypeOK, ExecuteHmset, linkVars, chainVars, loadVars
  <2>11. ASSUME NEW r \in Robots, ExecuteUgame(r) PROVE TypeOK'
    BY <2>11 DEF TypeOK, ExecuteUgame, linkVars, chainVars, loadVars
  <2>12. ASSUME NEW r \in Robots, ProfileRead(r) PROVE TypeOK'
    <3>1. ~LastRobot(r) => NextRobot(r) \in Robots
      BY DEF LastRobot, NextRobot, Robots
    <3>2. jobs' \subseteq Jobs
      BY <2>12, RobotsAreObjs DEF TypeOK, ProfileRead, Jobs
    <3>3. profiles' \in [Robots -> Nat]
      BY <2>12, <3>1 DEF TypeOK, ProfileRead
    <3>4. loaded' = loaded \/ loaded' = StartLoad(Robots)
      BY <2>12 DEF ProfileRead
    <3> QED
      BY <2>12, <3>2, <3>3, <3>4, StartLoadType
      DEF TypeOK, ProfileRead, linkVars, redisVars
  <2>13. ASSUME NEW r \in Robots, ProfileFailed(r) PROVE TypeOK'
    BY <2>13 DEF TypeOK, ProfileFailed, linkVars, loadVars, redisVars
  <2>14. CASE UNCHANGED vars
    BY <2>14 DEF TypeOK, vars, linkVars, chainVars, loadVars, redisVars
  <2> QED
    BY <2>1, <2>2, <2>3, <2>4, <2>5, <2>6, <2>7, <2>8, <2>9, <2>10, <2>11, <2>12,
       <2>13, <2>14 DEF Next, RobotStep
<1> QED
  BY <1>1, <1>2, PTL DEF Spec

------------------------------------------------------------------------------
\* Only the three actions of a link touch its attempts, timers and connection.
LEMMA LinkActions ==
    ASSUME [Next]_vars
    PROVE  \/ \E d \in Links : ConnectFailed(d) \/ Connected(d) \/ RetryFires(d)
           \/ UNCHANGED <<conn, attempts, timers>>
BY DEF Next, RobotStep, LoadStep, vars, linkVars, login_server_enter, UgameRead,
       UgameFailed, UinfoRead, UinfoNoReply, ExecuteSelect, load_robots, RobotsRead,
       RobotsFailed, ExecuteHmset, ExecuteUgame, ProfileRead, ProfileFailed

\* A link is never connected or being connected twice (OneAttempt), however
\* often its attempts fail.
THEOREM AttemptsDoNotMultiply == Spec => []OneAttempt
<1>1. Init => OneAttempt
  BY DEF Init, OneAttempt
<1>2. TypeOK /\ OneAttempt /\ [Next]_vars => OneAttempt'
  <2> SUFFICES ASSUME TypeOK, OneAttempt, [Next]_vars PROVE OneAttempt'
    OBVIOUS
  <2>1. ASSUME NEW d \in Links, ConnectFailed(d) PROVE OneAttempt'
    BY <2>1 DEF TypeOK, OneAttempt, ConnectFailed, RetryTimer
  <2>2. ASSUME NEW d \in Links, Connected(d) PROVE OneAttempt'
    BY <2>2 DEF TypeOK, OneAttempt, Connected
  <2>3. ASSUME NEW d \in Links, RetryFires(d) PROVE OneAttempt'
    BY <2>3 DEF TypeOK, OneAttempt, RetryFires, AfterFirst
  <2>4. CASE UNCHANGED <<conn, attempts, timers>>
    BY <2>4 DEF OneAttempt
  <2> QED BY <2>1, <2>2, <2>3, <2>4, LinkActions
<1> QED
  BY <1>1, <1>2, Types, PTL DEF Spec

------------------------------------------------------------------------------
\* Only the timer of load_robots and the callbacks of its chain touch the chain.
LEMMA ChainActions ==
    ASSUME [Next]_vars
    PROVE  \/ load_robots \/ RobotsRead \/ RobotsFailed
           \/ \E r \in Robots : ProfileRead(r) \/ ProfileFailed(r)
           \/ UNCHANGED chainVars
BY DEF Next, RobotStep, LoadStep, vars, login_server_enter, UgameRead, UgameFailed,
       UinfoRead, UinfoNoReply, ExecuteSelect, ExecuteHmset, ExecuteUgame,
       ConnectFailed, Connected, RetryFires

\* One query of the chain is under way and nothing else is.
LEMMA OneRunning ==
    ASSUME NEW r, polls' + asking' + made' = 0,
           profiles' = [q \in Robots |-> IF q = r THEN 1 ELSE 0]
    PROVE  LoadedOnce'
<1>1. \A q \in Robots : profiles'[q] = IF q = r THEN 1 ELSE 0
  OBVIOUS
<1>2. \A q \in Robots : polls' + asking' + made' + profiles'[q] <= 1
  BY <1>1
<1> QED BY <1>1, <1>2 DEF LoadedOnce

\* The robots are loaded once (LoadedOnce): a poll is armed, or one chain of
\* queries runs, or the robots are made.
THEOREM RobotsLoadedOnce == Spec => []LoadedOnce
<1>1. Init => LoadedOnce
  BY DEF Init, LoadedOnce
<1>2. TypeOK /\ LoadedOnce /\ [Next]_vars => LoadedOnce'
  <2> SUFFICES ASSUME TypeOK, LoadedOnce, [Next]_vars PROVE LoadedOnce'
    OBVIOUS
  <2> USE NumRobotsAssumption
  <2>1. CASE load_robots
    BY <2>1 DEF TypeOK, LoadedOnce, load_robots, AfterFirst, PollAgain
  <2>2. CASE RobotsRead
    <3>1. 1 \in Robots
      BY DEF Robots
    <3>2. /\ polls = 0 /\ asking = 1 /\ made = 0
          /\ \A q \in Robots : profiles[q] = 0
      <4>1. polls = 0 /\ asking = 1 /\ made = 0
        BY <2>2 DEF TypeOK, LoadedOnce, RobotsRead
      <4>2. \A q \in Robots : polls + asking + made + profiles[q] <= 1 /\ profiles[q] \in Nat
        BY DEF TypeOK, LoadedOnce
      <4> QED BY <4>1, <4>2
    <3>3. profiles' = [q \in Robots |-> IF q = 1 THEN 1 ELSE 0]
      <4>1. profiles \in [Robots -> Nat] /\ profiles[1] = 0
        BY <3>1, <3>2 DEF TypeOK
      <4>2. profiles' = [profiles EXCEPT ![1] = 1]
        BY <2>2, <4>1 DEF RobotsRead
      <4> QED BY <3>2, <4>1, <4>2
    <3>4. polls' + asking' + made' = 0
      BY <2>2, <3>2 DEF RobotsRead
    <3> QED BY <3>3, <3>4, OneRunning
  <2>3. CASE RobotsFailed
    BY <2>3 DEF TypeOK, LoadedOnce, RobotsFailed
  <2>4. ASSUME NEW r \in Robots, ProfileRead(r) PROVE LoadedOnce'
    <3>1. /\ polls + asking + made = 0
          /\ profiles[r] = 1
          /\ \A q \in Robots : q # r => profiles[q] = 0
      BY <2>4 DEF TypeOK, LoadedOnce, ProfileRead
    <3>2. CASE LastRobot(r)
      BY <2>4, <3>1, <3>2 DEF TypeOK, LoadedOnce, ProfileRead
    <3>3. CASE ~LastRobot(r)
      <4>1. NextRobot(r) \in Robots /\ NextRobot(r) # r
        BY <3>3 DEF LastRobot, NextRobot, Robots
      <4>2. profiles' = [q \in Robots |-> IF q = NextRobot(r) THEN 1 ELSE 0]
        BY <2>4, <3>1, <3>3, <4>1 DEF TypeOK, ProfileRead
      <4>3. polls' + asking' + made' = 0
        BY <2>4, <3>1, <3>3 DEF ProfileRead
      <4> QED BY <4>2, <4>3, OneRunning
    <3> QED BY <3>2, <3>3
  <2>5. ASSUME NEW r \in Robots, ProfileFailed(r) PROVE LoadedOnce'
    BY <2>5 DEF TypeOK, LoadedOnce, ProfileFailed
  <2>6. CASE UNCHANGED chainVars
    BY <2>6 DEF LoadedOnce, chainVars
  <2> QED BY <2>1, <2>2, <2>3, <2>4, <2>5, <2>6, ChainActions
<1> QED
  BY <1>1, <1>2, Types, PTL DEF Spec

------------------------------------------------------------------------------
\* The inductive form of RobotNeverSilent: whatever load_robots has started finds
\* its links, and a link that is connected stays so.
Gated ==
    /\ (asking > 0 \/ made > 0 \/ \E r \in Robots : profiles[r] > 0) => AllConnected
    /\ \A r \in Robots : loaded[r] # "no" => AllConnected
    /\ \A r \in Robots : <<"hgetall", r>> \in jobs => AllConnected
    /\ RobotNeverSilent

\* A connected link stays connected.
LEMMA ConnectedStays ==
    ASSUME TypeOK, [Next]_vars
    PROVE  AllConnected => AllConnected'
BY LinkActions DEF TypeOK, AllConnected, ConnectFailed, Connected, RetryFires

\* What a step does to the loading of a robot: it starts when the chain ends,
\* and then only its own callbacks change it.
LEMMA RobotLoading ==
    ASSUME TypeOK, [Next]_vars, NEW r \in Robots, loaded'[r] # loaded[r]
    PROVE  \/ UgameRead(r) \/ UgameFailed(r) \/ UinfoRead(r) \/ UinfoNoReply(r)
           \/ \E q \in Robots : ProfileRead(q) /\ loaded' = StartLoad(Robots)
<1>1. ASSUME NEW p \in Players, login_server_enter(p) PROVE FALSE
  BY <1>1, RobotsAreObjs DEF TypeOK, login_server_enter, StartLoad
<1>2. ASSUME NEW o \in Objs, LoadStep(o) PROVE o = r
  BY <1>2, RobotsAreObjs DEF TypeOK, LoadStep, UgameRead, UgameFailed, UinfoRead, UinfoNoReply
<1>3. ASSUME NEW q \in Robots, ProfileRead(q) PROVE loaded' = StartLoad(Robots)
  BY <1>3 DEF ProfileRead
<1> QED
  BY <1>1, <1>2, <1>3
  DEF Next, RobotStep, LoadStep, vars, loadVars, ExecuteSelect, ExecuteHmset,
      ExecuteUgame, ConnectFailed, Connected, RetryFires, load_robots, RobotsRead,
      RobotsFailed, ProfileFailed

\* A profile is asked for by UgameRead only.
LEMMA NewRead ==
    ASSUME [Next]_vars, NEW r \in Robots, <<"hgetall", r>> \in jobs',
           <<"hgetall", r>> \notin jobs
    PROVE  UgameRead(r)
<1>1. ASSUME NEW o \in Objs, LoadStep(o) PROVE UgameRead(r)
  BY <1>1 DEF LoadStep, UgameRead, UgameFailed, UinfoRead, UinfoNoReply
<1>2. ASSUME NEW d \in Links, ConnectFailed(d) \/ Connected(d) \/ RetryFires(d)
      PROVE  FALSE
  BY <1>2 DEF ConnectFailed, Connected, RetryFires
<1>3. ASSUME NEW q \in Robots,
             ExecuteHmset(q) \/ ExecuteUgame(q) \/ ProfileRead(q) \/ ProfileFailed(q)
      PROVE  FALSE
  BY <1>3 DEF ExecuteHmset, ExecuteUgame, ProfileRead, ProfileFailed
<1>4. ~(ExecuteSelect \/ load_robots \/ RobotsRead \/ RobotsFailed)
  BY DEF ExecuteSelect, load_robots, RobotsRead, RobotsFailed
<1>5. ASSUME NEW p \in Players, login_server_enter(p) PROVE FALSE
  BY <1>5 DEF login_server_enter
<1> QED
  BY <1>1, <1>2, <1>3, <1>4, <1>5 DEF Next, RobotStep, vars

\* A failed query is never forgotten.
LEMMA LostGrows ==
    ASSUME TypeOK, [Next]_vars
    PROVE  lost' >= lost /\ lost \in Nat
<1>1. lost \in Nat
  BY BoundsAssumption DEF TypeOK
<1>2. ASSUME NEW o \in Objs, LoadStep(o) PROVE lost' \in {lost, lost + 1}
  BY <1>2 DEF LoadStep, UgameRead, UgameFailed, UinfoRead, UinfoNoReply
<1>3. ASSUME NEW d \in Links, ConnectFailed(d) \/ Connected(d) \/ RetryFires(d)
      PROVE  lost' = lost
  BY <1>3 DEF ConnectFailed, Connected, RetryFires
<1>4. ASSUME NEW r \in Robots,
             ExecuteHmset(r) \/ ExecuteUgame(r) \/ ProfileRead(r) \/ ProfileFailed(r)
      PROVE  lost' \in {lost, lost + 1}
  BY <1>4 DEF ExecuteHmset, ExecuteUgame, ProfileRead, ProfileFailed
<1>5. ASSUME ExecuteSelect \/ load_robots \/ RobotsRead \/ RobotsFailed
      PROVE  lost' \in {lost, lost + 1}
  BY <1>5 DEF ExecuteSelect, load_robots, RobotsRead, RobotsFailed
<1>6. ASSUME NEW p \in Players, login_server_enter(p) PROVE lost' = lost
  BY <1>6 DEF login_server_enter
<1>7. lost' \in {lost, lost + 1}
  BY <1>2, <1>3, <1>4, <1>5, <1>6 DEF Next, RobotStep, vars
<1> QED
  BY <1>1, <1>7

LEMMA LinksGated == Spec => []Gated
<1>1. Init => Gated
  BY RobotsAreObjs DEF Init, Gated, RobotNeverSilent
<1>2. TypeOK /\ Gated /\ [Next]_vars => Gated'
  <2> SUFFICES ASSUME TypeOK, Gated, [Next]_vars PROVE Gated'
    OBVIOUS
  <2>1. AllConnected => AllConnected'
    BY ConnectedStays
  <2>2. ((asking > 0 \/ made > 0 \/ \E r \in Robots : profiles[r] > 0) => AllConnected)'
    <3>1. CASE load_robots
      BY <2>1, <3>1 DEF TypeOK, Gated, load_robots
    <3>2. CASE RobotsRead
      BY <2>1, <3>2 DEF Gated, RobotsRead
    <3>3. CASE RobotsFailed
      BY <2>1, <3>3 DEF TypeOK, Gated, RobotsFailed
    <3>4. ASSUME NEW r \in Robots, ProfileRead(r) \/ ProfileFailed(r)
          PROVE  AllConnected'
      BY <2>1, <3>4 DEF Gated, ProfileRead, ProfileFailed
    <3>5. CASE UNCHANGED chainVars
      BY <2>1, <3>5 DEF Gated, chainVars
    <3> QED BY <3>1, <3>2, <3>3, <3>4, <3>5, ChainActions
  <2>3. ASSUME NEW r \in Robots, loaded'[r] # "no" PROVE AllConnected'
    <3>1. CASE loaded'[r] = loaded[r]
      BY <2>1, <2>3, <3>1 DEF Gated
    <3>2. CASE loaded'[r] # loaded[r]
      <4>1. CASE LoadStep(r)
        BY <2>1, <4>1 DEF Gated, LoadStep, UgameRead, UgameFailed, UinfoRead, UinfoNoReply
      <4>2. ASSUME NEW q \in Robots, ProfileRead(q) PROVE AllConnected'
        BY <2>1, <4>2 DEF Gated, ProfileRead
      <4> QED BY <3>2, <4>1, <4>2, RobotLoading DEF LoadStep
    <3> QED BY <3>1, <3>2
  <2>4. ASSUME NEW r \in Robots, <<"hgetall", r>> \in jobs' PROVE AllConnected'
    <3>1. CASE <<"hgetall", r>> \in jobs
      BY <2>1, <3>1 DEF Gated
    <3>2. CASE <<"hgetall", r>> \notin jobs
      BY <2>1, <2>4, <3>2, NewRead DEF Gated, UgameRead
    <3> QED BY <3>1, <3>2
  <2>5. ASSUME lost' = 0, NEW r \in Robots PROVE loaded'[r] \notin {"failed", "silent"}
    <3>1. lost = 0 /\ loaded[r] \notin {"failed", "silent"}
      BY <2>5, LostGrows DEF Gated, RobotNeverSilent
    <3>2. CASE loaded'[r] = loaded[r]
      BY <3>1, <3>2
    <3>3. CASE UgameRead(r)
      BY <3>1, <3>3, RobotsAreObjs
      DEF TypeOK, Gated, AllConnected, Links, HasRedis, UgameRead
    <3>4. CASE UgameFailed(r)
      BY <2>5, <3>1, <3>4 DEF UgameFailed
    <3>5. CASE UinfoRead(r) \/ UinfoNoReply(r)
      BY <3>5, RobotsAreObjs DEF TypeOK, UinfoRead, UinfoNoReply
    <3>6. ASSUME NEW q \in Robots, ProfileRead(q), loaded' = StartLoad(Robots)
          PROVE  loaded'[r] \notin {"failed", "silent"}
      <4>1. conn["mysql_game"]
        BY <3>6 DEF Gated, ProfileRead, AllConnected, Links
      <4> QED BY <3>6, <4>1, RobotsAreObjs DEF StartLoad
    <3> QED BY <3>2, <3>3, <3>4, <3>5, <3>6, RobotLoading
  <2> QED BY <2>2, <2>3, <2>4, <2>5 DEF Gated, RobotNeverSilent
<1> QED
  BY <1>1, <1>2, Types, PTL DEF Spec

\* No robot fails or falls silent for want of a link (RobotNeverSilent).
THEOREM RobotsFindTheirLinks == Spec => []RobotNeverSilent
<1>1. Gated => RobotNeverSilent
  BY DEF Gated
<1> QED
  BY <1>1, LinksGated, PTL

------------------------------------------------------------------------------
(* What starts is not left: the invariants the liveness properties rest on *)

\* A link is connected, or an attempt or the timer of the next one is under way;
\* mysql_center, whose retry arms no timer, may be given up after a failure.
NeverGivenUp ==
    \A d \in Links :
        \/ attempts[d] + timers[d] + (IF conn[d] THEN 1 ELSE 0) = 1
        \/ d = "mysql_center" /\ fails[d] > 0

\* No link but mysql_center is ever given up (RetriedLinksConnect rests on it):
\* in every state it is connected, or its callback or its retry timer will come.
THEOREM LinksNeverGivenUp == Spec => []NeverGivenUp
<1>1. Init => NeverGivenUp
  BY DEF Init, NeverGivenUp
<1>2. TypeOK /\ OneAttempt /\ NeverGivenUp /\ [Next]_vars => NeverGivenUp'
  <2> SUFFICES ASSUME TypeOK, OneAttempt, NeverGivenUp, [Next]_vars,
                      NEW d \in Links,
                      ~(attempts'[d] + timers'[d] + (IF conn'[d] THEN 1 ELSE 0) = 1)
               PROVE  d = "mysql_center" /\ fails'[d] > 0
    BY DEF NeverGivenUp
  <2>1. fails[d] \in Nat /\ fails \in [Links -> 0 .. MaxFails]
    BY BoundsAssumption DEF TypeOK
  <2>2. ASSUME NEW e \in Links, ConnectFailed(e)
        PROVE  d = "mysql_center" /\ fails'[d] > 0
    <3>1. fails'[e] = fails[e] + 1 /\ \A f \in Links : f # e => fails'[f] = fails[f]
      BY <2>1, <2>2 DEF ConnectFailed
    <3>2. CASE e = d
      <4>0. /\ attempts[d] \in Nat /\ timers[d] \in Nat /\ attempts[d] > 0
            /\ attempts[d] + timers[d] + (IF conn[d] THEN 1 ELSE 0) <= 1
        BY <2>2, <3>2 DEF TypeOK, OneAttempt, ConnectFailed
      <4>1. attempts[d] = 1 /\ timers[d] = 0 /\ ~conn[d]
        <5>1. CASE conn[d]
          BY <4>0, <5>1
        <5>2. CASE ~conn[d]
          BY <4>0, <5>2
        <5> QED
          BY <5>1, <5>2
      <4>2. attempts'[d] = 0 /\ ~conn'[d] /\ timers'[d] = RetryTimer(d)
        BY <2>2, <3>2, <4>1 DEF TypeOK, ConnectFailed
      <4>3. d = "mysql_center"
        BY <4>1, <4>2 DEF RetryTimer
      <4> QED
        BY <2>1, <3>1, <3>2, <4>3
    <3>3. CASE e # d
      <4>1. attempts'[d] = attempts[d] /\ timers'[d] = timers[d] /\ conn'[d] = conn[d]
        BY <2>2, <3>3 DEF TypeOK, ConnectFailed
      <4> QED
        BY <3>1, <3>3, <4>1 DEF NeverGivenUp
    <3> QED
      BY <3>2, <3>3
  <2>3. ASSUME NEW e \in Links, Connected(e)
        PROVE  d = "mysql_center" /\ fails'[d] > 0
    <3>1. fails' = fails
      BY <2>3 DEF Connected
    <3>2. CASE e = d
      BY <2>3, <3>2 DEF TypeOK, OneAttempt, Connected
    <3>3. CASE e # d
      BY <2>3, <3>1, <3>3 DEF TypeOK, NeverGivenUp, Connected
    <3> QED
      BY <3>2, <3>3
  <2>4. ASSUME NEW e \in Links, RetryFires(e)
        PROVE  d = "mysql_center" /\ fails'[d] > 0
    <3>1. fails' = fails
      BY <2>4 DEF RetryFires
    <3>2. CASE e = d
      BY <2>4, <3>2 DEF TypeOK, OneAttempt, RetryFires, AfterFirst
    <3>3. CASE e # d
      BY <2>4, <3>1, <3>3 DEF TypeOK, NeverGivenUp, RetryFires
    <3> QED
      BY <3>2, <3>3
  <2>5. CASE UNCHANGED <<conn, attempts, timers, fails>>
    BY <2>5 DEF NeverGivenUp
  <2>6. \/ \E e \in Links : ConnectFailed(e) \/ Connected(e) \/ RetryFires(e)
        \/ UNCHANGED <<conn, attempts, timers, fails>>
    BY DEF Next, RobotStep, LoadStep, vars, linkVars, login_server_enter, UgameRead,
           UgameFailed, UinfoRead, UinfoNoReply, ExecuteSelect, load_robots, RobotsRead,
           RobotsFailed, ExecuteHmset, ExecuteUgame, ProfileRead, ProfileFailed
  <2> QED
    BY <2>2, <2>3, <2>4, <2>5, <2>6
<1> QED
  BY <1>1, <1>2, Types, AttemptsDoNotMultiply, PTL DEF Spec

\* As long as no query failed, the poll is armed, or a query of the chain is
\* under way, or the robots are made.
ChainRuns ==
    lost = 0 => polls + asking + made = 1 \/ \E r \in Robots : profiles[r] = 1

\* load_robots and its chain of queries never stop before the robots are made,
\* unless a query fails: whenever a link connects and however many robots there
\* are, the next callback is on its way.
THEOREM ChainNeverStops == Spec => []ChainRuns
<1>1. Init => ChainRuns
  BY DEF Init, ChainRuns
<1>2. TypeOK /\ Gated /\ LoadedOnce /\ ChainRuns /\ [Next]_vars => ChainRuns'
  <2> SUFFICES ASSUME TypeOK, Gated, LoadedOnce, ChainRuns, [Next]_vars, lost' = 0
               PROVE  polls' + asking' + made' = 1 \/ \E r \in Robots : profiles'[r] = 1
    BY DEF ChainRuns
  <2> USE NumRobotsAssumption
  <2>0. lost = 0
    BY LostGrows
  <2>1. CASE load_robots
    <3>1. polls = 1 /\ asking = 0 /\ made = 0
      BY <2>1 DEF TypeOK, LoadedOnce, load_robots
    <3>2. /\ made' = 0
          /\ \/ asking' = 1 /\ polls' = 0
             \/ asking' = 0 /\ polls' = 1
      BY <2>1, <3>1 DEF load_robots, AfterFirst, PollAgain
    <3>3. polls' + asking' + made' = 1
      BY <3>2
    <3> QED
      BY <3>3
  <2>2. CASE RobotsRead
    <3>1. 1 \in Robots
      BY DEF Robots
    <3>2. profiles[1] = 0
      BY <2>2, <3>1 DEF TypeOK, LoadedOnce, RobotsRead
    <3>3. profiles'[1] = 1
      BY <2>2, <3>1, <3>2 DEF TypeOK, RobotsRead
    <3> QED
      BY <3>1, <3>3
  <2>3. CASE RobotsFailed
    BY <2>0, <2>3 DEF Gated, AllConnected, Links, RobotsFailed
  <2>4. ASSUME NEW r \in Robots, ProfileRead(r)
        PROVE  polls' + asking' + made' = 1 \/ \E q \in Robots : profiles'[q] = 1
    <3>1. polls + asking + made = 0 /\ \A q \in Robots : q # r => profiles[q] = 0
      BY <2>4 DEF TypeOK, LoadedOnce, ProfileRead
    <3>2. CASE LastRobot(r)
      BY <2>4, <3>1, <3>2 DEF TypeOK, ProfileRead
    <3>3. CASE ~LastRobot(r)
      <4>1. NextRobot(r) \in Robots /\ NextRobot(r) # r
        BY <3>3 DEF LastRobot, NextRobot, Robots
      <4>2. profiles'[NextRobot(r)] = 1
        BY <2>4, <3>1, <3>3, <4>1 DEF TypeOK, ProfileRead
      <4> QED
        BY <4>1, <4>2
    <3> QED
      BY <3>2, <3>3
  <2>5. ASSUME NEW r \in Robots, ProfileFailed(r) PROVE FALSE
    BY <2>0, <2>5 DEF Gated, AllConnected, Links, ProfileFailed
  <2>6. CASE UNCHANGED chainVars
    BY <2>0, <2>6 DEF ChainRuns, chainVars
  <2> QED
    BY <2>1, <2>2, <2>3, <2>4, <2>5, <2>6, ChainActions
<1> QED
  BY <1>1, <1>2, Types, LinksGated, RobotsLoadedOnce, PTL DEF Spec

\* Who waits for its profile has its query queued, and nobody else has; who has
\* got one has ended player:init.
LoadsQueued ==
    \A o \in Objs : /\ loaded[o] = "uinfo" <=> <<"hgetall", o>> \in jobs
                    /\ uinfo[o] # "none" <=> loaded[o] = "done"

\* No robot is loaded before it is made.
NotLoadedBefore == made = 0 => \A r \in Robots : loaded[r] = "no"

\* An object whose player:init waits for Redis has exactly its query queued there
\* (LoginCalledBack rests on it), and a profile only ends a player:init that asked
\* for it: no profile comes late to an object that has failed or was made anew.
THEOREM WhoLoadsHasAQuery == Spec => []LoadsQueued
<1>1. Init => LoadsQueued /\ NotLoadedBefore
  BY RobotsAreObjs DEF Init, LoadsQueued, NotLoadedBefore
<1>2. TypeOK /\ LoadedOnce /\ NotLoadedBefore /\ LoadsQueued /\ [Next]_vars
         => LoadsQueued' /\ NotLoadedBefore'
  <2> SUFFICES ASSUME TypeOK, LoadedOnce, NotLoadedBefore, LoadsQueued, [Next]_vars
               PROVE  LoadsQueued' /\ NotLoadedBefore'
    OBVIOUS
  <2>1. CASE /\ UNCHANGED <<loaded, uinfo, made>>
             /\ \A o \in Objs : <<"hgetall", o>> \in jobs' <=> <<"hgetall", o>> \in jobs
    BY <2>1 DEF LoadsQueued, NotLoadedBefore
  <2>2. ASSUME NEW p \in Players, login_server_enter(p)
        PROVE  LoadsQueued' /\ NotLoadedBefore'
    <3>1. loaded[p] = "no" /\ loaded'[p] \in {"ugame", "failed"} /\ p \in Objs
      BY <2>2, RobotsAreObjs DEF login_server_enter, StartLoad
    <3>2. \A o \in Objs : o # p => loaded'[o] = loaded[o]
      BY <2>2 DEF login_server_enter, StartLoad
    <3>3. UNCHANGED <<jobs, uinfo, made>>
      BY <2>2 DEF login_server_enter, chainVars
    <3> QED
      BY <3>1, <3>2, <3>3, RobotsAreObjs DEF LoadsQueued, NotLoadedBefore
  <2>3. ASSUME NEW o \in Objs, LoadStep(o)
        PROVE  LoadsQueued' /\ NotLoadedBefore'
    <3>1. /\ \A x \in Objs : x # o => /\ loaded'[x] = loaded[x] /\ uinfo'[x] = uinfo[x]
                                      /\ <<"hgetall", x>> \in jobs'
                                            <=> <<"hgetall", x>> \in jobs
          /\ made' = made /\ loaded[o] # "no"
      BY <2>3 DEF TypeOK, LoadsQueued, LoadStep, UgameRead, UgameFailed, UinfoRead,
                  UinfoNoReply, chainVars
    <3>2. /\ loaded'[o] = "uinfo" <=> <<"hgetall", o>> \in jobs'
          /\ uinfo'[o] # "none" <=> loaded'[o] = "done"
      <4>1. CASE UgameRead(o)
        BY <4>1 DEF TypeOK, LoadsQueued, UgameRead, HasRedis
      <4>2. CASE UgameFailed(o)
        BY <4>2 DEF TypeOK, LoadsQueued, UgameFailed
      <4>3. CASE UinfoRead(o)
        BY <4>3 DEF TypeOK, LoadsQueued, UinfoRead
      <4>4. CASE UinfoNoReply(o)
        BY <4>4 DEF TypeOK, LoadsQueued, UinfoNoReply
      <4> QED
        BY <2>3, <4>1, <4>2, <4>3, <4>4 DEF LoadStep
    <3>3. LoadsQueued'
      BY <3>1, <3>2 DEF LoadsQueued
    <3> QED
      BY <3>1, <3>3, RobotsAreObjs DEF NotLoadedBefore
  <2>4. ASSUME NEW r \in Robots, ProfileRead(r)
        PROVE  LoadsQueued' /\ NotLoadedBefore'
    <3>1. /\ uinfo' = uinfo
          /\ \A o \in Objs : <<"hgetall", o>> \in jobs' <=> <<"hgetall", o>> \in jobs
      BY <2>4 DEF ProfileRead
    <3>2. CASE LastRobot(r)
      <4>1. made = 0 /\ made' = 1
        BY <2>4, <3>2 DEF TypeOK, LoadedOnce, ProfileRead
      <4>2. \A q \in Robots : loaded[q] = "no" /\ loaded'[q] \in {"ugame", "failed"}
        BY <2>4, <3>2, <4>1, RobotsAreObjs DEF NotLoadedBefore, ProfileRead, StartLoad
      <4>3. \A o \in Objs : o \notin Robots => loaded'[o] = loaded[o]
        BY <2>4, <3>2 DEF ProfileRead, StartLoad
      <4> QED
        BY <3>1, <4>1, <4>2, <4>3 DEF LoadsQueued, NotLoadedBefore
    <3>3. CASE ~LastRobot(r)
      BY <2>1, <2>4, <3>1, <3>3 DEF ProfileRead
    <3> QED
      BY <3>2, <3>3
  <2>5. ASSUME NEW r \in Robots, ExecuteHmset(r) \/ ExecuteUgame(r) \/ ProfileFailed(r)
        PROVE  LoadsQueued' /\ NotLoadedBefore'
    BY <2>1, <2>5
       DEF ExecuteHmset, ExecuteUgame, ProfileFailed, chainVars, loadVars
  <2>6. CASE ExecuteSelect \/ load_robots \/ RobotsRead \/ RobotsFailed \/ UNCHANGED vars
    BY <2>1, <2>6 DEF ExecuteSelect, load_robots, RobotsRead, RobotsFailed, vars,
                      chainVars, loadVars
  <2>7. ASSUME NEW d \in Links, ConnectFailed(d) \/ Connected(d) \/ RetryFires(d)
        PROVE  LoadsQueued' /\ NotLoadedBefore'
    BY <2>1, <2>7 DEF ConnectFailed, Connected, RetryFires, chainVars, loadVars
  <2> QED
    BY <2>2, <2>3, <2>4, <2>5, <2>6, <2>7 DEF Next, RobotStep
<1> QED
  BY <1>1, <1>2, Types, RobotsLoadedOnce, PTL DEF Spec
==============================================================================
