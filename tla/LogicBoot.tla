------------------------------ MODULE LogicBoot ------------------------------
(***************************************************************************)
(* The start of the logic server: its four database links with their retry *)
(* timers, the loading of the robots that waits for all four, and the      *)
(* loading of players that log in meanwhile.  Sources, under src/src/:     *)
(* script/database/{mysql_system_ugame, mysql_auth_center,                 *)
(* redis_auth_center, redis_game}.lua, script/logic_server/                *)
(* {logic_game_mgr, logic_player, robot}.lua, database/{mysql,redis}_      *)
(* warpper.cpp, export_module/timer_export_to_lua.cpp,                     *)
(* utils/timer_uv_list.cpp.                                                *)
(*                                                                         *)
(* A connection attempt or a query is a job of libuv's worker threads; its *)
(* callback, like every timer, runs on the one loop.  The jobs of a redis  *)
(* link take its mutex, which is no queue: they run in any order.          *)
(***************************************************************************)
EXTENDS Integers

CONSTANTS
    NumRobots,    \* rows of ugame with is_robot = 1
    Players,      \* users that log in
    MaxFails,     \* bound: connection attempts that fail, per link
    MaxLost       \* bound: queries that fail

ASSUME NumRobotsAssumption == NumRobots \in Nat \ {0}
ASSUME BoundsAssumption == MaxFails \in Nat /\ MaxLost \in Nat

Links == {"mysql_game", "mysql_center", "redis_center", "redis_game"}
Robots == 1 .. NumRobots          \* in the order of the table
ASSUME PlayersAssumption == Players \cap Robots = {}
Objs == Robots \cup Players       \* player and robot objects that are loaded

VARIABLES
    conn,         \* link -> is mysql_conn / redis_conn of its module set
    attempts,     \* link -> connection attempts under way
    timers,       \* link -> armed timers that will connect again
    fails,        \* link -> attempts that failed
    polls,        \* armed timers that will call load_robots
    asking,       \* queries for the robots' game records under way
    profiles,     \* robot -> queries for its profile under way
    made,         \* how often the robots were put into their zone
    loaded,       \* object -> how far player:init is
    uinfo,        \* object -> the profile it was given
    jobs,         \* the queries of the redis links not executed yet
    selected,     \* SELECT was executed on the redis_center link
    user_keys,    \* <<object, was SELECT executed>>: the profiles in redis_center
    game_keys,    \* robots whose game record is in redis_game
    lost

linkVars == <<conn, attempts, timers, fails>>
chainVars == <<polls, asking, profiles, made>>
loadVars == <<loaded, uinfo>>
redisVars == <<selected, user_keys, game_keys>>
vars == <<linkVars, chainVars, loadVars, jobs, redisVars, lost>>

Jobs == ({"hmset", "hgetall"} \X Objs) \cup ({"ugame"} \X Robots) \cup {<<"select", 0>>}

TypeOK ==
    /\ conn \in [Links -> BOOLEAN]
    /\ attempts \in [Links -> Nat]
    /\ timers \in [Links -> Nat]
    /\ fails \in [Links -> 0 .. MaxFails]
    /\ polls \in Nat
    /\ asking \in Nat
    /\ profiles \in [Robots -> Nat]
    /\ made \in Nat
    /\ loaded \in [Objs -> {"no", "ugame", "uinfo", "done", "failed", "silent", "noreply"}]
    /\ uinfo \in [Objs -> {"none", "empty", "full"}]
    /\ jobs \subseteq Jobs
    /\ selected \in BOOLEAN
    /\ user_keys \subseteq Objs \X BOOLEAN
    /\ game_keys \subseteq Robots
    /\ lost \in 0 .. MaxLost

\* The scripts have run: every module has started to connect, and load_robots
\* found no link and armed its timer.  The auth server has written the profiles
\* of the users to redis when they logged in there.
Init ==
    /\ conn = [d \in Links |-> FALSE]
    /\ attempts = [d \in Links |-> 1]
    /\ timers = [d \in Links |-> 0]
    /\ fails = [d \in Links |-> 0]
    /\ polls = 1
    /\ asking = 0
    /\ profiles = [r \in Robots |-> 0]
    /\ made = 0
    /\ loaded = [o \in Objs |-> "no"]
    /\ uinfo = [o \in Objs |-> "none"]
    /\ jobs = {}
    /\ selected = FALSE
    /\ user_keys = Players \X {TRUE}
    /\ game_keys = {}
    /\ lost = 0

------------------------------------------------------------------------------
(* Links and timers                                                        *)

\* A timer of create_timer_once is freed after its first callback.  The number
\* that stays armed of the n that are.
\* Mutant: the repeat count is not counted down.
AfterFirst_Repeats(n) == n

AfterFirst(n) == n - 1

\* Mutant of RetryTimer: a link that fails gives up.
RetryTimer_Never(d) == timers[d]

\* The timer the error branch of a connect callback arms.  That of
\* mysql_auth_center names check_session_connect, which is no function of this
\* process (only the gateway defines it): create_timer_once gets nil and arms
\* nothing.
RetryTimer(d) == IF d = "mysql_center" THEN timers[d] ELSE timers[d] + 1

\* The callback of an attempt: an error.
ConnectFailed(d) ==
    /\ attempts[d] > 0
    /\ fails[d] < MaxFails
    /\ attempts' = [attempts EXCEPT ![d] = @ - 1]
    /\ fails' = [fails EXCEPT ![d] = @ + 1]
    /\ timers' = [timers EXCEPT ![d] = RetryTimer(d)]
    /\ UNCHANGED <<conn, chainVars, loadVars, jobs, redisVars, lost>>

\* The callback of an attempt: connected.  A redis link sends SELECT (that of
\* redis_game, which nothing here depends on, is left out).
Connected(d) ==
    /\ attempts[d] > 0
    /\ attempts' = [attempts EXCEPT ![d] = @ - 1]
    /\ conn' = [conn EXCEPT ![d] = TRUE]
    /\ jobs' = IF d = "redis_center" THEN jobs \cup {<<"select", 0>>} ELSE jobs
    /\ UNCHANGED <<timers, fails, chainVars, loadVars, redisVars, lost>>

\* The timer after a failed attempt: the module connects again.
RetryFires(d) ==
    /\ timers[d] > 0
    /\ timers' = [timers EXCEPT ![d] = AfterFirst(@)]
    /\ attempts' = [attempts EXCEPT ![d] = @ + 1]
    /\ UNCHANGED <<conn, fails, chainVars, loadVars, jobs, redisVars, lost>>

------------------------------------------------------------------------------
(* player:init, for a player and for a robot                               *)

\* get_ugame_info for the objects in O: without a link they fail at once.
StartLoad(O) ==
    [o \in Objs |-> IF o \notin O THEN loaded[o]
                    ELSE IF conn["mysql_game"] THEN "ugame" ELSE "failed"]

\* login_server_enter for a player that is not loaded.
login_server_enter(p) ==
    /\ loaded[p] = "no"
    /\ loaded' = StartLoad({p})
    /\ UNCHANGED <<linkVars, chainVars, uinfo, jobs, redisVars, lost>>

\* Mutant of HasRedis: the condition is turned round.
HasRedis_Not == ~conn["redis_center"]

\* get_userinfo_to_redis: without a link it returns and calls nobody back.
HasRedis == conn["redis_center"]

\* The game record (or that there is none) was read.
UgameRead(o) ==
    /\ loaded[o] = "ugame"
    /\ loaded' = [loaded EXCEPT ![o] = IF HasRedis THEN "uinfo" ELSE "silent"]
    /\ jobs' = IF HasRedis THEN jobs \cup {<<"hgetall", o>>} ELSE jobs
    /\ UNCHANGED <<linkVars, chainVars, uinfo, redisVars, lost>>

UgameFailed(o) ==
    /\ loaded[o] = "ugame"
    /\ lost < MaxLost
    /\ lost' = lost + 1
    /\ loaded' = [loaded EXCEPT ![o] = "failed"]
    /\ UNCHANGED <<linkVars, chainVars, uinfo, jobs, redisVars>>

\* hgetall is executed and called back; before SELECT the database is another
\* one, and a missing key is an empty profile.
UinfoRead(o) ==
    /\ <<"hgetall", o>> \in jobs
    /\ jobs' = jobs \ {<<"hgetall", o>>}
    /\ loaded' = [loaded EXCEPT ![o] = "done"]
    /\ uinfo' = [uinfo EXCEPT ![o] = IF <<o, selected>> \in user_keys THEN "full" ELSE "empty"]
    /\ UNCHANGED <<linkVars, chainVars, redisVars, lost>>

\* No reply (the link is broken): the callback raises on the missing result, and
\* player:init never calls back.
UinfoNoReply(o) ==
    /\ <<"hgetall", o>> \in jobs
    /\ lost < MaxLost
    /\ lost' = lost + 1
    /\ jobs' = jobs \ {<<"hgetall", o>>}
    /\ loaded' = [loaded EXCEPT ![o] = "noreply"]
    /\ UNCHANGED <<linkVars, chainVars, uinfo, redisVars>>

------------------------------------------------------------------------------
(* The commands of the redis links that nobody waits for                   *)

ExecuteSelect ==
    /\ <<"select", 0>> \in jobs
    /\ jobs' = jobs \ {<<"select", 0>>}
    /\ selected' = TRUE
    /\ UNCHANGED <<linkVars, chainVars, loadVars, user_keys, game_keys, lost>>

\* set_userinfo_to_redis: before SELECT the key goes to another database.
ExecuteHmset(r) ==
    /\ <<"hmset", r>> \in jobs
    /\ jobs' = jobs \ {<<"hmset", r>>}
    /\ user_keys' = user_keys \cup {<<r, selected>>}
    /\ UNCHANGED <<linkVars, chainVars, loadVars, selected, game_keys, lost>>

\* set_ugame_info_inredis.
ExecuteUgame(r) ==
    /\ <<"ugame", r>> \in jobs
    /\ jobs' = jobs \ {<<"ugame", r>>}
    /\ game_keys' = game_keys \cup {r}
    /\ UNCHANGED <<linkVars, chainVars, loadVars, selected, user_keys, lost>>

------------------------------------------------------------------------------
(* The robots                                                              *)

\* Mutant of AllConnected: one of the four is not asked.
AllConnected_NoRedis == \A d \in Links \ {"redis_center"} : conn[d]

AllConnected == \A d \in Links : conn[d]

\* Mutant of PollAgain: no timer is armed.
PollAgain_Not == AfterFirst(polls)

PollAgain == AfterFirst(polls) + 1

\* The timer of load_robots: as long as a link is missing another timer is
\* armed; otherwise the game records of the robots are asked for.
load_robots ==
    /\ polls > 0
    /\ IF AllConnected
       THEN polls' = AfterFirst(polls) /\ asking' = asking + 1
       ELSE polls' = PollAgain /\ UNCHANGED asking
    /\ UNCHANGED <<linkVars, profiles, made, loadVars, jobs, redisVars, lost>>

\* The callback in do_load_robot_ugame_info: every record is written to redis,
\* then the first profile is asked for.
RobotsRead ==
    /\ asking > 0
    /\ conn["mysql_game"]
    /\ asking' = asking - 1
    /\ jobs' = IF conn["redis_game"] THEN jobs \cup ({"ugame"} \X Robots) ELSE jobs
    /\ profiles' = [profiles EXCEPT ![1] = @ + 1]
    /\ UNCHANGED <<linkVars, polls, made, loadVars, redisVars, lost>>

\* An error: nothing asks again.
RobotsFailed ==
    /\ asking > 0
    /\ conn["mysql_game"] => lost < MaxLost
    /\ lost' = IF conn["mysql_game"] THEN lost + 1 ELSE lost
    /\ asking' = asking - 1
    /\ UNCHANGED <<linkVars, polls, profiles, made, loadVars, jobs, redisVars>>

NextRobot(r) == r + 1

LastRobot(r) == NextRobot(r) > NumRobots

\* The callback in do_load_robot_uinfo: the profile is written to redis; after
\* the last one do_new_robot_play makes the robots, starts to load them and puts
\* them into zone SGYD, else the next profile is asked for.
ProfileRead(r) ==
    /\ profiles[r] > 0
    /\ conn["mysql_center"]
    /\ jobs' = IF conn["redis_center"] THEN jobs \cup {<<"hmset", r>>} ELSE jobs
    /\ IF LastRobot(r)
       THEN /\ profiles' = [profiles EXCEPT ![r] = @ - 1]
            /\ made' = made + 1
            /\ loaded' = StartLoad(Robots)
       ELSE /\ profiles' = [[profiles EXCEPT ![r] = @ - 1]
                               EXCEPT ![NextRobot(r)] = @ + 1]
            /\ UNCHANGED <<made, loaded>>
    /\ UNCHANGED <<linkVars, polls, asking, uinfo, redisVars, lost>>

\* An error, or no such user: the chain ends, and the robots never come.
ProfileFailed(r) ==
    /\ profiles[r] > 0
    /\ conn["mysql_center"] => lost < MaxLost
    /\ lost' = IF conn["mysql_center"] THEN lost + 1 ELSE lost
    /\ profiles' = [profiles EXCEPT ![r] = @ - 1]
    /\ UNCHANGED <<linkVars, polls, asking, made, loadVars, jobs, redisVars>>

------------------------------------------------------------------------------
RobotStep == \E r \in Robots : \/ ExecuteHmset(r) \/ ExecuteUgame(r)
                               \/ ProfileRead(r) \/ ProfileFailed(r)

LoadStep(o) == UgameRead(o) \/ UgameFailed(o) \/ UinfoRead(o) \/ UinfoNoReply(o)

Next ==
    \/ \E d \in Links : ConnectFailed(d) \/ Connected(d) \/ RetryFires(d)
    \/ \E p \in Players : login_server_enter(p)
    \/ \E o \in Objs : LoadStep(o)
    \/ ExecuteSelect
    \/ load_robots \/ RobotsRead \/ RobotsFailed
    \/ RobotStep

Spec == Init /\ [][Next]_vars

\* A timer fires, a worker thread ends its job, and the loop calls back.  An
\* attempt may fail MaxFails times and then succeeds.
Fairness ==
    /\ \A d \in Links : WF_vars(Connected(d)) /\ WF_vars(RetryFires(d))
    /\ WF_vars(load_robots)
    /\ WF_vars(RobotsRead)
    /\ \A r \in Robots : WF_vars(ProfileRead(r)) /\ WF_vars(ExecuteHmset(r))
                            /\ WF_vars(ExecuteUgame(r))
    /\ \A o \in Objs : WF_vars(UgameRead(o)) /\ WF_vars(UinfoRead(o))
    /\ WF_vars(ExecuteSelect)

FairSpec == Spec /\ Fairness

------------------------------------------------------------------------------
(* What the start of the server keeps right                                *)

\* A link is connected, or being connected, or waits for its timer, and never
\* two of these at once: however often it fails, the attempts do not multiply
\* and a second connection never replaces the first.
OneAttempt ==
    \A d \in Links : attempts[d] + timers[d] + (IF conn[d] THEN 1 ELSE 0) <= 1

\* load_robots polls or its chain of queries runs or the robots are in their
\* zone, and never two of these: the robots are not loaded twice.
LoadedOnce ==
    /\ polls + asking + made <= 1
    /\ \A r \in Robots : polls + asking + made + profiles[r] <= 1
    /\ \A r, q \in Robots : r # q => profiles[r] = 0 \/ profiles[q] = 0

\* load_robots waits for the links so that no robot is made that can never be
\* loaded: none of them fails or falls silent for want of a link.
RobotNeverSilent ==
    lost = 0 => \A r \in Robots : loaded[r] \notin {"failed", "silent"}

\* A link that fails is connected in the end; mysql_center, whose retry arms no
\* timer, is the exception.
RetriedLinksConnect == \A d \in Links \ {"mysql_center"} : <>conn[d]

\* load_robots never stops waiting for the links short of asking for the robots,
\* and it does ask once mysql_center, the link without a retry, is connected.
PollingEnds == (polls > 0 /\ conn["mysql_center"]) ~> asking > 0

\* A login that begins to load while redis_center is connected is answered, if
\* only with an error, unless redis leaves its query without a reply.
LoginCalledBack ==
    \A p \in Players : (loaded[p] = "ugame" /\ conn["redis_center"])
                            ~> loaded[p] \in {"done", "failed", "noreply"}
==============================================================================
