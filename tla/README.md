# A TLA+ model of the Goat game server

This directory models the server in `src/src`: a C++ framework on libuv whose
business logic is Lua (`src/src/script`). It is a small MOBA back end: players
log in through a gateway, get their game data and a daily bonus, wait for a
match, are seated in a room with robots, and play a game that is synchronised
frame by frame over UDP.

All paths below are relative to `src/src/`. Several Lua files are in GBK.

## 1. Inventory

Every process is one libuv loop. A message handler, a timer callback or a
database callback runs to its end before the next one starts; only database
queries run elsewhere, on libuv's worker threads, and call back on the loop.
A Lua handler that raises is stopped where it stands (`lua_wrapper.cpp`, pcall):
what it assigned before stays. So the interesting interleavings are those of
whole callbacks, of queries with callbacks, and of messages between processes.

| part | state | operations | talks to | what is hard | what makes it correct |
|---|---|---|---|---|---|
| Gateway (`script/gateway_server/gateway_service.lua`) | tables temporary key -> session and uid -> session, key counter, one session and one "connecting" flag a server | relay a request, relay an answer, login, logout, a client closes, a server connects / fails / is lost | clients; auth, system and logic server by TCP | answers that come after the client left; two connections of one account; refused logins; reconnecting | an answer reaches who asked; tables hold live, rightful sessions; one connection a server, again after a loss |
| Auth server (`script/auth_server/*`, `script/database/mysql_auth_center.lua`, `redis_auth_center.lua`) | table `uinfo` of accounts, profiles cached in Redis | guest login, account login, upgrade, edit profile, logout | gateway, MySQL, Redis | read, then insert or update, with other requests between; a cache written beside the table; results that are lost | an upgraded account is closed to its guest key; the cache agrees with the table; requests are answered. (Guest keys and names are meant to be unique and are not, section 5) |
| System server (`script/system_server/*`, `script/database/mysql_system_ugame.lua`) | tables `ugame`, `login_bonues` | get game data (with the day's bonus), claim the bonus | gateway, MySQL | queries of several requests in any order, errors that hide a done write | the streak counts a day once; nothing paid before it was granted |
| Logic server, lobby (`script/logic_server/logic_game_mgr.lua`, `room.lua`, `logic_player.lua`, `robot.lua`) | online players, waiting lists by zone, robots, rooms with seats | login, disconnect, enter zone, exit room, matching timer, robot timer, gateway lost and back | gateway, MySQL, Redis | logins that load while others happen; handlers that raise half way; rooms that share one id | counts and maps agree; a player is Playing exactly when seated in a running game; running games are not disturbed; who waits is served |
| Logic server, sessions of players (`logic_game_mgr.lua`, `logic_service.lua`) | the gateway session stored in each player object | a player enters, loads, leaves; the gateway connects and breaks | gateway | loads that end after the player left or the gateway came back | an online player has the session of the gateway, never an older one again |
| Logic server, start (`logic_game_mgr.lua`, `logic_player.lua`, `robot.lua`, `script/database/*`) | four database links, a polling timer, robots | connect and retry, load robots, load players | MySQL, Redis | links that come up in any order, failures, redis commands nobody waits for | one attempt a link; robots loaded once and with all their links; who loads is called back |
| Logic server, frames (same files) | frame log, the frame being collected, a cursor a player | 66 ms timer, operations from players | players by UDP | loss, duplication, reordering; players without session or address | all players apply one log, in order, without gaps |
| Service table and sessions (`moduel/netbus/service_manger.cpp`, `moduel/session/*`) | session pool, services by type | dispatch, connect, disconnect, close | network layer, Lua | a disconnect is reported once a service type; `close_session` does not close the socket | each end is handled once |
| Network layer (`moduel/net/net_uv.cpp`, `moduel/session/tcp_session.cpp`) | a receive buffer, a handshake flag and a session a connection | read, shake hands, cut the stream into packets, send, close; connect, listen | libuv, service table | packets split over reads; several ends of a connection at once | every packet delivered once, in order; one `uv_close`; every end is told |
| Database layer (`database/mysql_warpper.cpp`, `redis_warpper.cpp`) | a connection and its mutex | connect, query, close on workers | MySQL, Redis | order of queries, lost results, close under way | every query calls back once |
| Timers (`utils/timer_uv_list.cpp`, `utils/timer_list.c`, export) | libuv timers | create, once, cancel | Lua | a callback that cancels its own timer | fires as often as asked |
| Memory pool, hash map (`utils/*`) | free lists, chains | alloc, free, put, remove | all | full pool, last node of a chain | no block twice; a map |
| Lua binding (`lua_wrapper/*`, `export_module/*`) | references to Lua functions | calls both ways, Lua table <-> message | all | | |

Not modelled, because they are generated, unused or without state: protobuf
code (`proto/*`), the older C++ servers (`gateway_server`, `center_server`,
`game_server`, `command_server`), `net_iocp_win.c`, logging, time, tools, and
`3rd/`.

## 2. Modules

| module | models |
|---|---|
| `LogicServer` | the lobby of the logic server: login, waiting lists, matching, robots, rooms up to the start of a game; implements `MatchRooms` |
| `MatchRooms` | abstract: rooms that gather for a zone, fill, start a game that nobody disturbs |
| `LogicServerProofs` | the inductive invariant of `LogicServer`, its theorems, and the proof that it implements `MatchRooms` |
| `LogicBoot` | the start of the logic server: database links with their timers, the robots, players that load meanwhile |
| `LogicBootProofs` | its inductive invariants and its theorems |
| `Gateway` | the gateway, with as much of the auth server as answers logins |
| `GatewayProofs` | its inductive invariants and its theorems |
| `Sessions` | `Gateway` composed with the logic server's view of it: entering, leaving, loading, the sessions players store |
| `SessionsProofs` | `Sessions` implements `Gateway`, and its own theorems |
| `AuthServer` | the auth server: accounts in MySQL, profiles in Redis |
| `AuthServerProofs` | its inductive invariant and its theorems |
| `FrameLog` | abstract: one growing log a game, of which each player has a beginning |
| `FrameSync` | frame synchronisation over UDP; implements `FrameLog` |
| `FrameSyncProofs` | its inductive invariant, its theorems, and the proof that it implements `FrameLog` |
| `LoginBonus` | the system server's game data request, daily bonus and claim over MySQL |
| `LoginBonusProofs` | its inductive invariant and its theorems |
| `PacketChannel` | abstract: packets handed over in the order they were sent, until the close |
| `PacketStream` | one accepted connection: reads, the loops that cut packets, its ends; implements `PacketChannel` |
| `PacketStreamProofs` | the inductive invariants of `PacketStream`, its theorems, and the proof that it implements `PacketChannel` |
| `MCLogicServer`, `MCGateway`, `MCSessions`, `MCAuthServer`, `MCFrameSync`, `MCLoginBonus`, `MCPacketStream` | instances for TLC: symmetry sets and constant functions |

Operators named `X_Something` just before an operator `X` are mutants: what a
plausible bug would make of `X`. They are used by nothing; `PROJECT.json` says
which property each one breaks.

### LogicServer

State: the maps of `logic_game_mgr.lua` (`online_player_map`,
`online_player_num`, `zone_wait_list`, `zone_robot_list`, `room_list`), the
fields of player and robot objects (`uid`, `zid`, `roomid`, `seatid`, `status`,
`uinfo`), of rooms (`room_state`, `room_id`, `zid`, `inview_players`), and
whether the gateway is connected, without which no message arrives. What a
player stores of that connection is in `Sessions`. `wait_tables` is the set of zones
whose inner table exists, because `#zone_wait_list` and indexing a missing table
depend on it. An object of `Plays` is what one `player:new()` returns; two
overlapping logins of a user make two.

Actions are the handlers, under their names. Two things are finer or coarser
than a handler:

* The matching timer (`do_match_sgyd_map`) loops over the waiting players. It is
  `MatchTick`, then `CreateRoom` and `MatchEnter` for each entry; while
  `match_todo` is not empty the callback is running and nothing else is enabled.
  `pairs` visits in an unknown order: zones one after the other, entries in any
  order.
* The chain of queries that loads the robots is one action at its end
  (`do_new_robot_play`): nothing in the lobby reads what it has loaded before.
  The chain itself is in `LogicBoot`.

A Lua error is modelled by what it leaves: `enter_room` takes the seat first and
then reads profiles, so `EnterRaises` keeps the seat, skips the start and ends the
whole matching callback. `room_list[-1]` in `ExitRoomReq` raises without effect.
`#inview_players` is Lua's border of a table with holes: the table's array part
has as many slots as seats once the last seat was taken, and then `#` says
"full" whenever the last slot is used (`SeatsCounted`); lowest-free-first seating
is what makes this right, and `GameStartsFull` checks it.

`search_idle_robot` returns the first idle robot in the order of `pairs`, which is
unspecified but does not change while the table does not: `RobotRank` is that
order.

`MatchRooms` sees of all this the rooms: `state` is `room_state`, `zone` the `zid`
a room was made for, `seats` its `inview_players`. A room gathers for one zone,
where no other gathers; whoever sits down is in no running game, and a robot
nowhere else; a game starts with the last entry (`Sit`), or with a later one that
finds no seat left, because the one that took the last raised before the start
(`StartLate`); a running game is not touched.

All rooms have the id 1: `room:init` increments a global `roomid`, not
`g_room_id` (`room.lua:31-32`). So `room_list[zid]` holds one room, the newest.

### LogicBoot

Each link of `script/database/*` is a row of `conn` (is it set), `attempts`
(connecting on a worker thread) and `timers` (retry timers that are armed).
`create_timer_once` arms libuv's repeating timer with a count of one;
`AfterFirst` is what its callback leaves. The retry of `mysql_center` names a
function its process does not have, so `RetryTimer` arms nothing for it.

`load_robots` polls until all four links are there, `RobotsRead` is the callback
with the robots' game records, `ProfileRead` each turn of the chain that reads
one profile and asks for the next, and after the last makes the robots.
`profiles`, `asking` and `polls` count what is under way, so that a chain
that ran twice would be seen. `loaded` is how far `player:init` is for an object;
"silent" is the state in which `get_userinfo_to_redis` returned without a
link, and nobody is called back. Redis commands are jobs that take the mutex of
their link in any order: `jobs` is a set, and `SELECT` is one of them, so a
command before it goes to another database (`user_keys` keeps which).

### Sessions

`Sessions` extends `Gateway`: each step of the gateway is conjoined with what it
sends to the logic server (`Closes`, `AsksToEnter`, `LoggedIn`, `LogicLost`...), and
the steps that send nothing there are in `Elsewhere`. Of the logic server it has
`on_logic_recv_cmd` (`EnterAgain`, `Enter`, `Leave`), the callback of `player:init`
(`Loaded`, `LoadFails`) and the connect and disconnect of the gateway. Connections
are numbered in the order the logic server accepts them, so that "older" has a
meaning. `loads` is a bag: two logins of one user may load at once. The answer of a
load goes to the session its request came on. Sessions are never freed, but the
libuv handle of a closed one is, and a new handle may be allocated in its place:
so the answer of a load that began on an older connection may come out on the
new one, or not at all (`Answer`). A load may also never call back (`LoadHangs`):
`get_userinfo_to_redis` returns when redis is not connected, and raises when its
reply is an error (`redis_auth_center.lua:68-71`, `:87`). `asked` and `failed` are
history.

### AuthServer

The rows of `uinfo` are a sequence; the index is the uid, which MySQL counts up.
A request (`req[q]`) waits for one MySQL query; its Redis commands (`redis[q]`) run
beside it and nobody waits for them. `ExecuteRead` and `ExecuteWrite` are the
worker threads, `GuestCallback`, `UnameCallback`, `UpgradeCallback` and
`EditCallback` the callbacks, by the stage the request is in. A result of a read
is "ok", "none", "lost" (an error of `mysql_store_result` looks like no rows) or
"err"; a write may be done and reported as failed. A callback that indexes a
missing row or calls an undefined function raises: the request stays "raised"
and is never answered. `edit_profile` starts its MySQL update and reads the
cache at the same time, `EditToRedis` writes back what was read with the new
profile. `disturbed` and the field `closed` of a request are history: accounts
whose row and cache were worked on by requests that overlapped or failed, and
accounts that were closed to guests when the request came.

### Gateway

State: the two login tables, `g_ukey`, `session_map`, `session_connecting`, the
`utag` and `uid` of each client session, and the messages between gateway and
auth server (`to_auth`, `from_auth` in order; `auth_db`, a bag, answered in any
order). `attempts` and `sockets` count TCP connections to each server whether or
not the gateway knows them. `on_gw_session_disconnect` is called once for every service
type; the calls after the first find the tables clean, so `ClientCloses` is one
action. `LoginResOK` includes the relogin branch: it closes the *new* session
in the tables only, and then stores it again.

`LoginResRefused`: a login with another status than OK is forwarded, and the handler
goes on under the comment "下面是登录成功逻辑" (below is the logic of a successful
login, `gateway_service.lua:181`). `userinfo` is not missing then: the conversion
pushes protobuf's default message (`proto_mgr_export_to_lua.cpp:180-181`), so its
`uid` is 0. The entry of the key is cleared, the session is stored under uid 0, its own
uid becomes 0, and the answer is sent a second time. `client_session_uid` has the
place 0 for this, and an answer to a logout with uid 0 goes to whom it holds
(`LoginOutRes`). `refused` is history.

The auth server answers a lookup, or its callback raises and it never does
(`AuthForgets`). An attempt to connect ends in a callback, or never:
`uv_tcp_connect` may fail at once, and its result is not looked at
(`ConnectStalls`, `net_uv.cpp:761`). The flag then stays, and the server is not
tried again; `stalled` remembers which.

One request and answer pair stands for all that are forwarded with the uid
(`LoginOutReq`); the others change no state of the gateway.

### FrameSync

`do_logic_frame_sync` is the timer, `push_next_frame` is `on_next_fream_recv`
with `room:push_next_frame`. Datagrams stay in `udp_down` and `udp_up` for ever:
delivering one again is a duplicate, late is a reordering, never is a loss. The
client is not in the repository: `LogicFrame` and `NextFrameOpts` are external,
written from the protocol and from what the server expects (a player applies the
frames newer than its last and sends operations for the next). A datagram names
a room by the id all rooms share, so it reaches the newest room of the zone
(`listed`). `frames` and the `after` field of an operation are history.

`udp_send_cmd` sends nothing to a player without a session or without a UDP address
and port (`logic_player.lua:101-113`), which is `Reachable`. `session` follows the
player object of a seat: nil while the gateway is away, set again by its return,
and gone for good once the player has left, because the user comes back as another
object. `addressed` are the seats whose player gave a port when it logged in, or
does so when it logs in again. Operations come in by UDP whatever the session is.

### LoginBonus

A request (`req[q]`) waits for one query at a time. `ExecuteRead` and
`ExecuteWrite` are the worker thread, `ErrorCallback`, `UgameCallback`,
`BonusCallback` and `ClaimCallback` the callbacks. Queries of one connection
take its mutex: they are atomic, in any order. A write may be done and reported
as failed; a result that `mysql_store_result` cannot fetch looks like one
without rows (`mysql_warpper.cpp:232`, `mysql_export_to_lua.cpp:97`). Days stand
for timestamps: the code only compares with the starts of today and yesterday.
`uid` is the global variable of `recv_login_bonues`. `granted` and `paid` are
history, counted where the update of a new day and `add_chip` take effect.

### PacketStream

One connection of a server that runs binary packets or JSON over TCP, or
WebSocket (`kind`). A byte is `[pkg, at]`: the packet it is of and its place in
it. What the code reads in a byte follows from that and from `sent`: the length
in a header, the `\r\n` of a JSON packet (its last two bytes), the 0x88 of a
closing frame (a packet of length 0). `transit` is TCP; `long_pkg` is the
receive buffer, up to `recved`.

`on_after_read` takes a beginning of `transit` of any length and starts the loop
of the protocol; each turn of a loop is an action: `protocal_recv` (a whole
packet goes up), `LoopCloses` (`uv_close` and break), `LoopEnds` (too little for
a header, or nothing left) and `LoopSpins`, the turn in which nothing changes.
While `running`, no other callback is enabled. The three loops of `net_uv.cpp`
differ in what a header is, in when they break and in what is too long: that is
`Header`, `pkg_size`, `TooLong` and `Closing`. A handshake is read in pieces by
`process_websocket_connect`, which parses the request from its start each time
and empties the buffer once it has seen the key.

The ends: `ReadFails` (error or end of file, then `uv_shutdown`),
`on_after_shutdown`, `LoopCloses`, and `LuaCloses`, which tells the services and
leaves the socket open. `closes` and `told` count `uv_close` and
`on_session_disconnect`; `cut` says that some read ended inside a packet.

`PacketChannel` sees the payloads of what was sent and what was handed over.

## 3. Runs

Runs that pass:

| run | instance | shows |
|---|---|---|
| `lobby` | 2 users, 3 player objects, 1 robot, 2 rooms of 2 seats, both zones, profiles may be missing, the gateway breaks and comes back | `OnlineNum`, `PlayingIffSeated`, `GatheringListed`, `RobotSeatedOnce`, `ZoneTableExists`, and that `LogicServer` implements `MatchRooms` |
| `lobby_live` | 1 user, 1 object, 4 robots, 3 rooms of 4 seats | `GameStartsFull`; `WaitingServed` and `RobotsFillRoom` under fairness |
| `boot` | 2 robots, 1 player, every link fails once, one query is lost | `OneAttempt`, `RobotNeverSilent`; `RetriedLinksConnect`, `PollingEnds`, `LoginCalledBack` under fairness |
| `gateway` | 2 connections of one account, one of which may be refused, 3 keys, 2 messages under way, 2 connections that fail, stall or break | `LoginAnsweredToAsker`, `NoDeadSession`, `RoutedToOwner`, `OneConnection`; `LoginAnswered` and `LinkRestored` under fairness |
| `sessions` | 2 connections of one account, one of which may be refused, 2 keys, 2 requests to enter under way, 1 connection that fails, stalls or breaks, 1 load that fails, any that hang | `OnlineHasSession`, `SessionNeverGoesBack`; `EnterIsAnswered` under fairness |
| `auth` | 2 guest keys, 1 name, 2 profiles, 2 requests under way of 3, 3 accounts of which one is registered, 1 lost result | `CacheAgrees`, `GuestStaysOut`; `GuestAnswered` under fairness |
| `frames` | 1 room, 2 players with or without session and address, 3 frames, 2 operations a frame | `OpsInTheirFrame`, `NoFrameSkipped`, `EveryTickCatchesUp`, and that `FrameSync` implements `FrameLog` |
| `bonus` | 1 user, 2 overlapping requests, 4 days, a list of 2 bonuses, 1 lost result | `StreakCounts`, `PaidAfterGrant`; `RequestEnds` under fairness |
| `stream` | the three kinds; 3 packets of body 1, 3, 8 (too long for JSON and WebSocket) or closing; a request of 5 bytes | `ClosedOnce`, `DeliveredInOrder`, `PacketStream` implements `PacketChannel`; if no read ends inside a packet, `WholeReadsDelivered` and `EndIsTold` |

Runs that show where the code does not do what its comments say:

| run | what happens |
|---|---|
| `online_has_client` | A client asks to enter and closes before its player is loaded: `on_player_disconnect` finds no player yet, and the load then puts one online that has no client and never leaves (`logic_game_mgr.lua:296`). |
| `bonus_two_users` | The callbacks of one claim use the global `uid` another claim assigned: one user is paid for another's bonus (`login_bonues.lua:85`). |
| `split_packet` | A read ends inside a packet whose length is there: no branch of the loop is taken and the process stays in the callback (`net_uv.cpp:165`). |

The type invariants are not invariants of runs where they are theorems.

### Bounds, and why they are enough

* `MaxRooms`, `MaxUkey`, `MaxFlight`, `MaxDowns`, `MaxAsk`, `MaxLoadFails`,
  `MaxFails`, `MaxUid`, `MaxCame`, `MaxFrames`, `MaxOpts`, `MaxDay` and `MaxLost`
  cap what the program does not. Each is named in the guard it is used in.
  `RoomsSuffice` lets the matching callback start only if it cannot run out of
  rooms, so that the bound never stops it half way. `GatewayBreaks` says whether
  the gateway's connection may break in the lobby at all; how often is free.
* Two rooms are one more than a zone can hold, so overwriting happens; two
  users suffice for every conflict of two sessions, seats or waiting entries;
  three objects let a user log in again while another holds both the seat and
  the memory of an earlier room. In `lobby` rooms have two seats where the code has
  four; the theorems hold for every number of seats.
* `lobby_live` has the code's four seats. A player that was matched beside robots and
  exits leaves a hole below taken seats, of which `#` is then asked; it may be
  matched again into the hole. Three rooms let it play, wait and be matched again,
  four robots fill the seats of a room it left. Profiles are there (`SlowUinfo`
  is FALSE): with one missing `GameStartsFull` is false (section 5).
* Every link of `boot` fails once, so each of the four is the last to connect
  in some behaviour; two robots make the chain of profiles go on and end; one
  player loads before, while and after the links come up. One lost query hits
  each place a query is made.
* Two connections of one account make every order of login, relogin, logout and
  close. The logins of one of them may be refused (`Refusable`), before and after one
  that succeeds, which must not be felt by the other: `NoDeadSession` and
  `RoutedToOwner` speak of connections that log in to one account and were never
  refused (`OneLogin`). Connections that log in to several accounts are left to
  the theorems. Three keys let a connection log in after its key was taken away. Two
  failures, stalls or losses let a connection that was restored break again.
* In `sessions` one broken connection makes two links, an older and a newer; two
  requests under way let a user load twice at once, or once on each link, or be
  lost while it loads.
* In `auth` three requests of which two overlap give an account its history:
  made, upgraded and logged in to, or edited beside a login. Two of three rows
  are free for the duplicates overlapping logins make.
* Three frames with two players let one player be two frames behind, also because
  nothing was sent to it meanwhile; two operations a frame let a duplicate in. Nobody
  sends operations after the last frame (`NextFrameOpts`).
* Four days are a streak, its wrap at the end of a list of two bonuses, and a
  gap. Days change only between requests (`Midnight = FALSE`): with a request
  under way at midnight the grant carries the day of its own callback, and two
  requests around it can write the older day last.
* `PacketStream` is scaled down: 9 for 65,536, 3 for 2,048 bytes of handshake, so
  that a packet of 8 bytes is too long and a request of 5 is refused if its
  key (byte 4) has not come with byte 3. Three packets (`MaxSent`) give a read
  with two packets and a beginning of the third. `LengthFits` keeps binary bodies
  to what two bytes can say. From its key on, the rest of a request comes in one
  read.
* Symmetry is used only with safety properties.

### Fairness

`lobby_live`: a running callback ends (weak fairness). The repeating timers are
disabled while another callback runs, and libuv runs each due timer in every
turn of its loop, so no timer is passed over for ever: strong fairness. Nothing
is assumed of users. `boot`: an attempt that may no longer fail succeeds, armed
timers fire, queries are executed and called back (weak); nothing is assumed of
players, errors and losses. `gateway`: the reconnect timer, the end of an attempt,
the reading of messages and the end of a lookup, answered or not, are weakly fair;
clients, failures and losses are not. A lookup that ends without an answer ends the
wait of `LoginAnswered`, and `LinkRestored` excepts a server with a stalled attempt
(`s \in stalled`), which the code does not try again. `sessions`: what arrived
at either server is read, and a load ends, by calling back or by never doing so
(`LoadEnds`), which ends the wait of `EnterIsAnswered`; the gateway's own steps owe
nothing. `auth`: worker
threads run the MySQL queries and their callbacks run; Redis owes nothing, because
no answer waits for it. `bonus`: worker threads run the queries and
callbacks run. `stream`: libuv goes on with a callback, reads what came, reports
errors and calls back after shutdown and close; the peer and the services owe
nothing. Deadlock is not checked: every instance stops when its bounds are
used up.

## 4. Proofs

Each `...Proofs` module proves its theorems for all values of the constants that
satisfy the module's assumptions: any number of users, objects, connections,
rooms, seats, robots, days, lengths. Two theorems need more and say so as a
hypothesis: `PaidAfterGrantCorrect` (`OneUser`) and `StreakCountsCorrect`
(`Midnight = FALSE`), because the code is wrong without. Properties that hold of a
part of the system only say of which: `OneLogin(c)` in `Gateway`, `OneAccount(c)` in
`SessionsProofs`, `FirstGames` and `Reachable` in `FrameSync`. The shape is always the same: an inductive invariant,
a lemma for its preservation by each action or each part, and one temporal step.
Type correctness is the first theorem of each.

Liveness is beyond the prover. But a thing can only be waited for in vain if it
is no longer under way or if nobody gives it a turn. The second is fairness, and
TLC checks it; the first is an invariant, and it is proved for all values of the
constants:

| liveness property | what is proved of it |
|---|---|
| `LoginAnswered` | `LoginUnderWay`: the login of who waits is under way with a key that leads back |
| `EnterIsAnswered` | `AskUnderWay`: so is the request to enter, its load, or its answer |
| `RetriedLinksConnect` | `NeverGivenUp`: a link is connected, being opened, or its timer is armed |
| `PollingEnds` | `ChainRuns`: the poll or a query of the chain is under way until the robots are made |
| `LoginCalledBack` | `LoadsQueued`: the query of who loads is queued |
| `GuestAnswered` | `HasCallback`: every result has a callback that takes it; `OnlySelectsRaise`: and does not raise |
| `WholeReadsDelivered` | `WholeReadsNeverSpin`: after whole reads no loop spins and nothing stays behind |

`LogicServerProofs`: `OnlineNum`, `PlayingIffSeated`, `GatheringListed`,
`RobotSeatedOnce`, `ZoneTableExists`, `GameStartsFull` (always), `GameFrozen`
(no step touches a running game), and that `LogicServer` implements `MatchRooms`.
`IInv` adds to the properties

* `LoadingBound`: an object that loads has a user, else the count could not be
  related to the map;
* `TodoWaiting`: what the matching callback has yet to visit still waits, which
  holds because nothing else runs;
* `RoomsListed` and `NewRoomsEmpty`: a room in a list was made for that zone,
  and a room not made yet has no players, so that making one cannot disturb
  `PlayingIffSeated`;
* `IdleRobotUnseated`: a robot that remembers no room has no seat. This is why
  `search_idle_robot` may look at `roomid` alone; it is true only because
  `exit_room` never resets `roomid`, and `RobotSeatedOnce` rests on it;
* `TableExists`: `ZoneTableExists` for objects that are not online as well.

`OnlineNum` is about a cardinality: finiteness of the set of users and the
theorems on adding and removing one element carry it. `GameStartsFull` has a
strengthening of its own: `LastSeatFree`, the last seat of a gathering room is
free, because the entry that takes it starts the game, and `ProfilesLoaded`,
everyone that can enter has its profile, so that no entry raises between the
two. Lowest-free-first seating then says that whoever takes the last seat found
all others taken.

The refinement takes one lemma a step: which step of `MatchRooms` it is, or that it
leaves the rooms alone. That a room may be opened at all, although all rooms share
one place in `room_list`, is `GatheringListed`; that who is matched is in no game
and who is idle in no room are `PlayingIffSeated` and `IdleRobotUnseated`; that
the game starts full is `AlwaysFull`.

`LogicBootProofs`: that attempts do not multiply (`OneAttempt`), that the robots
are loaded once (`LoadedOnce`), and that no robot fails or falls silent for want
of a link while no query was lost (`RobotNeverSilent`). The last is inductive
only as `Gated`: from the moment the robots' records are asked for, all links
are connected, and a connected link stays so.

Three more invariants say that what was begun is not left (`NeverGivenUp`,
`ChainRuns`, `LoadsQueued`): the second needs `Gated`, because a chain that met a
link that is not there would end. `NeverGivenUp` excepts `mysql_center`, whose retry
arms nothing.

`GatewayProofs`: three invariants. `ServersOK` (`OneConnection` with
`FlagTellsConnection`: the flag the timer goes by is set while a connection is open
or being opened, and may be when none is, after a stalled attempt). `KeysOK` (`KeysOwned`: a temporary key
belongs to one session; `LoginsAsked`: the key a login travels with was given to
who asked), from which `LoginAnsweredToAsker` follows. `RoutesOK` (`OwnAccounts`,
`RoutedToOwner`, `TablesOpen`), which gives `RoutedToOwner` and `NoDeadSession` for
every connection that logs in to one account and was never refused (`OneLogin`),
whatever other connections do; of one that logs in to two, or is refused, both are
false (section 5). A fourth, `LoginUnderWay`,
follows a login from the request to its answer: a step takes at most the first
answer away (`LoginsStay`), and who waits for that one is answered or gone.

`SessionsProofs`: every behaviour of `Sessions` is one of `Gateway`
(`SessionsImplementsGateway`), so the theorems above hold of the composition, and
its own proofs may use `KeysOK` and `ServersOK`. `LinkCounted` relates the
connections the logic server accepted to those that broke at the gateway;
`LinksKnown` says that no object stores a connection that is yet to come, which
is why a load can only bring an older one, and only to a player that is not
online: `OnlineHasSession`, `SessionNeverGoesBack`. `AskUnderWay` follows a request
to enter through both servers: as a message, as a load over the connection of
today, and as the answer under a uid that leads to the client. A load over an
older connection does not count, because it may be answered to nobody; the
break of that connection ended the wait. It speaks of clients that log in to one
account (`OneAccount`), refused or not: the table still leads to one that was
refused, although its own uid is 0.

`FrameSyncProofs`: of every game, however many share a zone, `OpsInTheirFrame`, that
what a player applied is of its room's log (`AppliedFromLog`), and so that two
players never disagree on a frame (`PlayersAgree`); of the first game of a zone,
whatever games follow it there, `NoFrameSkipped`, `EveryTickCatchesUp` and that
`FrameSync` implements `FrameLog`. (A later game can have its cursors moved by
operations of an earlier one, section 5; the first game can not, because a later
room takes its place in `room_list` and what the players of the first send no
longer reaches it.) `LogNumbered` says the log has no gap and the collected frame
is the next; `OpsOnTheWay` carries `OpsInTheirFrame` back to operations that are
collected or under way; `DatagramsOfLog` says a datagram is a stretch of its room's
log, however old; `BeginningApplied` that what a player of the first game applied is
a beginning of the log, that no datagram leaves it a gap, and that no datagram from
it claims more than it applied. `EveryTickCatchesUp` speaks of the players a tick can
send to (`Reachable`): one without session or address gets nothing, keeps its
beginning, and has all it lacks in the first datagram after. Every conjunct is stable under loss, doubling and
reordering because datagrams are never taken away.

`LoginBonusProofs`: `StreakCounts` for any number of users if days end between
requests, `PaidAfterGrant` for one user (with two it is false), and for any number
that nobody is paid while nobody was granted a bonus (`NothingPaidUngranted`).
`PaidAfterGrant` says that an amount is paid only after it was granted; it permits one
grant to be paid twice, which happens (section 5). `StreakKnown`
relates the record a request found to the row now: it is the row, or the row is
what the grant of today made of it, so two overlapping requests write the same
thing. `PaymentsKnown` says a claim that is to be paid has a grant;
`GrantsKnown` and `HeldRecords` carry it through failed and hidden writes.

`PacketStreamProofs`: `ClosedOnce`, `DeliveredInOrder`, that `PacketStream` implements
`PacketChannel`, and `WholeReadsNeverSpin`, for all kinds, lengths of bodies and
numbers of packets. The assumptions say that lengths and bounds are
positive and that a request has a key.

* `DeliveredInOrder` needs `Aligned`: what is read and under way is the stream
  from the beginning of the next packet. The beginning of packet *i* would be a
  sum over the packets before it, and a proof by induction. Instead `Aligned`
  says that *some* function `start` gives the places, each packet's after its
  predecessor's end (`Starts`), and that the bytes are where `start` says
  (`Holds`). A step that sends extends `start` by one place (`SendKeeps`); one
  that hands a packet over keeps it and moves its origin (`ReceiveKeeps`); a
  read moves bytes from one side to the other and changes nothing (`ReadKeeps`).
  `PkgSize` is where the code's reading meets the sender's writing: the length
  the loop finds in front of the buffer, or the first `\r\n`, is that of the next
  packet. The rest are facts on sequences.
* `FramingInv` claims `Aligned` for open connections after the handshake: an
  end drops bytes. Nothing is handed over afterwards, because a loop runs only
  while the socket is open.
* `EndInv` is what `ClosedOnce` rests on: `closes` is 1 exactly in the states
  "closing" and "closed", no loop runs in them, and what `told` may be follows
  from `removed` and `socket`.
* `WholeInv` is the other side of `split_packet`: as long as every read ended with a
  packet, so does the buffer while a loop runs, and it is empty between loops.
  Then the next packet is there in full (`NextIsWhole`), the loop finds it, and no
  turn is a `LoopSpins`.
* In the refinement `protocal_recv` hands over the packet the channel expects next,
  which is `DeliveredInOrder` for the one that is added, while the socket is open
  (`EndInv`); sending extends what was given; all else changes nothing of it.

`AuthServerProofs`: `GuestRowsBounded`, `NamesBounded`, `CacheAgrees`,
`GuestStaysOut` and `NoRequestForgotten`, for any number of accounts, requests, errors and lost results.

* `StepIs` says once what each action does to its own request, its Redis query and
  the tables (`NewRequest`, `NewEdit`, `ReadEnds`, `WriteEnds`, `Called`,
  `RedisStep`); the preservation proofs split on these. `RequestsFormed` says
  what a request of each stage came with and that its account exists.
* `GuestRowsBounded` and `NamesBounded` are theorems only. Keys and names should be
  unique and are not; the bounds say how far the code is from that, for every number
  of requests. They are inductive as they stand, because they count the requests
  that may still write with the rows that are written. `Counting` lists the four
  ways the two may change without passing the bound; a request joins those that
  may write only when its select found nothing, so nothing was there, or its
  result was lost, which `lost` counts.
* `GuestStaysOut` follows from `ClosedStay`: no registered account becomes a
  guest's again, and what a select read of an account was true when it read it.
* `CacheAgrees` needs `Undisturbed`: on an account that was not disturbed at most
  one request works, and that request holds the profile to come (`Coming`:
  what an edit will have written) and brings it to the cache (`Brings`).
  `GuestCopies` is its second half: every copy of a guest's account says so.
* `HasCallback` goes through the results a query of each stage can have: an update
  loses none, and the account of an upgrade is there because accounts stay.

Only model-checked: the liveness properties (`LoginAnswered`, `LinkRestored`,
`EnterIsAnswered`, `RetriedLinksConnect`, `PollingEnds`, `LoginCalledBack`,
`GuestAnswered`, `RequestEnds`, `WaitingServed`, `RobotsFillRoom`,
`WholeReadsDelivered`, `EndIsTold`): they need fairness and ENABLED, which the
prover does not have. Every invariant, action property and refinement that a
passing run checks is also a theorem.

## 5. What the models say beyond the findings

Behaviours of the code the models have, which no run reports:

Lobby:

* A player whose `roomid` and `seatid` are of an earlier room asks to exit: it is
  found in the newest room of the zone, and frees the seat of whoever sits there
  (`room.lua:58`).
* A side is `PLAYER_NUM_3v3 = 2` players (`room.lua:11-12`), but seats `i <
  PLAYER_NUM_3v3` are on the left: one against three (`room.lua:95`).
* With a profile missing at entry (`SlowUinfo`) and four seats, exits and later
  entries can start a game with an empty seat; `GameStartsFull` is without.
* Who waits in zone ASSY while nobody ever entered SGYD is never looked at:
  `#zone_wait_list` is 0 and the timer returns (`logic_game_mgr.lua:212`), although
  its loop is to "visit all the waiting lists" (`:217`). `WaitingServed` says what
  remains true.
* `ExitRoomReq` answers OK to a player that still waits, and leaves it in the
  waiting list (`logic_game_mgr.lua:467`). A player that disconnects leaves its
  seat taken (`:329`).

Gateway and sessions:

* On a second login to an account the *new* session is "closed" and its
  `UserLostConn` sent, and in the same step the user is stored as logged in on it;
  the old connection stays open with the uid (`gateway_service.lua:189-202`).
* After a logout the gateway does not tell the other servers, although a comment
  says so (`gateway_service.lua:231`), and the later close tells them nothing,
  because the uid is 0 by then. A `UserLostConn` is not sent while the logic server
  is away, nor later.
* One connection that logs in as two accounts leaves the first uid mapped to it
  (`gateway_service.lua:202`), after its close to a dead session. What is proved is
  that no other connection feels it.
* A connection that is logged in, asks again and is refused keeps the entry of its
  account while its own uid becomes 0 (`gateway_service.lua:201-205`): it still gets
  the account's messages, but can send nothing as it. When it closes, the lookup under
  uid 0 misses that entry (`:286-290`), which stays as a dead session, and no
  `UserLostConn` is sent, so that the player stays online. The refused answer is sent
  twice (`:177`, `:212`). The comment at `:181` says that what follows is for
  successful logins. `RoutedToOwner` and `NoDeadSession` are false of such a
  connection; what is checked and proved is that no other feels it.
* A failure of `uv_tcp_connect` that is reported at once leaves `session_connecting` set:
  that server is not tried again (`net_uv.cpp:761`).
* A lookup whose callback raises, and a load that never calls back, leave the client
  without an answer, although it is still connected.

Start of the logic server:

* `mysql_center` whose first attempt fails never connects: its retry names
  `check_session_connect`, a function of the gateway only
  (`mysql_auth_center.lua:22`). The robots are then never loaded.
* A redis command that runs before `SELECT` reaches another database: a player
  that loads then gets an empty profile, without an error.
* `get_userinfo_to_redis` without a link calls nobody back
  (`redis_auth_center.lua:70`): a login in that time is never answered. A query
  that fails in the chain of the robots ends it for good.
* A redis reply of type error pushes no value to Lua, and a failed login at the
  redis server leaves a link without a handle. `timer_uv_list.cpp:60` frees a
  timer that libuv was told to stop but not to close. `conf.lua`, which names
  the servers, is not in the repository.

Accounts:

* `sql/auth_center.sql:23` calls `guest_key` "游客账号的唯一的key" (the unique key of a
  guest account), but the table has no such index, and two guest logins that both
  find no row insert two accounts (`guest.lua:36`).
* `proto/game.proto:107` says of the name of an upgrade that it is globally unique, but
  it is found free two queries before it is written, and has no index either: two
  upgrades give it to two accounts (`account_upgrade.lua:92`). `AuthServer` has both
  behaviours. What remains true are the bounds `GuestRowsCorrect` and `NamesCorrect`.
* `mysql_auth_center.lua:197` calls `cb_handle`, which is not defined there, and
  `:161` indexes a result that may be missing: the request is never answered.
* `edit_profile.lua:23` tests a face that can never be refused. An upgrade leaves
  `is_guest` in the cache as it was. An edit is answered before the cache is
  written, and if its row fails the cache has the new profile all the same.

Frames:

* Two games in a zone share the room id: operations of the first reach the
  second, move its players' cursors, and these never get the frames skipped
  (`logic_game_mgr.lua:492`).
* A datagram of operations that arrives twice in its frame counts twice.
* A player whose client gave no UDP port gets no frames until it logs in again, and one
  that left and came back gets none of its old game: its seat has the old object.

Bonus:

* Even one user is paid twice by overlapping claims, or by a claim between two
  overlapping data requests. `add_chip` is not waited for: a taken bonus may never
  be paid. Two first requests insert two rows in `ugame`, which has no unique
  index, and `add_chip` then pays both.

Network:

* A WebSocket length of two bytes is read and written with its low byte first
  (`net_uv.cpp:326`, `tcp_session.cpp:282`): the two ends of this code agree.
  In the eight-byte form the mask is looked for behind four bytes (`:338`).
* `lua_close_session` never closes the socket: packets still arrive, and the
  services are told again when the peer ends (`TypeOK` allows `told = 2`).
  Only the unused `net_iocp_win.c` calls `clear_offline_session`, which returns
  sessions to the pool.
* Removing the last node of a chain of `hash_map_int.c` (`:60`) goes on from a
  null pointer; only the older C++ servers use it.

## 6. Not modelled, and what remains

The tree has some 390,000 lines. Nearly all are vendored (`3rd/`: protobuf,
libuv, Lua, hiredis, MySQL's client) or generated (`proto/*.pb.*`), and not the
server's own logic. The models cover the Lua servers and the C++ they run on,
which is the program; its older C++ servers are not started.

* The service table, the session pool, the memory pool and the hash map, as
  pure structures: they have no actors, and the pool's blocks are not told apart
  by anything modelled.
* Of the network layer: connecting and listening, UDP, write callbacks, the
  capacity of the receive buffer, longer WebSocket lengths, and the close for a length
  below 2 (`net_uv.cpp:152-155`), which no packet of `session_send` has. It is the same
  `uv_close` and break as that for a packet that is too long (`LoopCloses`).
* The database layer's close: no script calls it.
* Relogins, sessions and the lobby in one composition: `Sessions` has who is
  online, `LogicServer` where they sit; the product is beyond TLC and neither
  reads the other's variables.
* The client, MySQL, Redis and TCP are external: their part in the models is what
  the code in `src/` relies on.
