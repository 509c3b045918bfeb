----------------------------- MODULE AuthServer -----------------------------
(***************************************************************************)
(* The auth server: accounts in table uinfo of MySQL, their profiles       *)
(* cached in Redis for the game servers.  Sources, under src/src/script/:  *)
(* auth_server/guest.lua, uname_login.lua, account_upgrade.lua,            *)
(* edit_profile.lua, database/mysql_auth_center.lua, redis_auth_center.lua.*)
(*                                                                         *)
(* A handler starts a query and ends; a worker thread runs the query       *)
(* (Execute...), its callback is a later step of the loop.  MySQL and      *)
(* Redis have a mutex each: queries of either take effect one at a time,   *)
(* in any order.  Both are connected here (LogicBoot has the links).       *)
(*                                                                         *)
(* login_out.lua answers without touching any state.  A request with bad   *)
(* parameters is answered, or with uid 0 dropped, before any query.        *)
(***************************************************************************)
EXTENDS Integers, Sequences, FiniteSets

CONSTANTS
    Keys,       \* guest keys
    Names,      \* account names (with the password that belongs to them)
    Profiles,   \* what unick, uface and usex may say together
    Reqs,       \* the requests that can be under way at a time
    NewProfile, \* the profile of a new guest
    OldRows,    \* the table as the server finds it: no key and no name in two rows
    Nil,
    MaxUid,     \* bound: accounts
    MaxCame,    \* bound: requests of a behaviour
    MaxLost     \* bound: result sets that are lost after their query

ASSUME ReqsAssumption == IsFiniteSet(Reqs) /\ Reqs # {}
ASSUME ProfileAssumption == NewProfile \in Profiles
ASSUME OldRowsAssumption ==
    /\ OldRows \in Seq([guest_key : Keys, uname : Names \cup {Nil}, profile : Profiles,
                        is_guest : BOOLEAN])
    /\ Len(OldRows) <= MaxUid
    /\ \A u, v \in DOMAIN OldRows : u # v =>
          /\ OldRows[u].guest_key # OldRows[v].guest_key
          /\ OldRows[u].uname = OldRows[v].uname => OldRows[u].uname = Nil
ASSUME NilAssumption == Nil \notin Names \cup Profiles
ASSUME BoundsAssumption == MaxUid \in Nat /\ MaxCame \in Nat /\ MaxLost \in Nat

VARIABLES
    uinfo,     \* the rows of table uinfo; the index is the uid
    cache,     \* uid -> what Redis holds of it, or Nil
    req,       \* request -> the MySQL query it waits for
    redis,     \* request -> its Redis query, which no answer waits for
    came,      \* requests that came so far
    lost,      \* result sets lost so far
    disturbed  \* the uids whose cache and row were not written by one request
               \* at a time, every one successful

vars == <<uinfo, cache, req, redis, came, lost, disturbed>>

Uids == DOMAIN uinfo
Entries == [profile : Profiles, is_guest : BOOLEAN]
Rows == [guest_key : Keys, uname : Names \cup {Nil}, profile : Profiles,
         is_guest : BOOLEAN]

GuestStages == {"get_guest_user_info", "insert_guest_user_info"}
UpgradeStages == {"check_username_exist", "get_userinfo_by_uid", "do_account_upgrade"}
LoginReads == {"get_guest_user_info", "get_uinfo_by_uname_upwd"}
Reads == LoginReads \cup {"check_username_exist", "get_userinfo_by_uid"}
Writes == {"insert_guest_user_info", "do_account_upgrade", "edit_profile_info"}

\* A request slot: free, or its request ended in a Lua error.
Idle == [stage |-> "idle"]
Raised == [stage |-> "raised"]

\* A request under way: arg is the key, name or profile it came with, uid its
\* account (0: not known yet), entry what a select read of the account, and
\* closed the accounts that were no guests any more when it came.
Waitings == [stage : Reads \cup Writes, arg : Keys \cup Names \cup Profiles,
             uid : 0 .. MaxUid, entry : Entries \cup {Nil},
             result : {"", "ok", "none", "lost", "err"}, closed : SUBSET (1 .. MaxUid)]

RedisOps == [op : {"hmset", "hgetall", "got"}, uid : 1 .. MaxUid,
             profile : Profiles, entry : Entries \cup {Nil}]

TypeOK ==
    /\ uinfo \in Seq(Rows) /\ Len(uinfo) <= MaxUid
    /\ cache \in [1 .. MaxUid -> Entries \cup {Nil}]
    /\ req \in [Reqs -> Waitings \cup {Idle, Raised}]
    /\ redis \in [Reqs -> RedisOps \cup {Idle}]
    /\ came \in 0 .. MaxCame
    /\ lost \in 0 .. MaxLost
    /\ disturbed \subseteq 1 .. MaxUid

Init ==
    /\ uinfo = OldRows
    /\ cache = [u \in 1 .. MaxUid |-> Nil]
    /\ req = [q \in Reqs |-> Idle]
    /\ redis = [q \in Reqs |-> Idle]
    /\ came = 0
    /\ lost = 0
    /\ disturbed = {}

------------------------------------------------------------------------------
(* The requests                                                            *)

Entry(u) == [profile |-> uinfo[u].profile, is_guest |-> uinfo[u].is_guest]

Closed == {u \in Uids : ~uinfo[u].is_guest}

Query(q, stage, arg, uid, closed) ==
    req' = [req EXCEPT ![q] = [stage |-> stage, arg |-> arg, uid |-> uid, entry |-> Nil,
                               result |-> "", closed |-> closed]]

NextQuery(q, stage) == Query(q, stage, req[q].arg, req[q].uid, req[q].closed)

Answer(q) == req' = [req EXCEPT ![q] = Idle]

\* A Lua error in the callback: the request is never answered.
Raise(q) == req' = [req EXCEPT ![q] = Raised]

\* A request comes.  Bounds: its slot is free (one that is never answered keeps
\* it), and so is that of its Redis query; a behaviour has MaxCame of them.
Comes(q) ==
    /\ req[q] = Idle
    /\ redis[q] = Idle
    /\ came < MaxCame
    /\ came' = came + 1

guest_login(q, key) ==
    /\ Comes(q)
    /\ Query(q, "get_guest_user_info", key, 0, Closed)
    /\ UNCHANGED <<uinfo, cache, redis, lost, disturbed>>

uname_login_process(q, uname) ==
    /\ Comes(q)
    /\ Query(q, "get_uinfo_by_uname_upwd", uname, 0, {})
    /\ UNCHANGED <<uinfo, cache, redis, lost, disturbed>>

account_upgrade_process(q, u, uname) ==
    /\ Comes(q)
    /\ Query(q, "check_username_exist", uname, u, {})
    /\ UNCHANGED <<uinfo, cache, redis, lost, disturbed>>

\* Request p works on the profile of u, or holds a copy of it.
WorksOn(p, u) ==
    \/ req[p].stage = "edit_profile_info" /\ req[p].uid = u
    \/ req[p].stage \in LoginReads /\ req[p].uid = u
    \/ redis[p] # Idle /\ redis[p].uid = u

DisturbedBy(q, u) ==
    IF \E p \in Reqs \ {q} : WorksOn(p, u) THEN disturbed \cup {u} ELSE disturbed

\* edit_profile: the update of the row and the read of the cache start together.
edit_profile(q, u, profile) ==
    /\ Comes(q)
    /\ Query(q, "edit_profile_info", profile, u, {})
    /\ redis' = [redis EXCEPT ![q] = [op |-> "hgetall", uid |-> u, profile |-> profile,
                                      entry |-> Nil]]
    /\ disturbed' = DisturbedBy(q, u)
    /\ UNCHANGED <<uinfo, cache, lost>>

------------------------------------------------------------------------------
(* MySQL on the worker threads                                             *)

Waiting(q, stages) == req[q].stage \in stages /\ req[q].result = ""

\* The rows a select finds.  limit 1 gives any one of them.
Matches(w) ==
    {u \in Uids :
        \/ w.stage = "get_guest_user_info" /\ uinfo[u].guest_key = w.arg
        \/ w.stage \in {"get_uinfo_by_uname_upwd", "check_username_exist"}
              /\ uinfo[u].uname = w.arg
        \/ w.stage = "get_userinfo_by_uid" /\ u = w.uid}

\* A result set that mysql_store_result cannot fetch is no error: res is NULL.
ExecuteRead(q) ==
    LET w == req[q] IN
    /\ Waiting(q, Reads)
    /\ \/ /\ \E u \in Matches(w) :
                /\ req' = [req EXCEPT ![q].result = "ok", ![q].entry = Entry(u),
                              ![q].uid = IF w.stage \in LoginReads THEN u ELSE @]
                /\ disturbed' = IF w.stage \in LoginReads THEN DisturbedBy(q, u)
                                ELSE disturbed
          /\ UNCHANGED lost
       \/ /\ Matches(w) = {}
          /\ req' = [req EXCEPT ![q].result = "none"]
          /\ UNCHANGED <<lost, disturbed>>
       \/ /\ lost < MaxLost
          /\ lost' = lost + 1
          /\ req' = [req EXCEPT ![q].result = "lost"]
          /\ UNCHANGED disturbed
       \/ /\ req' = [req EXCEPT ![q].result = "err"]
          /\ UNCHANGED <<lost, disturbed>>
    /\ UNCHANGED <<uinfo, cache, redis, came>>

Written(w) ==
    IF w.stage = "insert_guest_user_info"
    THEN Append(uinfo, [guest_key |-> w.arg, uname |-> Nil, profile |-> NewProfile,
                        is_guest |-> TRUE])
    ELSE IF w.stage = "do_account_upgrade"
    THEN [uinfo EXCEPT ![w.uid].uname = w.arg, ![w.uid].is_guest = FALSE]
    ELSE [uinfo EXCEPT ![w.uid].profile = w.arg]

\* An insert or update.  An error may be reported although it took effect.
ExecuteWrite(q) ==
    LET w == req[q] IN
    /\ Waiting(q, Writes)
    /\ \/ /\ w.stage = "insert_guest_user_info" => Len(uinfo) < MaxUid
          /\ uinfo' = Written(w)
          /\ \E result \in {"ok", "err"} : req' = [req EXCEPT ![q].result = result]
          /\ UNCHANGED disturbed
       \/ /\ req' = [req EXCEPT ![q].result = "err"]
          /\ disturbed' = IF w.stage = "edit_profile_info" THEN disturbed \cup {w.uid}
                          ELSE disturbed
          /\ UNCHANGED uinfo
    /\ UNCHANGED <<cache, redis, came, lost>>

------------------------------------------------------------------------------
(* The callbacks of MySQL                                                  *)

Back(q, stage, results) == req[q].stage = stage /\ req[q].result \in results

\* The answer to a login is OK: what the select read goes to Redis.
LoginOK(q) ==
    /\ redis' = [redis EXCEPT ![q] = [op |-> "hmset", uid |-> req[q].uid,
                                      profile |-> req[q].entry.profile,
                                      entry |-> req[q].entry]]
    /\ Answer(q)

\* Mutant of NoAccount: only an empty result set inserts, a missing one raises.
NoAccount_Raise(q) ==
    IF req[q].result = "none" THEN NextQuery(q, "insert_guest_user_info") ELSE Raise(q)

\* get_guest_user_info found no row: insert one.
NoAccount(q) == NextQuery(q, "insert_guest_user_info")

\* Mutant of MayEnter: a registered account may be entered too.
MayEnter_Any(q) == TRUE

NotFound(q) == Back(q, "get_guest_user_info", {"none", "lost"})

\* Only a guest may log in with a guest key.
MayEnter(q) == req[q].entry.is_guest

\* guest_login calls itself after the insert.  (status, which nothing in the
\* code sets, is left out.)
GuestCallback(q) ==
    /\ \/ /\ \/ Back(q, "get_guest_user_info", {"err"})
             \/ Back(q, "insert_guest_user_info", {"err"})
             \/ Back(q, "get_guest_user_info", {"ok"}) /\ ~MayEnter(q)
          /\ Answer(q)
          /\ UNCHANGED redis
       \/ /\ NotFound(q)
          /\ NoAccount(q)
          /\ UNCHANGED redis
       \/ /\ Back(q, "insert_guest_user_info", {"ok"})
          /\ NextQuery(q, "get_guest_user_info")
          /\ UNCHANGED redis
       \/ /\ Back(q, "get_guest_user_info", {"ok"})
          /\ MayEnter(q)
          /\ LoginOK(q)
    /\ UNCHANGED <<uinfo, cache, came, lost, disturbed>>

\* The error branch of get_uinfo_by_uname_upwd calls cb_handle, which is nil
\* there: its parameter is named cb_handler.
UnameCallback(q) ==
    /\ \/ Back(q, "get_uinfo_by_uname_upwd", {"ok"}) /\ LoginOK(q)
       \/ /\ Back(q, "get_uinfo_by_uname_upwd", {"none", "lost"})
          /\ Answer(q)
          /\ UNCHANGED redis
       \/ /\ Back(q, "get_uinfo_by_uname_upwd", {"err"})
          /\ Raise(q)
          /\ UNCHANGED redis
    /\ UNCHANGED <<uinfo, cache, came, lost, disturbed>>

\* count(*) is 0.
NameFree(q) == req[q].result = "none"

\* account_upgrade_process with _do_account_upgrade: is the name free, is the
\* account a guest's, then the update.  The result of either select is indexed
\* without a look at it.
UpgradeCallback(q) ==
    /\ \/ /\ req[q].stage \in UpgradeStages
          /\ \/ req[q].result = "err"
             \/ Back(q, "check_username_exist", {"ok"}) /\ ~NameFree(q)
             \/ Back(q, "get_userinfo_by_uid", {"ok"}) /\ ~req[q].entry.is_guest
             \/ Back(q, "do_account_upgrade", {"ok"})
          /\ Answer(q)
       \/ /\ req[q].stage \in UpgradeStages
          /\ req[q].result = "lost"
          /\ Raise(q)
       \/ /\ Back(q, "check_username_exist", {"none", "ok"})
          /\ NameFree(q)
          /\ NextQuery(q, "get_userinfo_by_uid")
       \/ /\ Back(q, "get_userinfo_by_uid", {"ok"})
          /\ req[q].entry.is_guest
          /\ NextQuery(q, "do_account_upgrade")
    /\ UNCHANGED <<uinfo, cache, redis, came, lost, disturbed>>

EditCallback(q) ==
    /\ Back(q, "edit_profile_info", {"ok", "err"})
    /\ Answer(q)
    /\ UNCHANGED <<uinfo, cache, redis, came, lost, disturbed>>

------------------------------------------------------------------------------
(* Redis                                                                   *)

RedisEnds(q) == redis' = [redis EXCEPT ![q] = Idle]

\* A worker thread runs hmset; its callback only logs.
ExecuteSet(q) ==
    /\ redis[q] # Idle
    /\ redis[q].op = "hmset"
    /\ cache' = [cache EXCEPT ![redis[q].uid] = redis[q].entry]
    /\ RedisEnds(q)
    /\ UNCHANGED <<uinfo, req, came, lost, disturbed>>

ExecuteGet(q) ==
    /\ redis[q] # Idle
    /\ redis[q].op = "hgetall"
    /\ redis' = [redis EXCEPT ![q].op = "got", ![q].entry = cache[redis[q].uid]]
    /\ UNCHANGED <<uinfo, cache, req, came, lost, disturbed>>

\* Mutant of EditedEntry: what was read is written back.
EditedEntry_Old(q) == redis[q].entry

EditedEntry(q) == [redis[q].entry EXCEPT !.profile = redis[q].profile]

\* edit_profile_to_redis writes the whole entry back with the new profile; of an
\* account that is not cached there is nothing to write (a Lua error).
EditToRedis(q) ==
    /\ redis[q] # Idle
    /\ redis[q].op = "got"
    /\ IF redis[q].entry = Nil THEN RedisEnds(q)
       ELSE redis' = [redis EXCEPT ![q].op = "hmset", ![q].entry = EditedEntry(q)]
    /\ UNCHANGED <<uinfo, cache, req, came, lost, disturbed>>

\* A query without a reply, which its callback raises on or ignores.
RedisFails(q) ==
    /\ redis[q] # Idle
    /\ redis[q].op \in {"hmset", "hgetall"}
    /\ RedisEnds(q)
    /\ disturbed' = disturbed \cup {redis[q].uid}
    /\ UNCHANGED <<uinfo, cache, req, came, lost>>

------------------------------------------------------------------------------
Callback(q) == GuestCallback(q) \/ UnameCallback(q) \/ UpgradeCallback(q) \/ EditCallback(q)

Next ==
    \E q \in Reqs :
        \/ \E key \in Keys : guest_login(q, key)
        \/ \E uname \in Names : uname_login_process(q, uname)
        \/ \E u \in Uids, uname \in Names : account_upgrade_process(q, u, uname)
        \/ \E u \in Uids, profile \in Profiles : edit_profile(q, u, profile)
        \/ ExecuteRead(q) \/ ExecuteWrite(q)
        \/ GuestCallback(q) \/ UnameCallback(q) \/ UpgradeCallback(q) \/ EditCallback(q)
        \/ ExecuteSet(q) \/ ExecuteGet(q) \/ EditToRedis(q) \/ RedisFails(q)

Spec == Init /\ [][Next]_vars

\* Every query runs and every callback of MySQL is called.
Fairness == \A q \in Reqs : WF_vars(ExecuteRead(q) \/ ExecuteWrite(q) \/ Callback(q))

FairSpec == Spec /\ Fairness

------------------------------------------------------------------------------
(* What the auth server keeps right                                        *)

\* After the upgrade of an account took effect no guest login that comes later
\* enters it, and a guest login only enters an account of its own key.
GuestStaysOut ==
    [][\A q \in Reqs :
        req[q].stage = "get_guest_user_info" /\ redis[q] = Idle /\ redis'[q] # Idle =>
            /\ redis'[q].uid \notin req[q].closed
            /\ uinfo[redis'[q].uid].guest_key = req[q].arg]_vars

\* What Redis holds of an account that nobody works on agrees with its row, as
\* long as its logins and edits came one after the other and none failed.  The
\* cache never takes a guest for a registered user.
CacheAgrees ==
    \A u \in Uids : cache[u] # Nil =>
        /\ u \notin disturbed /\ (\A q \in Reqs : ~WorksOn(q, u)) =>
              cache[u].profile = uinfo[u].profile
        /\ uinfo[u].is_guest => cache[u].is_guest

\* A guest login, an upgrade's update and an edit are answered, whatever errors
\* the database reports and whatever results it loses.
GuestAnswered ==
    \A q \in Reqs : req[q].stage \in GuestStages \cup {"do_account_upgrade", "edit_profile_info"}
                        ~> req[q] = Idle
=============================================================================
