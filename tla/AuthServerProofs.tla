-------------------------- MODULE AuthServerProofs --------------------------
(***************************************************************************)
(* Proofs about AuthServer, for every number of accounts, overlapping      *)
(* requests, errors and lost results.                                      *)
(***************************************************************************)
EXTENDS AuthServer, SequenceTheorems, FiniteSetTheorems, TLAPS

(* The inductive invariant                                                 *)

NameStages == UpgradeStages \cup {"get_uinfo_by_uname_upwd"}
Stages == Reads \cup Writes

\* What a request of each stage came with, and the account it knows.
Formed(w) ==
    /\ w.stage \in GuestStages => w.arg \in Keys
    /\ w.stage \in NameStages => w.arg \in Names
    /\ w.stage = "edit_profile_info" => w.arg \in Profiles
    /\ w.stage \in UpgradeStages \cup {"edit_profile_info"} => w.uid \in Uids
    /\ w.stage \in LoginReads /\ w.result = "ok" => w.uid \in Uids /\ w.entry \in Entries
    /\ w.stage \in LoginReads /\ w.result # "ok" => w.uid = 0
    /\ w.stage = "insert_guest_user_info" => w.uid = 0
    /\ w.closed \subseteq Uids

\* A Redis query is about an account; only an edit has one beside its query.
RedisFormed(q) ==
    /\ redis[q] # Idle =>
          /\ redis[q].uid \in Uids
          /\ redis[q].op = "hmset" => redis[q].entry \in Entries
    /\ req[q].stage \in Stages \ {"edit_profile_info"} => redis[q] = Idle
    /\ req[q].stage = "edit_profile_info" /\ redis[q] # Idle => redis[q].uid = req[q].uid

RequestsFormed ==
    /\ \A q \in Reqs : req[q].stage \in Stages => Formed(req[q])
    /\ \A q \in Reqs : RedisFormed(q)
    /\ \A u \in 1 .. MaxUid : u \notin Uids => cache[u] = Nil

\* Accounts that were closed to guests when w came are closed, and a guest login
\* that may enter has found an open account of its key.
KeepsOut(w) ==
    /\ \A u \in w.closed : ~uinfo[u].is_guest
    /\ w.stage = "get_guest_user_info" /\ w.result = "ok" =>
          /\ uinfo[w.uid].guest_key = w.arg
          /\ w.entry.is_guest => w.uid \notin w.closed

ClosedStay == \A q \in Reqs : req[q].stage \in Stages => KeepsOut(req[q])

\* Every copy of a guest's account says that it is a guest's.
GuestCopies ==
    \A u \in Uids : uinfo[u].is_guest =>
        /\ cache[u] # Nil => cache[u].is_guest
        /\ \A q \in Reqs :
              /\ redis[q] # Idle /\ redis[q].uid = u /\ redis[q].entry # Nil =>
                    redis[q].entry.is_guest
              /\ req[q].stage \in LoginReads /\ req[q].result = "ok" /\ req[q].uid = u =>
                    req[q].entry.is_guest

\* The profile account u will have when the edit of p, if p is one, is written.
Coming(p, u) ==
    IF req[p].stage = "edit_profile_info" /\ req[p].uid = u /\ req[p].result = ""
    THEN req[p].arg ELSE uinfo[u].profile

\* The one request that works on u holds the profile to come, and brings it to
\* the cache if that has one.
Brings(p, u) ==
    /\ req[p].stage \in LoginReads /\ req[p].uid = u => req[p].entry.profile = Coming(p, u)
    /\ redis[p] = Idle /\ cache[u] # Nil => cache[u].profile = Coming(p, u)
    /\ redis[p] # Idle =>
          /\ redis[p].op = "hmset" => redis[p].entry.profile = Coming(p, u)
          /\ redis[p].op # "hmset" => redis[p].profile = Coming(p, u)
          /\ redis[p].op = "got" /\ redis[p].entry = Nil => cache[u] = Nil

Undisturbed ==
    \A u \in Uids \ disturbed :
        /\ \A p, q \in Reqs : WorksOn(p, u) /\ WorksOn(q, u) => p = q
        /\ \A p \in Reqs : WorksOn(p, u) => Brings(p, u)
        /\ cache[u] # Nil /\ (\A p \in Reqs : ~WorksOn(p, u)) =>
              cache[u].profile = uinfo[u].profile

RowsOf(key) == {u \in Uids : uinfo[u].guest_key = key}

\* The logins with key that found no row and have not tried to insert one.
Inserting(key) ==
    {q \in Reqs : /\ \/ Back(q, "get_guest_user_info", {"none", "lost"})
                     \/ Waiting(q, {"insert_guest_user_info"})
                  /\ req[q].arg = key}

\* A guest key is not unique, although sql/auth_center.sql:23 calls it so: overlapping
\* logins with it each insert an account (guest.lua:36).  Its accounts are bounded by
\* the requests under way and the lost results: once a row is there, every login that
\* comes later finds it.
GuestRowsBounded ==
    \A key \in Keys : RowsOf(key) # {} =>
        Cardinality(RowsOf(key)) + Cardinality(Inserting(key)) <= Cardinality(Reqs) + lost

AccountsOf(uname) == {u \in Uids : uinfo[u].uname = uname}

\* The upgrades to uname that found it free and have not tried to write it.
Upgrading(uname) ==
    {q \in Reqs : /\ \/ Back(q, "check_username_exist", {"none"})
                     \/ /\ req[q].stage = "get_userinfo_by_uid"
                        /\ req[q].result \in {"", "ok"}
                     \/ Waiting(q, {"do_account_upgrade"})
                  /\ req[q].arg = uname}

\* Nor is the name of an upgrade, which game.proto:107 calls globally unique: it is
\* checked two queries before it is written.  As many accounts get one name as upgrades
\* to it overlap, and nobody gets a name that an account had when the upgrade came.
NamesBounded ==
    \A uname \in Names : AccountsOf(uname) # {} =>
        Cardinality(AccountsOf(uname)) + Cardinality(Upgrading(uname)) <= Cardinality(Reqs)

IInv ==
    /\ TypeOK
    /\ RequestsFormed
    /\ ClosedStay
    /\ GuestCopies
    /\ Undisturbed
    /\ GuestRowsBounded
    /\ NamesBounded

------------------------------------------------------------------------------
(* Requests and Redis queries                                              *)

\* A step of one request.
Step(q) ==
    \/ \E key \in Keys : guest_login(q, key)
    \/ \E uname \in Names : uname_login_process(q, uname)
    \/ \E u \in Uids, uname \in Names : account_upgrade_process(q, u, uname)
    \/ \E u \in Uids, profile \in Profiles : edit_profile(q, u, profile)
    \/ ExecuteRead(q) \/ ExecuteWrite(q)
    \/ GuestCallback(q) \/ UnameCallback(q) \/ UpgradeCallback(q) \/ EditCallback(q)
    \/ ExecuteSet(q) \/ ExecuteGet(q) \/ EditToRedis(q) \/ RedisFails(q)

LEMMA NextIsStep == Next <=> \E q \in Reqs : Step(q)
BY DEF Next, Step

LEMMA StagesDiffer ==
    /\ "idle" \notin Stages /\ "raised" \notin Stages
    /\ Reads \cup Writes = Stages /\ LoginReads \subseteq Stages
    /\ GuestStages \subseteq Stages /\ UpgradeStages \subseteq Stages
BY DEF Stages, Reads, Writes, LoginReads, GuestStages, UpgradeStages

\* The fields of a request that is under way.
LEMMA WaitingIs ==
    ASSUME TypeOK, NEW q \in Reqs, req[q].stage \in Stages
    PROVE  /\ req[q] \in Waitings
           /\ req[q].arg \in Keys \cup Names \cup Profiles
           /\ req[q].uid \in 0 .. MaxUid
           /\ req[q].entry \in Entries \cup {Nil}
           /\ req[q].result \in {"", "ok", "none", "lost", "err"}
           /\ req[q].closed \in SUBSET (1 .. MaxUid)
<1>1. req[q] # Idle /\ req[q] # Raised
  BY StagesDiffer DEF Idle, Raised
<1>2. req[q] \in Waitings
  BY <1>1 DEF TypeOK
<1> QED
  BY <1>2 DEF Waitings

\* The fields of a Redis query, and that it is no free slot.
LEMMA RedisOpIs ==
    ASSUME NEW r \in RedisOps
    PROVE  /\ r # Idle
           /\ r.op \in {"hmset", "hgetall", "got"}
           /\ r.uid \in 1 .. MaxUid
           /\ r.profile \in Profiles
           /\ r.entry \in Entries \cup {Nil}
<1>1. DOMAIN r = {"op", "uid", "profile", "entry"}
  BY DEF RedisOps
<1>2. DOMAIN Idle = {"stage"}
  BY DEF Idle
<1>3. r # Idle
  BY <1>1, <1>2
<1> QED
  BY <1>3 DEF RedisOps

LEMMA UidsAre == ASSUME TypeOK PROVE Uids = 1 .. Len(uinfo) /\ Len(uinfo) \in Nat
                                     /\ Uids \subseteq 1 .. MaxUid /\ 0 \notin Uids
<1>1. Len(uinfo) \in Nat /\ DOMAIN uinfo = 1 .. Len(uinfo) /\ Len(uinfo) <= MaxUid
  BY DEF TypeOK
<1> QED
  BY <1>1, BoundsAssumption DEF Uids

\* An account is a row.
LEMMA RowIs ==
    ASSUME TypeOK, NEW u \in Uids
    PROVE  /\ uinfo[u] \in Rows
           /\ uinfo[u].guest_key \in Keys /\ uinfo[u].uname \in Names \cup {Nil}
           /\ uinfo[u].profile \in Profiles /\ uinfo[u].is_guest \in BOOLEAN
           /\ Entry(u) \in Entries
           /\ Entry(u).profile = uinfo[u].profile /\ Entry(u).is_guest = uinfo[u].is_guest
<1>1. uinfo[u] \in Rows
  BY DEF TypeOK, Uids
<1> QED
  BY <1>1 DEF Rows, Entry, Entries

\* What Query makes of the requests.
LEMMA QueryIs ==
    ASSUME TypeOK, NEW q \in Reqs, NEW stage \in Stages,
           NEW arg \in Keys \cup Names \cup Profiles, NEW u \in 0 .. MaxUid,
           NEW closed \in SUBSET (1 .. MaxUid), Query(q, stage, arg, u, closed)
    PROVE  /\ req' \in [Reqs -> Waitings \cup {Idle, Raised}]
           /\ \A p \in Reqs : p # q => req'[p] = req[p]
           /\ req'[q].stage = stage /\ req'[q].arg = arg /\ req'[q].uid = u
           /\ req'[q].entry = Nil /\ req'[q].result = "" /\ req'[q].closed = closed
<1>1. [stage |-> stage, arg |-> arg, uid |-> u, entry |-> Nil, result |-> "",
       closed |-> closed] \in Waitings
  BY StagesDiffer DEF Waitings
<1> QED
  BY <1>1 DEF TypeOK, Query

\* Of a request that remembers no closed accounts.
LEMMA NewQueryIs ==
    ASSUME TypeOK, NEW q \in Reqs, NEW stage \in Stages,
           NEW arg \in Keys \cup Names \cup Profiles, NEW u \in 0 .. MaxUid,
           Query(q, stage, arg, u, {})
    PROVE  /\ req' \in [Reqs -> Waitings \cup {Idle, Raised}]
           /\ \A p \in Reqs : p # q => req'[p] = req[p]
           /\ req'[q].stage = stage /\ req'[q].arg = arg /\ req'[q].uid = u
           /\ req'[q].result = "" /\ req'[q].closed = {}
<1> DEFINE none == {}
<1>1. none \in SUBSET (1 .. MaxUid) /\ Query(q, stage, arg, u, none)
  OBVIOUS
<1> HIDE DEF none
<1>2. /\ req' \in [Reqs -> Waitings \cup {Idle, Raised}]
      /\ \A p \in Reqs : p # q => req'[p] = req[p]
      /\ req'[q].stage = stage /\ req'[q].arg = arg /\ req'[q].uid = u
      /\ req'[q].result = "" /\ req'[q].closed = none
  BY <1>1, QueryIs
<1> QED
  BY <1>2 DEF none

\* Every change of a request is one of its own slot.
LEMMA ReqChange ==
    ASSUME TypeOK, NEW q \in Reqs, NEW w \in Waitings \cup {Idle, Raised},
           req' = [req EXCEPT ![q] = w]
    PROVE  /\ req' \in [Reqs -> Waitings \cup {Idle, Raised}]
           /\ req'[q] = w
           /\ \A p \in Reqs : p # q => req'[p] = req[p]
BY DEF TypeOK

\* A result fills in the request.
LEMMA ReqResult ==
    ASSUME TypeOK, NEW q \in Reqs, req[q].stage \in Stages,
           NEW result \in {"ok", "none", "lost", "err"},
           req' = [req EXCEPT ![q].result = result]
    PROVE  /\ req' \in [Reqs -> Waitings \cup {Idle, Raised}]
           /\ req'[q].stage = req[q].stage /\ req'[q].arg = req[q].arg
           /\ req'[q].uid = req[q].uid /\ req'[q].entry = req[q].entry
           /\ req'[q].closed = req[q].closed /\ req'[q].result = result
           /\ \A p \in Reqs : p # q => req'[p] = req[p]
<1>1. req[q] \in Waitings
  BY WaitingIs
<1>2. [req[q] EXCEPT !.result = result] \in Waitings
  BY <1>1 DEF Waitings
<1>3. req'[q] = [req[q] EXCEPT !.result = result]
  BY DEF TypeOK
<1> QED
  BY <1>1, <1>2, <1>3 DEF TypeOK, Waitings

\* A row that was found fills in the request.
LEMMA ReqFound ==
    ASSUME TypeOK, NEW q \in Reqs, req[q].stage \in Stages,
           NEW e \in Entries, NEW u \in 0 .. MaxUid,
           req' = [req EXCEPT ![q].result = "ok", ![q].entry = e, ![q].uid = u]
    PROVE  /\ req' \in [Reqs -> Waitings \cup {Idle, Raised}]
           /\ req'[q].stage = req[q].stage /\ req'[q].arg = req[q].arg
           /\ req'[q].uid = u /\ req'[q].entry = e
           /\ req'[q].closed = req[q].closed /\ req'[q].result = "ok"
           /\ \A p \in Reqs : p # q => req'[p] = req[p]
<1>1. req[q] \in Waitings
  BY WaitingIs
<1>2. [req[q] EXCEPT !.result = "ok", !.entry = e, !.uid = u] \in Waitings
  BY <1>1 DEF Waitings
<1>3. req'[q] = [req[q] EXCEPT !.result = "ok", !.entry = e, !.uid = u]
  BY DEF TypeOK
<1> QED
  BY <1>1, <1>2, <1>3 DEF TypeOK, Waitings

\* Every change of a Redis query is one of its own slot.
LEMMA RedisChange ==
    ASSUME TypeOK, NEW q \in Reqs, NEW r \in RedisOps \cup {Idle},
           redis' = [redis EXCEPT ![q] = r]
    PROVE  /\ redis' \in [Reqs -> RedisOps \cup {Idle}]
           /\ redis'[q] = r
           /\ \A p \in Reqs : p # q => redis'[p] = redis[p]
BY DEF TypeOK

------------------------------------------------------------------------------
(* What each action does, told apart from how it writes it                 *)

\* The step leaves the other requests and their Redis queries alone, and the
\* new values of q's are of their types.
Others(q) ==
    /\ req' \in [Reqs -> Waitings \cup {Idle, Raised}]
    /\ redis' \in [Reqs -> RedisOps \cup {Idle}]
    /\ \A p \in Reqs : p # q => req'[p] = req[p] /\ redis'[p] = redis[p]

SameTables == UNCHANGED <<uinfo, cache>>

\* What the request that begins in q waits for.
Begins(q, stage, arg, u, closed) ==
    /\ req[q] = Idle /\ redis[q] = Idle
    /\ req'[q].stage = stage /\ req'[q].arg = arg /\ req'[q].uid = u
    /\ req'[q].result = "" /\ req'[q].closed = closed

\* What q waits for next, for the same purpose.
GoesOn(q, stage) ==
    /\ req'[q].stage = stage /\ req'[q].arg = req[q].arg /\ req'[q].uid = req[q].uid
    /\ req'[q].result = "" /\ req'[q].closed = req[q].closed
    /\ redis'[q] = redis[q]

\* The query of q has a result; what it read of an account is in entry.
HasResult(q, result) ==
    /\ req'[q].stage = req[q].stage /\ req'[q].arg = req[q].arg
    /\ req'[q].closed = req[q].closed /\ req'[q].result = result
    /\ redis'[q] = redis[q]

\* q is answered, or never will be.
Over(q) ==
    /\ req[q].stage \in Stages
    /\ req'[q] \in {Idle, Raised}

\* A login or an upgrade begins, or an edit.
NewRequest(q) ==
    /\ SameTables /\ redis'[q] = redis[q] /\ disturbed' = disturbed /\ lost' = lost
    /\ \/ \E key \in Keys : Begins(q, "get_guest_user_info", key, 0, Closed)
       \/ \E uname \in Names : Begins(q, "get_uinfo_by_uname_upwd", uname, 0, {})
       \/ \E u \in Uids, uname \in Names : Begins(q, "check_username_exist", uname, u, {})

NewEdit(q, u, profile) ==
    /\ SameTables /\ disturbed' = DisturbedBy(q, u) /\ lost' = lost
    /\ Begins(q, "edit_profile_info", profile, u, {})
    /\ redis'[q] \in RedisOps /\ redis'[q] # Idle
    /\ redis'[q].op = "hgetall" /\ redis'[q].uid = u
    /\ redis'[q].profile = profile /\ redis'[q].entry = Nil

LEMMA guest_loginIs ==
    ASSUME TypeOK, NEW q \in Reqs, NEW key \in Keys, guest_login(q, key)
    PROVE  /\ Others(q) /\ SameTables /\ redis'[q] = redis[q]
           /\ Begins(q, "get_guest_user_info", key, 0, Closed)
           /\ disturbed' = disturbed /\ lost' = lost /\ came' \in 0 .. MaxCame
<1>1. Closed \in SUBSET (1 .. MaxUid) /\ 0 \in 0 .. MaxUid
  BY UidsAre, BoundsAssumption DEF Closed
<1>2. "get_guest_user_info" \in Stages
  BY DEF Stages, Reads, LoginReads
<1>3. came' \in 0 .. MaxCame
  BY BoundsAssumption DEF guest_login, Comes, TypeOK
<1>4. Query(q, "get_guest_user_info", key, 0, Closed)
  BY DEF guest_login
<1>5. redis' = redis /\ req[q] = Idle /\ redis[q] = Idle /\ redis \in [Reqs -> RedisOps \cup {Idle}]
  BY DEF guest_login, Comes, TypeOK
<1>6. UNCHANGED <<uinfo, cache, disturbed, lost>>
  BY DEF guest_login
<1>7. key \in Keys \cup Names \cup Profiles
  OBVIOUS
<1> DEFINE stage == "get_guest_user_info"
           u == 0
           closed == Closed
<1>8. /\ stage \in Stages /\ key \in Keys \cup Names \cup Profiles
      /\ u \in 0 .. MaxUid /\ closed \in SUBSET (1 .. MaxUid)
      /\ Query(q, stage, key, u, closed)
  BY <1>1, <1>2, <1>4, <1>7
<1> HIDE DEF stage, u, closed
<1>9. /\ req' \in [Reqs -> Waitings \cup {Idle, Raised}]
      /\ \A p \in Reqs : p # q => req'[p] = req[p]
      /\ req'[q].stage = stage /\ req'[q].arg = key /\ req'[q].uid = u
      /\ req'[q].result = "" /\ req'[q].closed = closed
  BY <1>8, QueryIs
<1> QED
  BY <1>3, <1>5, <1>6, <1>9 DEF Others, Begins, SameTables, stage, u, closed

LEMMA uname_login_processIs ==
    ASSUME TypeOK, NEW q \in Reqs, NEW uname \in Names, uname_login_process(q, uname)
    PROVE  /\ Others(q) /\ SameTables /\ redis'[q] = redis[q]
           /\ Begins(q, "get_uinfo_by_uname_upwd", uname, 0, {})
           /\ disturbed' = disturbed /\ lost' = lost /\ came' \in 0 .. MaxCame
<1>1. {} \in SUBSET (1 .. MaxUid) /\ 0 \in 0 .. MaxUid
  BY BoundsAssumption
<1>2. "get_uinfo_by_uname_upwd" \in Stages
  BY DEF Stages, Reads, LoginReads
<1>3. came' \in 0 .. MaxCame
  BY BoundsAssumption DEF uname_login_process, Comes, TypeOK
<1>4. Query(q, "get_uinfo_by_uname_upwd", uname, 0, {})
  BY DEF uname_login_process
<1>5. redis' = redis /\ req[q] = Idle /\ redis[q] = Idle /\ redis \in [Reqs -> RedisOps \cup {Idle}]
  BY DEF uname_login_process, Comes, TypeOK
<1>6. UNCHANGED <<uinfo, cache, disturbed, lost>>
  BY DEF uname_login_process
<1>7. uname \in Keys \cup Names \cup Profiles
  OBVIOUS
<1> DEFINE stage == "get_uinfo_by_uname_upwd"
           u == 0
<1>8. /\ stage \in Stages /\ uname \in Keys \cup Names \cup Profiles
      /\ u \in 0 .. MaxUid
      /\ Query(q, stage, uname, u, {})
  BY <1>1, <1>2, <1>4, <1>7
<1> HIDE DEF stage, u
<1>9. /\ req' \in [Reqs -> Waitings \cup {Idle, Raised}]
      /\ \A p \in Reqs : p # q => req'[p] = req[p]
      /\ req'[q].stage = stage /\ req'[q].arg = uname /\ req'[q].uid = u
      /\ req'[q].result = "" /\ req'[q].closed = {}
  BY <1>8, NewQueryIs
<1> QED
  BY <1>3, <1>5, <1>6, <1>9 DEF Others, Begins, SameTables, stage, u

LEMMA account_upgrade_processIs ==
    ASSUME TypeOK, NEW q \in Reqs, NEW u \in Uids, NEW uname \in Names,
           account_upgrade_process(q, u, uname)
    PROVE  /\ Others(q) /\ SameTables /\ redis'[q] = redis[q]
           /\ Begins(q, "check_username_exist", uname, u, {})
           /\ disturbed' = disturbed /\ lost' = lost /\ came' \in 0 .. MaxCame
<1>1. {} \in SUBSET (1 .. MaxUid) /\ u \in 0 .. MaxUid
  BY UidsAre, BoundsAssumption
<1>2. "check_username_exist" \in Stages
  BY DEF Stages, Reads
<1>3. came' \in 0 .. MaxCame
  BY BoundsAssumption DEF account_upgrade_process, Comes, TypeOK
<1>4. Query(q, "check_username_exist", uname, u, {})
  BY DEF account_upgrade_process
<1>5. redis' = redis /\ req[q] = Idle /\ redis[q] = Idle /\ redis \in [Reqs -> RedisOps \cup {Idle}]
  BY DEF account_upgrade_process, Comes, TypeOK
<1>6. UNCHANGED <<uinfo, cache, disturbed, lost>>
  BY DEF account_upgrade_process
<1>7. uname \in Keys \cup Names \cup Profiles
  OBVIOUS
<1> DEFINE stage == "check_username_exist"
<1>8. /\ stage \in Stages /\ uname \in Keys \cup Names \cup Profiles
      /\ u \in 0 .. MaxUid
      /\ Query(q, stage, uname, u, {})
  BY <1>1, <1>2, <1>4, <1>7
<1> HIDE DEF stage
<1>9. /\ req' \in [Reqs -> Waitings \cup {Idle, Raised}]
      /\ \A p \in Reqs : p # q => req'[p] = req[p]
      /\ req'[q].stage = stage /\ req'[q].arg = uname /\ req'[q].uid = u
      /\ req'[q].result = "" /\ req'[q].closed = {}
  BY <1>8, NewQueryIs
<1> QED
  BY <1>3, <1>5, <1>6, <1>9 DEF Others, Begins, SameTables, stage

LEMMA edit_profileIs ==
    ASSUME TypeOK, NEW q \in Reqs, NEW u \in Uids, NEW profile \in Profiles,
           edit_profile(q, u, profile)
    PROVE  /\ Others(q) /\ SameTables
           /\ Begins(q, "edit_profile_info", profile, u, {})
           /\ redis'[q] \in RedisOps /\ redis'[q] # Idle
           /\ redis'[q].op = "hgetall" /\ redis'[q].uid = u
           /\ redis'[q].profile = profile /\ redis'[q].entry = Nil
           /\ disturbed' = DisturbedBy(q, u)
           /\ lost' = lost /\ came' \in 0 .. MaxCame
<1>1. {} \in SUBSET (1 .. MaxUid) /\ u \in 0 .. MaxUid /\ u \in 1 .. MaxUid
  BY UidsAre, BoundsAssumption
<1>2. "edit_profile_info" \in Stages
  BY DEF Stages, Writes
<1>3. came' \in 0 .. MaxCame
  BY BoundsAssumption DEF edit_profile, Comes, TypeOK
<1> DEFINE r == [op |-> "hgetall", uid |-> u, profile |-> profile, entry |-> Nil]
<1>4. r \in RedisOps /\ redis' = [redis EXCEPT ![q] = r]
  BY <1>1 DEF RedisOps, edit_profile
<1>5. /\ redis' \in [Reqs -> RedisOps \cup {Idle}] /\ redis'[q] = r
      /\ \A p \in Reqs : p # q => redis'[p] = redis[p]
  BY <1>4, RedisChange
<1>6. r # Idle
  BY <1>4, RedisOpIs
<1>7. Query(q, "edit_profile_info", profile, u, {})
  BY DEF edit_profile
<1>8. req[q] = Idle /\ redis[q] = Idle
  BY DEF edit_profile, Comes
<1>9. UNCHANGED <<uinfo, cache, lost>> /\ disturbed' = DisturbedBy(q, u)
  BY DEF edit_profile
<1>10. profile \in Keys \cup Names \cup Profiles
  OBVIOUS
<1>11. /\ req' \in [Reqs -> Waitings \cup {Idle, Raised}]
       /\ \A p \in Reqs : p # q => req'[p] = req[p]
       /\ req'[q].stage = "edit_profile_info" /\ req'[q].arg = profile /\ req'[q].uid = u
       /\ req'[q].result = "" /\ req'[q].closed = {}
  <2> DEFINE stage == "edit_profile_info"
  <2>1. /\ stage \in Stages /\ profile \in Keys \cup Names \cup Profiles
        /\ u \in 0 .. MaxUid /\ Query(q, stage, profile, u, {})
    BY <1>1, <1>2, <1>7, <1>10
  <2> HIDE DEF stage
  <2>2. /\ req' \in [Reqs -> Waitings \cup {Idle, Raised}]
        /\ \A p \in Reqs : p # q => req'[p] = req[p]
        /\ req'[q].stage = stage /\ req'[q].arg = profile /\ req'[q].uid = u
        /\ req'[q].result = "" /\ req'[q].closed = {}
    BY <2>1, NewQueryIs
  <2> QED
    BY <2>2 DEF stage
<1>12. /\ redis'[q] \in RedisOps /\ redis'[q] # Idle
       /\ redis'[q].op = "hgetall" /\ redis'[q].uid = u
       /\ redis'[q].profile = profile /\ redis'[q].entry = Nil
  BY <1>4, <1>5, <1>6
<1> HIDE DEF r
<1>13. Others(q) /\ Begins(q, "edit_profile_info", profile, u, {})
  <2>1. Others(q)
    BY <1>5, <1>11 DEF Others
  <2>2. Begins(q, "edit_profile_info", profile, u, {})
    BY <1>8, <1>11 DEF Begins
  <2> QED
    BY <2>1, <2>2
<1> QED
  BY <1>3, <1>9, <1>12, <1>13 DEF SameTables

\* A select ends: it found a row, none, its result was lost, or it failed.
ReadEnds(q) ==
    /\ SameTables /\ redis'[q] = redis[q]
    /\ Waiting(q, Reads)
    /\ \/ \E u \in Matches(req[q]) :
             /\ HasResult(q, "ok") /\ req'[q].entry = Entry(u)
             /\ req'[q].uid = IF req[q].stage \in LoginReads THEN u ELSE req[q].uid
             /\ disturbed' = IF req[q].stage \in LoginReads THEN DisturbedBy(q, u)
                             ELSE disturbed
             /\ lost' = lost
       \/ /\ Matches(req[q]) = {} /\ HasResult(q, "none")
          /\ req'[q].entry = req[q].entry /\ req'[q].uid = req[q].uid
          /\ lost' = lost /\ disturbed' = disturbed
       \/ /\ HasResult(q, "lost")
          /\ req'[q].entry = req[q].entry /\ req'[q].uid = req[q].uid
          /\ lost < MaxLost /\ lost' = lost + 1 /\ disturbed' = disturbed
       \/ /\ HasResult(q, "err")
          /\ req'[q].entry = req[q].entry /\ req'[q].uid = req[q].uid
          /\ lost' = lost /\ disturbed' = disturbed

LEMMA ExecuteReadIs ==
    ASSUME TypeOK, NEW q \in Reqs, ExecuteRead(q)
    PROVE  Others(q) /\ ReadEnds(q) /\ came' = came
<1>1. /\ req[q].stage \in Stages /\ Waiting(q, Reads)
      /\ UNCHANGED <<uinfo, cache, redis, came>>
      /\ redis \in [Reqs -> RedisOps \cup {Idle}]
  BY StagesDiffer DEF ExecuteRead, Waiting, TypeOK
<1>2. ASSUME NEW u \in Matches(req[q]),
             req' = [req EXCEPT ![q].result = "ok", ![q].entry = Entry(u),
                         ![q].uid = IF req[q].stage \in LoginReads THEN u ELSE @]
      PROVE  /\ Others(q) /\ HasResult(q, "ok") /\ req'[q].entry = Entry(u)
             /\ req'[q].uid = IF req[q].stage \in LoginReads THEN u ELSE req[q].uid
  <2>1. u \in Uids /\ Entry(u) \in Entries
    BY RowIs DEF Matches
  <2> DEFINE v == IF req[q].stage \in LoginReads THEN u ELSE req[q].uid
  <2>2. v \in 0 .. MaxUid
    <3>1. u \in 0 .. MaxUid
      BY <2>1, UidsAre, BoundsAssumption
    <3>2. req[q].uid \in 0 .. MaxUid
      BY <1>1, WaitingIs
    <3> QED
      BY <3>1, <3>2
  <2>3. req' = [req EXCEPT ![q].result = "ok", ![q].entry = Entry(u), ![q].uid = v]
    BY <1>2
  <2> HIDE DEF v
  <2>4. /\ req' \in [Reqs -> Waitings \cup {Idle, Raised}]
        /\ req'[q].stage = req[q].stage /\ req'[q].arg = req[q].arg
        /\ req'[q].uid = v /\ req'[q].entry = Entry(u)
        /\ req'[q].closed = req[q].closed /\ req'[q].result = "ok"
        /\ \A p \in Reqs : p # q => req'[p] = req[p]
    BY <1>1, <2>1, <2>2, <2>3, ReqFound
  <2> QED
    BY <1>1, <2>4 DEF Others, HasResult, v
<1>3. ASSUME NEW result \in {"none", "lost", "err"}, req' = [req EXCEPT ![q].result = result]
      PROVE  /\ Others(q) /\ HasResult(q, result)
             /\ req'[q].entry = req[q].entry /\ req'[q].uid = req[q].uid
  BY <1>1, <1>3, ReqResult DEF Others, HasResult
<1>4. CASE \E u \in Matches(req[q]) :
              /\ req' = [req EXCEPT ![q].result = "ok", ![q].entry = Entry(u),
                            ![q].uid = IF req[q].stage \in LoginReads THEN u ELSE @]
              /\ disturbed' = IF req[q].stage \in LoginReads THEN DisturbedBy(q, u)
                              ELSE disturbed
              /\ lost' = lost
  BY <1>1, <1>2, <1>4 DEF SameTables, ReadEnds
<1>5. CASE /\ Matches(req[q]) = {} /\ req' = [req EXCEPT ![q].result = "none"]
           /\ UNCHANGED <<lost, disturbed>>
  BY <1>1, <1>3, <1>5 DEF SameTables, ReadEnds
<1>6. CASE /\ lost < MaxLost /\ lost' = lost + 1
           /\ req' = [req EXCEPT ![q].result = "lost"] /\ UNCHANGED disturbed
  BY <1>1, <1>3, <1>6 DEF SameTables, ReadEnds
<1>7. CASE req' = [req EXCEPT ![q].result = "err"] /\ UNCHANGED <<lost, disturbed>>
  BY <1>1, <1>3, <1>7 DEF SameTables, ReadEnds
<1> QED
  BY <1>4, <1>5, <1>6, <1>7 DEF ExecuteRead

\* An insert or update ends: it took effect, reported or not, or it failed.
WriteEnds(q) ==
    /\ UNCHANGED <<cache, lost>> /\ redis'[q] = redis[q]
    /\ Waiting(q, Writes) /\ req'[q].uid = req[q].uid
    /\ \/ /\ req[q].stage = "insert_guest_user_info" => Len(uinfo) < MaxUid
          /\ uinfo' = Written(req[q]) /\ disturbed' = disturbed
          /\ HasResult(q, "ok") \/ HasResult(q, "err")
       \/ /\ HasResult(q, "err") /\ uinfo' = uinfo
          /\ disturbed' = IF req[q].stage = "edit_profile_info"
                          THEN disturbed \cup {req[q].uid} ELSE disturbed

LEMMA ExecuteWriteIs ==
    ASSUME TypeOK, NEW q \in Reqs, ExecuteWrite(q)
    PROVE  Others(q) /\ WriteEnds(q) /\ came' = came
<1>1. /\ req[q].stage \in Stages /\ Waiting(q, Writes)
      /\ UNCHANGED <<cache, redis, came, lost>>
      /\ redis \in [Reqs -> RedisOps \cup {Idle}]
  BY StagesDiffer DEF ExecuteWrite, Waiting, TypeOK
<1>2. ASSUME NEW result \in {"ok", "err"}, req' = [req EXCEPT ![q].result = result]
      PROVE  Others(q) /\ HasResult(q, result) /\ req'[q].uid = req[q].uid
  BY <1>1, <1>2, ReqResult DEF Others, HasResult
<1>3. CASE /\ req[q].stage = "insert_guest_user_info" => Len(uinfo) < MaxUid
           /\ uinfo' = Written(req[q])
           /\ \E result \in {"ok", "err"} : req' = [req EXCEPT ![q].result = result]
           /\ UNCHANGED disturbed
  BY <1>1, <1>2, <1>3 DEF WriteEnds
<1>4. CASE /\ req' = [req EXCEPT ![q].result = "err"]
           /\ disturbed' = IF req[q].stage = "edit_profile_info"
                           THEN disturbed \cup {req[q].uid} ELSE disturbed
           /\ UNCHANGED uinfo
  BY <1>1, <1>2, <1>4 DEF WriteEnds
<1> QED
  BY <1>3, <1>4 DEF ExecuteWrite

\* The moves from one query of a request to its next.
Moves == {<<"get_guest_user_info", "none", "insert_guest_user_info">>,
          <<"get_guest_user_info", "lost", "insert_guest_user_info">>,
          <<"insert_guest_user_info", "ok", "get_guest_user_info">>,
          <<"check_username_exist", "none", "get_userinfo_by_uid">>,
          <<"get_userinfo_by_uid", "ok", "do_account_upgrade">>}

\* A callback: the login is OK, the request is over, or its next query begins.
CallbackDoes(q) ==
    \/ /\ req[q].stage \in LoginReads /\ req[q].result = "ok"
       /\ req[q].stage = "get_guest_user_info" => req[q].entry.is_guest
       /\ req'[q] = Idle
       /\ redis' = [redis EXCEPT ![q] = [op |-> "hmset", uid |-> req[q].uid,
                                         profile |-> req[q].entry.profile,
                                         entry |-> req[q].entry]]
    \/ Over(q) /\ redis' = redis
    \/ \E stage \in Stages :
          /\ <<req[q].stage, req[q].result, stage>> \in Moves
          /\ GoesOn(q, stage) /\ redis' = redis

LEMMA AnswerIs ==
    ASSUME TypeOK, NEW q \in Reqs, Answer(q) \/ Raise(q)
    PROVE  /\ req' \in [Reqs -> Waitings \cup {Idle, Raised}]
           /\ Answer(q) => req'[q] = Idle
           /\ req'[q] \in {Idle, Raised}
           /\ \A p \in Reqs : p # q => req'[p] = req[p]
BY ReqChange DEF Answer, Raise, TypeOK

LEMMA NextQueryIs ==
    ASSUME TypeOK, NEW q \in Reqs, NEW stage \in Stages, req[q].stage \in Stages,
           NextQuery(q, stage)
    PROVE  /\ req' \in [Reqs -> Waitings \cup {Idle, Raised}]
           /\ redis' = redis => GoesOn(q, stage)
           /\ \A p \in Reqs : p # q => req'[p] = req[p]
<1>1. /\ req[q].arg \in Keys \cup Names \cup Profiles
      /\ req[q].uid \in 0 .. MaxUid
      /\ req[q].closed \in SUBSET (1 .. MaxUid)
  BY WaitingIs
<1>2. Query(q, stage, req[q].arg, req[q].uid, req[q].closed)
  BY DEF NextQuery
<1> DEFINE arg == req[q].arg
           u == req[q].uid
           closed == req[q].closed
<1>3. /\ arg \in Keys \cup Names \cup Profiles
      /\ u \in 0 .. MaxUid /\ closed \in SUBSET (1 .. MaxUid)
      /\ Query(q, stage, arg, u, closed)
  BY <1>1, <1>2
<1> HIDE DEF arg, u, closed
<1>4. /\ req' \in [Reqs -> Waitings \cup {Idle, Raised}]
      /\ \A p \in Reqs : p # q => req'[p] = req[p]
      /\ req'[q].stage = stage /\ req'[q].arg = arg /\ req'[q].uid = u
      /\ req'[q].result = "" /\ req'[q].closed = closed
  BY <1>3, QueryIs
<1> QED
  BY <1>4 DEF GoesOn, arg, u, closed

LEMMA CallbackIs ==
    ASSUME TypeOK, NEW q \in Reqs, Callback(q)
    PROVE  /\ SameTables /\ UNCHANGED <<came, lost, disturbed>>
           /\ req[q].stage \in Stages /\ req[q].result # ""
           /\ req' \in [Reqs -> Waitings \cup {Idle, Raised}]
           /\ \A p \in Reqs : p # q => req'[p] = req[p]
           /\ CallbackDoes(q)
<1>1. SameTables /\ UNCHANGED <<came, lost, disturbed>>
  BY DEF Callback, GuestCallback, UnameCallback, UpgradeCallback, EditCallback, SameTables
<1>2. req[q].stage \in Stages /\ req[q].result # ""
  BY DEF Callback, GuestCallback, UnameCallback, UpgradeCallback, EditCallback, NotFound,
         Back, UpgradeStages, Stages, Reads, Writes, LoginReads
<1>3. ASSUME (Answer(q) \/ Raise(q)) /\ redis' = redis
      PROVE  /\ req' \in [Reqs -> Waitings \cup {Idle, Raised}]
             /\ \A p \in Reqs : p # q => req'[p] = req[p]
             /\ CallbackDoes(q)
  BY <1>2, <1>3, AnswerIs DEF CallbackDoes, Over
<1>4. ASSUME LoginOK(q), req[q].stage \in LoginReads, req[q].result = "ok",
             req[q].stage = "get_guest_user_info" => req[q].entry.is_guest
      PROVE  /\ req' \in [Reqs -> Waitings \cup {Idle, Raised}]
             /\ \A p \in Reqs : p # q => req'[p] = req[p]
             /\ CallbackDoes(q)
  BY <1>4, AnswerIs DEF CallbackDoes, LoginOK
<1>5. ASSUME NEW stage \in Stages, NextQuery(q, stage), redis' = redis,
             <<req[q].stage, req[q].result, stage>> \in Moves
      PROVE  /\ req' \in [Reqs -> Waitings \cup {Idle, Raised}]
             /\ \A p \in Reqs : p # q => req'[p] = req[p]
             /\ CallbackDoes(q)
  BY <1>2, <1>5, NextQueryIs DEF CallbackDoes
<1>6. /\ "get_guest_user_info" \in Stages /\ "insert_guest_user_info" \in Stages
      /\ "get_userinfo_by_uid" \in Stages /\ "do_account_upgrade" \in Stages
  BY DEF Stages, Reads, Writes, LoginReads
<1>7. CASE GuestCallback(q)
  <2>1. CASE Answer(q) /\ UNCHANGED redis
    BY <1>1, <1>2, <1>3, <2>1
  <2>2. CASE NotFound(q) /\ NoAccount(q) /\ UNCHANGED redis
    <3>1. <<req[q].stage, req[q].result, "insert_guest_user_info">> \in Moves
      BY <2>2 DEF NotFound, Back, Moves
    <3> QED
      BY <1>1, <1>2, <1>5, <1>6, <2>2, <3>1 DEF NoAccount
  <2>3. CASE /\ Back(q, "insert_guest_user_info", {"ok"})
             /\ NextQuery(q, "get_guest_user_info") /\ UNCHANGED redis
    <3>1. <<req[q].stage, req[q].result, "get_guest_user_info">> \in Moves
      BY <2>3 DEF Back, Moves
    <3> QED
      BY <1>1, <1>2, <1>5, <1>6, <2>3, <3>1
  <2>4. CASE Back(q, "get_guest_user_info", {"ok"}) /\ MayEnter(q) /\ LoginOK(q)
    BY <1>1, <1>2, <1>4, <2>4 DEF Back, MayEnter, LoginReads
  <2> QED
    BY <1>7, <2>1, <2>2, <2>3, <2>4 DEF GuestCallback
<1>8. CASE UnameCallback(q)
  <2>1. CASE Back(q, "get_uinfo_by_uname_upwd", {"ok"}) /\ LoginOK(q)
    BY <1>1, <1>2, <1>4, <2>1 DEF Back, LoginReads
  <2>2. CASE (Answer(q) \/ Raise(q)) /\ UNCHANGED redis
    BY <1>1, <1>2, <1>3, <2>2
  <2> QED
    BY <1>8, <2>1, <2>2 DEF UnameCallback
<1>9. CASE UpgradeCallback(q)
  <2>1. CASE (Answer(q) \/ Raise(q)) /\ UNCHANGED redis
    BY <1>1, <1>2, <1>3, <2>1
  <2>2. CASE /\ Back(q, "check_username_exist", {"none", "ok"}) /\ NameFree(q)
             /\ NextQuery(q, "get_userinfo_by_uid") /\ UNCHANGED redis
    <3>1. <<req[q].stage, req[q].result, "get_userinfo_by_uid">> \in Moves
      BY <2>2 DEF Back, NameFree, Moves
    <3> QED
      BY <1>1, <1>2, <1>5, <1>6, <2>2, <3>1
  <2>3. CASE /\ Back(q, "get_userinfo_by_uid", {"ok"})
             /\ NextQuery(q, "do_account_upgrade") /\ UNCHANGED redis
    <3>1. <<req[q].stage, req[q].result, "do_account_upgrade">> \in Moves
      BY <2>3 DEF Back, Moves
    <3> QED
      BY <1>1, <1>2, <1>5, <1>6, <2>3, <3>1
  <2> QED
    BY <1>9, <2>1, <2>2, <2>3 DEF UpgradeCallback
<1>10. CASE EditCallback(q)
  BY <1>1, <1>2, <1>3, <1>10 DEF EditCallback
<1> QED
  BY <1>7, <1>8, <1>9, <1>10 DEF Callback

\* A step of a Redis query: hmset, hgetall, the callback of hgetall, or no reply.
RedisDoes(q) ==
    \/ /\ redis[q].op = "hmset" /\ redis'[q] = Idle /\ disturbed' = disturbed
       /\ cache' = [cache EXCEPT ![redis[q].uid] = redis[q].entry]
    \/ /\ redis[q].op = "hgetall" /\ redis'[q] # Idle /\ cache' = cache /\ disturbed' = disturbed
       /\ redis'[q].op = "got" /\ redis'[q].uid = redis[q].uid
       /\ redis'[q].profile = redis[q].profile /\ redis'[q].entry = cache[redis[q].uid]
    \/ /\ redis[q].op = "got" /\ redis[q].entry = Nil /\ redis'[q] = Idle
       /\ cache' = cache /\ disturbed' = disturbed
    \/ /\ redis[q].op = "got" /\ redis[q].entry \in Entries /\ redis[q].entry # Nil
       /\ redis'[q] # Idle
       /\ cache' = cache /\ disturbed' = disturbed
       /\ redis'[q].op = "hmset" /\ redis'[q].uid = redis[q].uid
       /\ redis'[q].entry \in Entries
       /\ redis'[q].entry.profile = redis[q].profile
       /\ redis'[q].entry.is_guest = redis[q].entry.is_guest
    \/ /\ redis'[q] = Idle /\ cache' = cache
       /\ disturbed' = disturbed \cup {redis[q].uid}

LEMMA RedisStepIs ==
    ASSUME TypeOK, NEW q \in Reqs,
           ExecuteSet(q) \/ ExecuteGet(q) \/ EditToRedis(q) \/ RedisFails(q)
    PROVE  /\ Others(q) /\ UNCHANGED <<uinfo, req, came, lost>>
           /\ redis[q] # Idle /\ redis[q] \in RedisOps
           /\ RedisDoes(q)
<1>1. /\ UNCHANGED <<uinfo, req, came, lost>>
      /\ redis[q] # Idle /\ redis[q] \in RedisOps
      /\ req \in [Reqs -> Waitings \cup {Idle, Raised}]
  BY DEF ExecuteSet, ExecuteGet, EditToRedis, RedisFails, TypeOK
<1>2. /\ redis[q].uid \in 1 .. MaxUid /\ redis[q].profile \in Profiles
      /\ redis[q].entry \in Entries \cup {Nil}
  BY <1>1, RedisOpIs
<1>3. ASSUME RedisEnds(q)
      PROVE  Others(q) /\ redis'[q] = Idle
  BY <1>1, <1>3, RedisChange DEF RedisEnds, Others
<1>4. ASSUME NEW r \in RedisOps, redis' = [redis EXCEPT ![q] = r]
      PROVE  Others(q) /\ redis'[q] = r /\ redis'[q] # Idle
  BY <1>1, <1>4, RedisChange, RedisOpIs DEF Others
<1>5. CASE ExecuteSet(q)
  BY <1>1, <1>3, <1>5 DEF ExecuteSet, RedisDoes
<1>6. CASE ExecuteGet(q)
  <2> DEFINE r == [redis[q] EXCEPT !.op = "got", !.entry = cache[redis[q].uid]]
  <2>1. cache[redis[q].uid] \in Entries \cup {Nil}
    BY <1>2 DEF TypeOK
  <2>2. /\ r \in RedisOps /\ r.op = "got" /\ r.uid = redis[q].uid
        /\ r.profile = redis[q].profile /\ r.entry = cache[redis[q].uid]
    BY <1>1, <2>1 DEF RedisOps
  <2>3. redis' = [redis EXCEPT ![q] = r]
    BY <1>6 DEF ExecuteGet, TypeOK
  <2> HIDE DEF r
  <2>4. Others(q) /\ redis'[q] = r /\ redis'[q] # Idle
    BY <1>4, <2>2, <2>3
  <2>5. redis[q].op = "hgetall" /\ UNCHANGED <<cache, disturbed>>
    BY <1>6 DEF ExecuteGet
  <2> QED
    BY <1>1, <2>2, <2>4, <2>5 DEF RedisDoes
<1>7. CASE EditToRedis(q)
  <2>1. redis[q].op = "got" /\ UNCHANGED <<cache, disturbed>>
    BY <1>7 DEF EditToRedis
  <2>2. CASE redis[q].entry = Nil
    BY <1>1, <1>3, <1>7, <2>1, <2>2 DEF EditToRedis, RedisDoes
  <2>3. CASE redis[q].entry # Nil
    <3> DEFINE e == EditedEntry(q)
               r == [redis[q] EXCEPT !.op = "hmset", !.entry = e]
    <3>1. redis[q].entry \in Entries
      BY <1>2, <2>3
    <3>2. /\ e \in Entries /\ e.profile = redis[q].profile
          /\ e.is_guest = redis[q].entry.is_guest
      BY <1>2, <3>1 DEF Entries, EditedEntry
    <3> HIDE DEF e
    <3>3. r \in RedisOps /\ r.op = "hmset" /\ r.uid = redis[q].uid /\ r.entry = e
      BY <1>1, <3>2 DEF RedisOps
    <3>4. redis' = [redis EXCEPT ![q] = r]
      BY <1>7, <2>3 DEF EditToRedis, TypeOK, e
    <3> HIDE DEF r
    <3>5. Others(q) /\ redis'[q] = r /\ redis'[q] # Idle
      BY <1>4, <3>3, <3>4
    <3> QED
      BY <1>1, <2>1, <2>3, <3>1, <3>2, <3>3, <3>5 DEF RedisDoes
  <2> QED
    BY <2>2, <2>3
<1>8. CASE RedisFails(q)
  BY <1>1, <1>3, <1>8 DEF RedisFails, RedisDoes
<1> QED
  BY <1>5, <1>6, <1>7, <1>8

\* The record of the account that a login hands to Redis.
LEMMA LoginRecord ==
    ASSUME TypeOK, RequestsFormed, NEW q \in Reqs, req[q].stage \in LoginReads,
           req[q].result = "ok",
           redis' = [redis EXCEPT ![q] = [op |-> "hmset", uid |-> req[q].uid,
                                          profile |-> req[q].entry.profile,
                                          entry |-> req[q].entry]]
    PROVE  /\ redis' \in [Reqs -> RedisOps \cup {Idle}]
           /\ redis'[q] # Idle /\ redis'[q].op = "hmset"
           /\ redis'[q].uid = req[q].uid /\ redis'[q].entry = req[q].entry
           /\ req[q].uid \in Uids /\ req[q].entry \in Entries /\ redis[q] = Idle
           /\ \A p \in Reqs : p # q => redis'[p] = redis[p]
<1>1. req[q].stage \in Stages /\ req[q].stage \in Stages \ {"edit_profile_info"}
  BY DEF Stages, Reads, Writes, LoginReads
<1>2. req[q].uid \in Uids /\ req[q].entry \in Entries /\ redis[q] = Idle
  BY <1>1 DEF RequestsFormed, Formed, RedisFormed
<1>3. req[q].uid \in 1 .. MaxUid /\ req[q].entry.profile \in Profiles
  BY <1>2, UidsAre DEF Entries
<1> DEFINE r == [op |-> "hmset", uid |-> req[q].uid,
                 profile |-> req[q].entry.profile, entry |-> req[q].entry]
<1>4. r \in RedisOps /\ r.op = "hmset" /\ r.uid = req[q].uid /\ r.entry = req[q].entry
  BY <1>2, <1>3 DEF RedisOps
<1>5. redis' = [redis EXCEPT ![q] = r]
  OBVIOUS
<1> HIDE DEF r
<1> QED
  BY <1>2, <1>4, <1>5, RedisChange, RedisOpIs

------------------------------------------------------------------------------
(* The table of accounts                                                   *)

\* What an insert or update makes of the table.
LEMMA WrittenIs ==
    ASSUME TypeOK, RequestsFormed, NEW q \in Reqs, req[q].stage \in Writes,
           req[q].stage = "insert_guest_user_info" => Len(uinfo) < MaxUid,
           uinfo' = Written(req[q])
    PROVE  /\ uinfo' \in Seq(Rows) /\ Len(uinfo') <= MaxUid
           /\ req[q].stage = "insert_guest_user_info" =>
                 \E n \in 1 .. MaxUid :
                     /\ n \notin Uids /\ Uids' = Uids \cup {n}
                     /\ \A u \in Uids : uinfo'[u] = uinfo[u]
                     /\ uinfo'[n].guest_key = req[q].arg /\ uinfo'[n].uname = Nil
                     /\ uinfo'[n].is_guest = TRUE
           /\ req[q].stage # "insert_guest_user_info" =>
                 /\ req[q].uid \in Uids /\ Uids' = Uids
                 /\ \A u \in Uids : u # req[q].uid => uinfo'[u] = uinfo[u]
                 /\ uinfo'[req[q].uid].guest_key = uinfo[req[q].uid].guest_key
           /\ req[q].stage = "do_account_upgrade" =>
                 /\ uinfo'[req[q].uid].uname = req[q].arg
                 /\ uinfo'[req[q].uid].is_guest = FALSE
                 /\ uinfo'[req[q].uid].profile = uinfo[req[q].uid].profile
           /\ req[q].stage = "edit_profile_info" =>
                 /\ uinfo'[req[q].uid].uname = uinfo[req[q].uid].uname
                 /\ uinfo'[req[q].uid].is_guest = uinfo[req[q].uid].is_guest
                 /\ uinfo'[req[q].uid].profile = req[q].arg
<1> DEFINE w == req[q]
<1>1. w.stage \in {"insert_guest_user_info", "do_account_upgrade", "edit_profile_info"}
  BY DEF Writes
<1>2. w.stage \in Stages /\ Formed(w)
  BY <1>1 DEF RequestsFormed, Stages, Writes
<1>3. uinfo \in Seq(Rows) /\ Len(uinfo) \in Nat /\ DOMAIN uinfo = 1 .. Len(uinfo)
      /\ Len(uinfo) <= MaxUid
  BY DEF TypeOK
<1>4. CASE w.stage = "insert_guest_user_info"
  <2> DEFINE row == [guest_key |-> w.arg, uname |-> Nil, profile |-> NewProfile,
                     is_guest |-> TRUE]
             n == Len(uinfo) + 1
  <2>1. w.arg \in Keys
    BY <1>2, <1>4 DEF Formed, GuestStages
  <2>2. row \in Rows
    BY <2>1, ProfileAssumption DEF Rows
  <2>3. uinfo' = Append(uinfo, row)
    BY <1>4 DEF Written
  <2>4. /\ row.guest_key = w.arg /\ row.uname = Nil /\ row.is_guest = TRUE
    OBVIOUS
  <2> HIDE DEF row
  <2>5. /\ uinfo' \in Seq(Rows) /\ Len(uinfo') = n /\ DOMAIN uinfo' = 1 .. n
        /\ \A u \in 1 .. Len(uinfo) : uinfo'[u] = uinfo[u]
        /\ uinfo'[n] = row
    BY <1>3, <2>2, <2>3
  <2>6. n \in 1 .. MaxUid /\ n \notin Uids /\ Uids' = Uids \cup {n} /\ n <= MaxUid
    BY <1>3, <1>4, <2>5, BoundsAssumption DEF Uids
  <2> HIDE DEF n
  <2> QED
    BY <1>3, <1>4, <2>4, <2>5, <2>6 DEF Uids
<1>5. CASE w.stage = "do_account_upgrade"
  <2>1. w.arg \in Names /\ w.uid \in Uids
    BY <1>2, <1>5 DEF Formed, NameStages, UpgradeStages
  <2>2. uinfo[w.uid] \in Rows
    BY <2>1, RowIs
  <2> DEFINE row == [uinfo[w.uid] EXCEPT !.uname = w.arg, !.is_guest = FALSE]
  <2>3. /\ row \in Rows /\ row.uname = w.arg /\ row.is_guest = FALSE
        /\ row.profile = uinfo[w.uid].profile /\ row.guest_key = uinfo[w.uid].guest_key
    BY <2>1, <2>2 DEF Rows
  <2>4. uinfo' = [uinfo EXCEPT ![w.uid] = row]
    BY <1>3, <1>5, <2>1 DEF Written, Uids
  <2> HIDE DEF row
  <2>5. /\ uinfo' \in Seq(Rows) /\ Len(uinfo') = Len(uinfo) /\ DOMAIN uinfo' = DOMAIN uinfo
        /\ uinfo'[w.uid] = row
        /\ \A u \in DOMAIN uinfo : u # w.uid => uinfo'[u] = uinfo[u]
    BY <1>3, <2>1, <2>3, <2>4 DEF Uids
  <2> QED
    BY <1>3, <1>5, <2>1, <2>3, <2>5 DEF Uids
<1>6. CASE w.stage = "edit_profile_info"
  <2>1. w.arg \in Profiles /\ w.uid \in Uids
    BY <1>2, <1>6 DEF Formed
  <2>2. uinfo[w.uid] \in Rows
    BY <2>1, RowIs
  <2> DEFINE row == [uinfo[w.uid] EXCEPT !.profile = w.arg]
  <2>3. /\ row \in Rows /\ row.profile = w.arg /\ row.uname = uinfo[w.uid].uname
        /\ row.is_guest = uinfo[w.uid].is_guest /\ row.guest_key = uinfo[w.uid].guest_key
    BY <2>1, <2>2 DEF Rows
  <2>4. uinfo' = [uinfo EXCEPT ![w.uid] = row]
    BY <1>3, <1>6, <2>1 DEF Written, Uids
  <2> HIDE DEF row
  <2>5. /\ uinfo' \in Seq(Rows) /\ Len(uinfo') = Len(uinfo) /\ DOMAIN uinfo' = DOMAIN uinfo
        /\ uinfo'[w.uid] = row
        /\ \A u \in DOMAIN uinfo : u # w.uid => uinfo'[u] = uinfo[u]
    BY <1>3, <2>1, <2>3, <2>4 DEF Uids
  <2> QED
    BY <1>3, <1>6, <2>1, <2>3, <2>5 DEF Uids
<1> QED
  BY <1>1, <1>4, <1>5, <1>6

------------------------------------------------------------------------------
(* All steps                                                               *)

Called(q) ==
    /\ SameTables /\ UNCHANGED <<lost, disturbed>>
    /\ req[q].stage \in Stages /\ req[q].result # ""
    /\ CallbackDoes(q)

RedisStep(q) ==
    /\ UNCHANGED <<uinfo, req, lost>>
    /\ redis[q] # Idle /\ redis[q] \in RedisOps
    /\ RedisDoes(q)

\* What the steps do to everything but the count of requests.
StepDoes(q) ==
    \/ NewRequest(q)
    \/ \E u \in Uids, profile \in Profiles : NewEdit(q, u, profile)
    \/ ReadEnds(q) \/ WriteEnds(q)
    \/ Called(q)
    \/ RedisStep(q)

\* A request that its callback does not end goes on with its next query.
LEMMA CalledIs ==
    ASSUME NEW q \in Reqs, Called(q), req'[q].stage \in Stages
    PROVE  /\ redis' = redis
           /\ \E stage \in Stages :
                 <<req[q].stage, req[q].result, stage>> \in Moves /\ GoesOn(q, stage)
<1>1. req'[q] \notin {Idle, Raised}
  BY StagesDiffer DEF Idle, Raised
<1>2. CallbackDoes(q)
  BY DEF Called
<1> QED
  BY <1>1, <1>2 DEF CallbackDoes, Over

LEMMA StepIs ==
    ASSUME TypeOK, RequestsFormed, NEW q \in Reqs, Step(q)
    PROVE  Others(q) /\ StepDoes(q) /\ came' \in 0 .. MaxCame
<1>1. came \in 0 .. MaxCame
  BY DEF TypeOK
<1>2. ASSUME NEW key \in Keys, guest_login(q, key)
      PROVE  Others(q) /\ NewRequest(q) /\ came' \in 0 .. MaxCame
  BY <1>2, guest_loginIs DEF NewRequest
<1>3. ASSUME NEW uname \in Names, uname_login_process(q, uname)
      PROVE  Others(q) /\ NewRequest(q) /\ came' \in 0 .. MaxCame
  BY <1>3, uname_login_processIs DEF NewRequest
<1>4. ASSUME NEW u \in Uids, NEW uname \in Names, account_upgrade_process(q, u, uname)
      PROVE  Others(q) /\ NewRequest(q) /\ came' \in 0 .. MaxCame
  BY <1>4, account_upgrade_processIs DEF NewRequest
<1>5. ASSUME NEW u \in Uids, NEW profile \in Profiles, edit_profile(q, u, profile)
      PROVE  Others(q) /\ NewEdit(q, u, profile) /\ came' \in 0 .. MaxCame
  BY <1>5, edit_profileIs DEF NewEdit
<1>6. CASE ExecuteRead(q)
  BY <1>1, <1>6, ExecuteReadIs DEF StepDoes
<1>7. CASE ExecuteWrite(q)
  BY <1>1, <1>7, ExecuteWriteIs DEF StepDoes
<1>8. CASE Callback(q)
  <2>1. /\ SameTables /\ UNCHANGED <<came, lost, disturbed>>
        /\ req[q].stage \in Stages /\ req[q].result # ""
        /\ req' \in [Reqs -> Waitings \cup {Idle, Raised}]
        /\ \A p \in Reqs : p # q => req'[p] = req[p]
        /\ CallbackDoes(q)
    BY <1>8, CallbackIs
  <2>2. /\ redis' \in [Reqs -> RedisOps \cup {Idle}]
        /\ \A p \in Reqs : p # q => redis'[p] = redis[p]
    <3>1. CASE redis' = redis
      BY <3>1 DEF TypeOK
    <3>2. CASE redis' # redis
      BY <2>1, <3>2, LoginRecord DEF CallbackDoes
    <3> QED
      BY <3>1, <3>2
  <2> QED
    BY <1>1, <2>1, <2>2 DEF StepDoes, Called, Others
<1>9. CASE ExecuteSet(q) \/ ExecuteGet(q) \/ EditToRedis(q) \/ RedisFails(q)
  BY <1>1, <1>9, RedisStepIs DEF StepDoes, RedisStep
<1> QED
  BY <1>2, <1>3, <1>4, <1>5, <1>6, <1>7, <1>8, <1>9 DEF Step, StepDoes, Callback

\* Accounts stay; their key stays, and no registered user becomes a guest again.
\* A profile is changed by the update of an edit only.
LEMMA RowsGrow ==
    ASSUME TypeOK, RequestsFormed, NEW q \in Reqs, StepDoes(q)
    PROVE  /\ uinfo' \in Seq(Rows) /\ Len(uinfo') <= MaxUid
           /\ Uids \subseteq Uids'
           /\ \A u \in Uids :
                 /\ uinfo'[u].guest_key = uinfo[u].guest_key
                 /\ uinfo'[u].is_guest => uinfo[u].is_guest
                 /\ \/ uinfo'[u].profile = uinfo[u].profile
                    \/ /\ Waiting(q, {"edit_profile_info"}) /\ req[q].uid = u
                       /\ uinfo'[u].profile = req[q].arg
<1>1. CASE uinfo' = uinfo
  BY <1>1 DEF TypeOK, Uids
<1>2. CASE uinfo' # uinfo
  <2>1. /\ Waiting(q, Writes) /\ req[q].stage \in Writes
        /\ req[q].stage = "insert_guest_user_info" => Len(uinfo) < MaxUid
        /\ uinfo' = Written(req[q])
    BY <1>2 DEF StepDoes, NewRequest, NewEdit, ReadEnds, WriteEnds, Called, RedisStep,
                SameTables, Waiting
  <2>2. CASE req[q].stage = "insert_guest_user_info"
    BY <2>1, <2>2, WrittenIs
  <2>3. CASE req[q].stage = "do_account_upgrade"
    BY <2>1, <2>3, WrittenIs
  <2>4. CASE req[q].stage = "edit_profile_info"
    BY <2>1, <2>4, WrittenIs DEF Waiting
  <2> QED
    BY <2>1, <2>2, <2>3, <2>4 DEF Writes
<1> QED
  BY <1>1, <1>2

LEMMA TypeStep ==
    ASSUME TypeOK, RequestsFormed, NEW q \in Reqs, Step(q)
    PROVE  TypeOK'
<1>1. Others(q) /\ StepDoes(q) /\ came' \in 0 .. MaxCame
  BY StepIs
<1>2. uinfo' \in Seq(Rows) /\ Len(uinfo') <= MaxUid
  BY <1>1, RowsGrow
<1>3. /\ cache \in [1 .. MaxUid -> Entries \cup {Nil}] /\ disturbed \subseteq 1 .. MaxUid
      /\ lost \in 0 .. MaxLost
  BY DEF TypeOK
<1>4. cache' \in [1 .. MaxUid -> Entries \cup {Nil}]
  <2>1. CASE cache' = cache
    BY <1>3, <2>1
  <2>2. CASE cache' # cache
    <3>1. /\ redis[q] \in RedisOps
          /\ cache' = [cache EXCEPT ![redis[q].uid] = redis[q].entry]
      BY <1>1, <2>2 DEF StepDoes, NewRequest, NewEdit, ReadEnds, WriteEnds, Called,
                        RedisStep, RedisDoes, SameTables
    <3> QED
      BY <1>3, <3>1, RedisOpIs
  <2> QED
    BY <2>1, <2>2
<1>5. lost' \in 0 .. MaxLost
  <2>1. lost' = lost \/ (lost < MaxLost /\ lost' = lost + 1)
    BY <1>1 DEF StepDoes, NewRequest, NewEdit, ReadEnds, WriteEnds, Called, RedisStep
  <2> QED
    BY <1>3, <2>1, BoundsAssumption
<1>6. disturbed' \subseteq 1 .. MaxUid
  <2>1. ASSUME NEW u \in Uids
        PROVE  DisturbedBy(q, u) \subseteq 1 .. MaxUid
    BY <1>3, UidsAre DEF DisturbedBy
  <2>2. Matches(req[q]) \subseteq Uids
    BY DEF Matches
  <2>3. CASE NewRequest(q) \/ Called(q)
    BY <1>3, <2>3 DEF NewRequest, Called
  <2>4. CASE \E u \in Uids, profile \in Profiles : NewEdit(q, u, profile)
    BY <2>1, <2>4 DEF NewEdit
  <2>5. CASE ReadEnds(q)
    BY <1>3, <2>1, <2>2, <2>5 DEF ReadEnds
  <2>6. CASE WriteEnds(q)
    <3>1. CASE req[q].stage = "edit_profile_info"
      <4>1. req[q].stage \in Stages
        BY <3>1 DEF Stages, Writes
      <4>2. req[q].uid \in 1 .. MaxUid
        BY <3>1, <4>1, UidsAre DEF RequestsFormed, Formed
      <4> QED
        BY <1>3, <2>6, <4>2 DEF WriteEnds
    <3>2. CASE req[q].stage # "edit_profile_info"
      BY <1>3, <2>6, <3>2 DEF WriteEnds
    <3> QED
      BY <3>1, <3>2
  <2>7. CASE RedisStep(q)
    BY <1>3, <2>7, RedisOpIs DEF RedisStep, RedisDoes
  <2> QED
    BY <1>1, <2>3, <2>4, <2>5, <2>6, <2>7 DEF StepDoes
<1> QED
  BY <1>1, <1>2, <1>4, <1>5, <1>6 DEF TypeOK, Others

------------------------------------------------------------------------------
(* What requests hold                                                      *)

LEMMA MovesAre ==
    ASSUME NEW a, NEW b, NEW c, <<a, b, c>> \in Moves
    PROVE  \/ a = "get_guest_user_info" /\ b \in {"none", "lost"} /\ c = "insert_guest_user_info"
           \/ a = "insert_guest_user_info" /\ b = "ok" /\ c = "get_guest_user_info"
           \/ a = "check_username_exist" /\ b = "none" /\ c = "get_userinfo_by_uid"
           \/ a = "get_userinfo_by_uid" /\ b = "ok" /\ c = "do_account_upgrade"
BY DEF Moves

LEMMA FormedStep ==
    ASSUME TypeOK, RequestsFormed, NEW q \in Reqs, Step(q)
    PROVE  RequestsFormed'
<1>1. Others(q) /\ StepDoes(q)
  BY StepIs
<1>2. Uids \subseteq Uids' /\ Uids' \subseteq 1 .. MaxUid /\ Closed \subseteq Uids
  <2>1. Uids \subseteq Uids' /\ Closed \subseteq Uids
    BY <1>1, RowsGrow DEF Closed
  <2>2. TypeOK'
    BY TypeStep
  <2>3. Len(uinfo') \in Nat /\ DOMAIN uinfo' = 1 .. Len(uinfo') /\ Len(uinfo') <= MaxUid
    BY <2>2 DEF TypeOK
  <2> QED
    BY <2>1, <2>3, BoundsAssumption DEF Uids
<1>3. ASSUME NEW p \in Reqs, req'[p] = req[p], req[p].stage \in Stages
      PROVE  Formed(req[p])'
  BY <1>2, <1>3 DEF RequestsFormed, Formed
<1>4. ASSUME NEW p \in Reqs, req'[p] = req[p], redis'[p] = redis[p]
      PROVE  RedisFormed(p)'
  BY <1>2, <1>4 DEF RequestsFormed, RedisFormed
<1>5. \A p \in Reqs : p # q => req'[p] = req[p] /\ redis'[p] = redis[p]
  BY <1>1 DEF Others
<1>6. SUFFICES /\ req'[q].stage \in Stages => Formed(req[q])'
               /\ RedisFormed(q)'
               /\ \A u \in 1 .. MaxUid : u \notin Uids' => cache'[u] = Nil
  BY <1>3, <1>4, <1>5, <1>6 DEF RequestsFormed
<1>7. ASSUME cache' = cache
      PROVE  \A u \in 1 .. MaxUid : u \notin Uids' => cache'[u] = Nil
  BY <1>2, <1>7 DEF RequestsFormed
<1>8. CASE NewRequest(q)
  <2>1. ASSUME NEW key \in Keys, Begins(q, "get_guest_user_info", key, 0, Closed)
        PROVE  Formed(req[q])'
    BY <1>2, <2>1 DEF Begins, Formed, GuestStages, NameStages, UpgradeStages, LoginReads
  <2>2. ASSUME NEW uname \in Names, Begins(q, "get_uinfo_by_uname_upwd", uname, 0, {})
        PROVE  Formed(req[q])'
    BY <1>2, <2>2 DEF Begins, Formed, GuestStages, NameStages, UpgradeStages, LoginReads
  <2>3. ASSUME NEW u \in Uids, NEW uname \in Names,
               Begins(q, "check_username_exist", uname, u, {})
        PROVE  Formed(req[q])'
    BY <1>2, <2>3 DEF Begins, Formed, GuestStages, NameStages, UpgradeStages, LoginReads
  <2>4. redis'[q] = Idle /\ req'[q].stage # "edit_profile_info" /\ cache' = cache
    BY <1>8 DEF NewRequest, Begins, SameTables
  <2>5. RedisFormed(q)'
    BY <2>4 DEF RedisFormed
  <2> QED
    BY <1>7, <1>8, <2>1, <2>2, <2>3, <2>4, <2>5 DEF NewRequest
<1>9. ASSUME NEW u \in Uids, NEW profile \in Profiles, NewEdit(q, u, profile)
      PROVE  /\ Formed(req[q])' /\ RedisFormed(q)'
             /\ \A v \in 1 .. MaxUid : v \notin Uids' => cache'[v] = Nil
  <2>1. Formed(req[q])'
    BY <1>2, <1>9 DEF NewEdit, Begins, Formed, GuestStages, NameStages, UpgradeStages, LoginReads
  <2>2. RedisFormed(q)'
    BY <1>2, <1>9 DEF NewEdit, Begins, RedisFormed
  <2> QED
    BY <1>7, <1>9, <2>1, <2>2 DEF NewEdit, SameTables
<1>10. CASE ReadEnds(q)
  <2>1. /\ req[q].stage \in Reads /\ req[q].stage \in Stages \ {"edit_profile_info"}
        /\ req'[q].stage = req[q].stage /\ req'[q].arg = req[q].arg
        /\ req'[q].closed = req[q].closed
        /\ redis'[q] = redis[q] /\ cache' = cache
    BY <1>10 DEF ReadEnds, Waiting, HasResult, Stages, Reads, Writes, LoginReads, SameTables
  <2>2. Formed(req[q]) /\ RedisFormed(q)
    BY <2>1 DEF RequestsFormed
  <2>3. redis'[q] = Idle
    BY <2>1, <2>2 DEF RedisFormed
  <2>4. RedisFormed(q)'
    BY <2>1, <2>3 DEF RedisFormed
  <2>5. /\ req'[q].result \in {"ok", "none", "lost", "err"}
        /\ req'[q].result # "ok" => req'[q].uid = req[q].uid
        /\ req[q].stage \notin LoginReads => req'[q].uid = req[q].uid
        /\ req[q].result = ""
        /\ req[q].stage \in LoginReads /\ req'[q].result = "ok" =>
              req'[q].uid \in Uids /\ req'[q].entry \in Entries
    <3>1. \A u \in Matches(req[q]) : u \in Uids /\ Entry(u) \in Entries
      BY RowIs DEF Matches
    <3> QED
      BY <1>10, <3>1 DEF ReadEnds, HasResult, Waiting
  <2>6. Formed(req[q])'
    BY <1>2, <2>1, <2>2, <2>5 DEF Formed, Reads, LoginReads, UpgradeStages, GuestStages
  <2> QED
    BY <1>7, <2>1, <2>4, <2>6
<1>11. CASE WriteEnds(q)
  <2>1. /\ req[q].stage \in Writes /\ req[q].stage \in Stages
        /\ req'[q].stage = req[q].stage /\ req'[q].arg = req[q].arg
        /\ req'[q].closed = req[q].closed /\ req'[q].uid = req[q].uid
        /\ redis'[q] = redis[q] /\ cache' = cache
    BY <1>11 DEF WriteEnds, Waiting, HasResult, Stages, Writes
  <2>2. Formed(req[q]) /\ RedisFormed(q)
    BY <2>1 DEF RequestsFormed
  <2>3. RedisFormed(q)'
    BY <1>2, <2>1, <2>2 DEF RedisFormed
  <2>4. req[q].stage \notin LoginReads
    BY <2>1 DEF Writes, LoginReads
  <2>5. Formed(req[q])'
    BY <1>2, <2>1, <2>2, <2>4 DEF Formed
  <2> QED
    BY <1>7, <2>1, <2>3, <2>5
<1>12. CASE Called(q)
  <2>1. cache' = cache /\ req[q].stage \in Stages
    BY <1>12 DEF Called, SameTables
  <2>2. Formed(req[q]) /\ RedisFormed(q)
    BY <2>1 DEF RequestsFormed
  <2>3. CASE redis' # redis
    <3>1. /\ req'[q] = Idle /\ redis'[q].op = "hmset"
          /\ redis'[q].uid \in Uids /\ redis'[q].entry \in Entries
      BY <1>12, <2>3, LoginRecord DEF Called, CallbackDoes
    <3>2. req'[q].stage \notin Stages
      BY <3>1, StagesDiffer DEF Idle
    <3>3. RedisFormed(q)'
      BY <1>2, <3>1, <3>2, StagesDiffer DEF RedisFormed, Stages, Writes
    <3> QED
      BY <1>7, <2>1, <3>2, <3>3
  <2>4. CASE req'[q] \in {Idle, Raised} /\ redis' = redis
    <3>1. req'[q].stage \notin Stages
      BY <2>4, StagesDiffer DEF Idle, Raised
    <3>2. RedisFormed(q)'
      BY <1>2, <2>2, <2>4, <3>1, StagesDiffer DEF RedisFormed, Stages, Writes
    <3> QED
      BY <1>7, <2>1, <3>1, <3>2
  <2>5. ASSUME NEW stage \in Stages, <<req[q].stage, req[q].result, stage>> \in Moves,
               GoesOn(q, stage), redis' = redis
        PROVE  Formed(req[q])' /\ RedisFormed(q)'
    <3>1. /\ req[q].stage \in Stages \ {"edit_profile_info"} /\ stage # "edit_profile_info"
          /\ redis[q] = Idle
      BY <2>1, <2>2, <2>5, MovesAre DEF RedisFormed
    <3>2. RedisFormed(q)'
      BY <2>5, <3>1 DEF RedisFormed, GoesOn
    <3>3. /\ req'[q].stage = stage /\ req'[q].arg = req[q].arg /\ req'[q].uid = req[q].uid
          /\ req'[q].result = "" /\ req'[q].closed = req[q].closed
      BY <2>5 DEF GoesOn
    <3>4. Formed(req[q])'
      BY <1>2, <2>2, <2>5, <3>3, MovesAre
         DEF Formed, LoginReads, GuestStages, UpgradeStages, NameStages
    <3> QED
      BY <3>2, <3>4
  <2> QED
    BY <1>7, <1>12, <2>1, <2>3, <2>4, <2>5 DEF Called, CallbackDoes, Over
<1>13. CASE RedisStep(q)
  <2>1. req'[q] = req[q] /\ RedisFormed(q) /\ redis[q] # Idle /\ redis[q].uid \in Uids
        /\ uinfo' = uinfo /\ Uids' = Uids
    BY <1>13 DEF RedisStep, RequestsFormed, RedisFormed, Uids
  <2>2. RedisFormed(q)'
    BY <1>13, <2>1 DEF RedisStep, RedisDoes, RedisFormed
  <2>3. \A u \in 1 .. MaxUid : u \notin Uids' => cache'[u] = Nil
    <3>1. \A u \in 1 .. MaxUid : u \notin Uids => cache'[u] = cache[u]
      BY <1>13, <2>1 DEF RedisStep, RedisDoes, TypeOK
    <3> QED
      BY <2>1, <3>1 DEF RequestsFormed
  <2> QED
    BY <1>3, <2>1, <2>2, <2>3
<1> QED
  BY <1>1, <1>8, <1>9, <1>10, <1>11, <1>12, <1>13 DEF StepDoes

------------------------------------------------------------------------------
(* Guests and registered users                                             *)

LEMMA ClosedStep ==
    ASSUME TypeOK, RequestsFormed, ClosedStay, NEW q \in Reqs, Step(q)
    PROVE  ClosedStay'
<1>1. Others(q) /\ StepDoes(q)
  BY StepIs
<1>2. \A u \in Uids : /\ uinfo'[u].guest_key = uinfo[u].guest_key
                      /\ uinfo'[u].is_guest => uinfo[u].is_guest
  BY <1>1, RowsGrow
<1>3. ASSUME NEW p \in Reqs, req[p].stage \in Stages, req'[p].closed = req[p].closed,
             \/ req'[p].stage # "get_guest_user_info" \/ req'[p].result # "ok"
             \/ req'[p] = req[p]
      PROVE  KeepsOut(req[p])'
  <2>1. KeepsOut(req[p]) /\ Formed(req[p]) /\ req[p].closed \subseteq Uids
    BY <1>3 DEF ClosedStay, RequestsFormed, Formed
  <2>2. \A u \in req'[p].closed : ~uinfo'[u].is_guest
    BY <1>2, <1>3, <2>1 DEF KeepsOut
  <2>3. CASE req'[p].stage # "get_guest_user_info" \/ req'[p].result # "ok"
    BY <2>2, <2>3 DEF KeepsOut
  <2>4. CASE req'[p] = req[p] /\ req[p].stage = "get_guest_user_info" /\ req[p].result = "ok"
    <3>1. req[p].uid \in Uids
      BY <2>1, <2>4 DEF Formed, LoginReads
    <3> QED
      BY <1>2, <2>1, <2>2, <2>4, <3>1 DEF KeepsOut
  <2> QED
    BY <1>3, <2>3, <2>4
<1>4. \A p \in Reqs : p # q => req'[p] = req[p]
  BY <1>1 DEF Others
<1>5. SUFFICES ASSUME req'[q].stage \in Stages PROVE KeepsOut(req[q])'
  BY <1>3, <1>4, <1>5 DEF ClosedStay
<1>6. CASE NewRequest(q)
  <2>1. req'[q].closed \in {Closed, {}} /\ req'[q].result = "" /\ uinfo' = uinfo
    BY <1>6 DEF NewRequest, Begins, SameTables
  <2> QED
    BY <2>1 DEF KeepsOut, Closed
<1>7. CASE \E u \in Uids, profile \in Profiles : NewEdit(q, u, profile)
  BY <1>7 DEF NewEdit, Begins, KeepsOut
<1>8. CASE ReadEnds(q)
  <2>1. /\ req[q].stage \in Stages /\ req'[q].closed = req[q].closed
        /\ req'[q].stage = req[q].stage /\ req'[q].arg = req[q].arg /\ uinfo' = uinfo
    BY <1>8, StagesDiffer DEF ReadEnds, HasResult, Waiting, SameTables
  <2>2. CASE req'[q].stage # "get_guest_user_info" \/ req'[q].result # "ok"
    BY <1>3, <2>1, <2>2
  <2>3. CASE req'[q].stage = "get_guest_user_info" /\ req'[q].result = "ok"
    <3>1. PICK u \in Matches(req[q]) : req'[q].uid = u /\ req'[q].entry = Entry(u)
      BY <1>8, <2>1, <2>3 DEF ReadEnds, HasResult, LoginReads
    <3>2. u \in Uids /\ uinfo[u].guest_key = req[q].arg
      BY <2>1, <2>3 DEF Matches
    <3>3. Entry(u).is_guest = uinfo[u].is_guest
      BY DEF Entry
    <3>4. KeepsOut(req[q])
      BY <2>1 DEF ClosedStay
    <3> QED
      BY <2>1, <3>1, <3>2, <3>3, <3>4 DEF KeepsOut
  <2> QED
    BY <2>2, <2>3
<1>9. CASE WriteEnds(q)
  <2>1. /\ req[q].stage \in Stages /\ req'[q].closed = req[q].closed
        /\ req'[q].stage # "get_guest_user_info"
    BY <1>9 DEF WriteEnds, HasResult, Waiting, Stages, Writes
  <2> QED
    BY <1>3, <2>1
<1>10. CASE Called(q)
  <2>1. req[q].stage \in Stages
    BY <1>10 DEF Called
  <2>2. req'[q].closed = req[q].closed /\ req'[q].result = ""
    BY <1>5, <1>10, CalledIs DEF GoesOn
  <2> QED
    BY <1>3, <2>1, <2>2
<1>11. CASE RedisStep(q)
  BY <1>3, <1>5, <1>11 DEF RedisStep
<1> QED
  BY <1>1, <1>6, <1>7, <1>8, <1>9, <1>10, <1>11 DEF StepDoes

LEMMA GuestCopiesStep ==
    ASSUME TypeOK, RequestsFormed, GuestCopies, NEW q \in Reqs, Step(q)
    PROVE  GuestCopies'
<1>1. Others(q) /\ StepDoes(q)
  BY StepIs
<1>2. SUFFICES ASSUME NEW u \in Uids', uinfo'[u].is_guest
      PROVE  /\ cache'[u] # Nil => cache'[u].is_guest
             /\ \A p \in Reqs :
                   /\ redis'[p] # Idle /\ redis'[p].uid = u /\ redis'[p].entry # Nil =>
                         redis'[p].entry.is_guest
                   /\ req'[p].stage \in LoginReads /\ req'[p].result = "ok" /\ req'[p].uid = u =>
                         req'[p].entry.is_guest
  BY DEF GuestCopies
<1>3. CASE u \notin Uids
  <2>1. WriteEnds(q)
    BY <1>1, <1>2, <1>3 DEF StepDoes, NewRequest, NewEdit, ReadEnds, Called, RedisStep,
                            SameTables, Uids
  <2>2. cache'[u] = Nil
    <3>1. TypeOK'
      BY TypeStep
    <3>2. Len(uinfo') \in Nat /\ DOMAIN uinfo' = 1 .. Len(uinfo') /\ Len(uinfo') <= MaxUid
      BY <3>1 DEF TypeOK
    <3>3. u \in 1 .. MaxUid
      BY <1>2, <3>2, BoundsAssumption DEF Uids
    <3> QED
      BY <1>3, <2>1, <3>3 DEF RequestsFormed, WriteEnds
  <2>3. ASSUME NEW p \in Reqs
        PROVE  /\ redis'[p] = redis[p]
               /\ req'[p] = req[p] \/ req'[p].stage \notin LoginReads
    BY <1>1, <2>1 DEF Others, WriteEnds, Waiting, HasResult, Writes, LoginReads
  <2>4. \A p \in Reqs : redis[p] # Idle => redis[p].uid \in Uids
    BY DEF RequestsFormed, RedisFormed
  <2>5. ASSUME NEW p \in Reqs, req[p].stage \in LoginReads, req[p].result = "ok"
        PROVE  req[p].uid \in Uids
    BY <2>5, StagesDiffer DEF RequestsFormed, Formed
  <2> QED
    BY <1>3, <2>2, <2>3, <2>4, <2>5
<1>4. CASE u \in Uids
  <2>1. uinfo[u].is_guest /\ u \in 1 .. MaxUid
    BY <1>1, <1>2, <1>4, RowsGrow, UidsAre
  <2>2. /\ cache[u] # Nil => cache[u].is_guest
        /\ \A p \in Reqs :
              /\ redis[p] # Idle /\ redis[p].uid = u /\ redis[p].entry # Nil =>
                    redis[p].entry.is_guest
              /\ req[p].stage \in LoginReads /\ req[p].result = "ok" /\ req[p].uid = u =>
                    req[p].entry.is_guest
    BY <1>4, <2>1 DEF GuestCopies
  <2>3. cache'[u] # Nil => cache'[u].is_guest
    <3>1. CASE cache'[u] # cache[u]
      <4>1. /\ redis[q] # Idle /\ redis[q].uid = u /\ cache'[u] = redis[q].entry
        BY <1>1, <2>1, <3>1 DEF StepDoes, NewRequest, NewEdit, ReadEnds, WriteEnds, Called,
                                RedisStep, RedisDoes, SameTables, TypeOK
      <4> QED
        BY <2>2, <4>1
    <3> QED
      BY <2>2, <3>1
  <2>4. \A p \in Reqs : p # q => req'[p] = req[p] /\ redis'[p] = redis[p]
    BY <1>1 DEF Others
  <2>5. redis'[q] # Idle /\ redis'[q].uid = u /\ redis'[q].entry # Nil =>
            redis'[q].entry.is_guest
    <3>1. CASE redis'[q] = redis[q]
      BY <2>2, <3>1
    <3>2. CASE NewRequest(q) \/ ReadEnds(q) \/ WriteEnds(q)
      BY <3>1, <3>2 DEF NewRequest, ReadEnds, WriteEnds
    <3>3. CASE \E v \in Uids, profile \in Profiles : NewEdit(q, v, profile)
      BY <3>3 DEF NewEdit
    <3>4. CASE Called(q)
      <4>1. CASE redis' = redis
        BY <3>1, <4>1
      <4>2. CASE redis' # redis
        <5>1. /\ req[q].stage \in LoginReads /\ req[q].result = "ok"
              /\ redis' = [redis EXCEPT ![q] = [op |-> "hmset", uid |-> req[q].uid,
                                                profile |-> req[q].entry.profile,
                                                entry |-> req[q].entry]]
          BY <3>4, <4>2 DEF Called, CallbackDoes
        <5>2. redis'[q].uid = req[q].uid /\ redis'[q].entry = req[q].entry
          BY <5>1, LoginRecord
        <5> QED
          BY <2>2, <5>1, <5>2
      <4> QED
        BY <4>1, <4>2
    <3>5. CASE RedisStep(q)
      <4>1. RedisDoes(q) /\ redis[q] # Idle
        BY <3>5 DEF RedisStep
      <4>2. ASSUME redis'[q] # Idle
            PROVE  /\ redis'[q].uid = redis[q].uid
                   /\ \/ redis'[q].entry = cache[redis[q].uid]
                      \/ /\ redis[q].entry # Nil
                         /\ redis'[q].entry.is_guest = redis[q].entry.is_guest
        BY <4>1, <4>2 DEF RedisDoes
      <4> QED
        BY <2>2, <4>1, <4>2
    <3> QED
      BY <1>1, <3>2, <3>3, <3>4, <3>5 DEF StepDoes
  <2>6. req'[q].stage \in LoginReads /\ req'[q].result = "ok" /\ req'[q].uid = u =>
            req'[q].entry.is_guest
    <3>1. CASE ReadEnds(q)
      <4>1. ASSUME req'[q].stage \in LoginReads /\ req'[q].result = "ok"
            PROVE  req'[q].entry = Entry(req'[q].uid)
        BY <3>1, <4>1 DEF ReadEnds, HasResult
      <4>2. Entry(u).is_guest = uinfo[u].is_guest
        BY DEF Entry
      <4> QED
        BY <2>1, <4>1, <4>2
    <3>2. CASE NewRequest(q) \/ \E v \in Uids, profile \in Profiles : NewEdit(q, v, profile)
      BY <3>2 DEF NewRequest, NewEdit, Begins
    <3>3. CASE WriteEnds(q)
      BY <3>3 DEF WriteEnds, Waiting, HasResult, Writes, LoginReads
    <3>4. CASE Called(q)
      BY <3>4, CalledIs, StagesDiffer DEF GoesOn
    <3>5. CASE RedisStep(q)
      BY <2>2, <3>5 DEF RedisStep
    <3> QED
      BY <1>1, <3>1, <3>2, <3>3, <3>4, <3>5 DEF StepDoes
  <2> QED
    BY <2>2, <2>3, <2>4, <2>5, <2>6
<1> QED
  BY <1>3, <1>4

------------------------------------------------------------------------------
(* The cache                                                               *)

\* How a request works on an account.
LEMMA WorksHow ==
    ASSUME TypeOK, RequestsFormed, NEW q \in Reqs, NEW u \in Uids, WorksOn(q, u)
    PROVE  /\ req[q].stage \in LoginReads =>
                 req[q].result = "ok" /\ req[q].uid = u /\ redis[q] = Idle
           /\ req[q].stage = "edit_profile_info" =>
                 req[q].uid = u /\ (redis[q] # Idle => redis[q].uid = u)
           /\ req[q].stage \notin LoginReads \cup {"edit_profile_info"} =>
                 redis[q] # Idle /\ redis[q].uid = u /\ req[q].stage \notin Stages
<1>1. RedisFormed(q) /\ (req[q].stage \in Stages => Formed(req[q])) /\ u # 0
  BY UidsAre DEF RequestsFormed
<1>2. CASE req[q].stage \in LoginReads
  <2>1. req[q].stage \in Stages \ {"edit_profile_info"}
    BY <1>2, StagesDiffer DEF LoginReads
  <2>2. redis[q] = Idle
    BY <1>1, <2>1 DEF RedisFormed
  <2>3. req[q].uid = u
    BY <1>2, <2>2 DEF WorksOn, LoginReads
  <2>4. req[q].result = "ok"
    BY <1>1, <1>2, <2>1, <2>3 DEF Formed
  <2> QED
    BY <1>2, <2>2, <2>3, <2>4 DEF LoginReads
<1>3. CASE req[q].stage = "edit_profile_info"
  BY <1>1, <1>3 DEF WorksOn, RedisFormed, LoginReads
<1>4. CASE req[q].stage \notin LoginReads \cup {"edit_profile_info"}
  BY <1>1, <1>4 DEF WorksOn, RedisFormed
<1> QED
  BY <1>2, <1>3, <1>4

\* A request comes to an account that nobody works on, or disturbs it.
LEMMA WorkBegins ==
    ASSUME TypeOK, RequestsFormed, NEW q \in Reqs, Others(q), StepDoes(q),
           NEW u \in Uids, ~WorksOn(q, u), WorksOn(q, u)'
    PROVE  /\ disturbed' = DisturbedBy(q, u)
           /\ SameTables
           /\ (cache[u] # Nil => cache[u].profile = uinfo[u].profile) => Brings(q, u)'
<1>1. u # 0 /\ RedisFormed(q) /\ (req[q].stage \in Stages => Formed(req[q]))
  BY UidsAre DEF RequestsFormed
<1>2. CASE NewRequest(q)
  <2>1. redis'[q] = Idle /\ (req'[q].uid = 0 \/ req'[q].stage = "check_username_exist")
    BY <1>2 DEF NewRequest, Begins
  <2>2. req'[q].stage # "edit_profile_info"
    BY <1>2 DEF NewRequest, Begins
  <2> QED
    BY <1>1, <2>1, <2>2 DEF WorksOn, LoginReads
<1>3. ASSUME NEW v \in Uids, NEW profile \in Profiles, NewEdit(q, v, profile)
      PROVE  disturbed' = DisturbedBy(q, u) /\ SameTables /\ Brings(q, u)'
  <2>1. /\ req'[q].stage = "edit_profile_info" /\ req'[q].uid = v /\ req'[q].arg = profile
        /\ req'[q].result = ""
        /\ redis'[q] # Idle /\ redis'[q].uid = v /\ redis'[q].profile = profile
        /\ redis'[q].op = "hgetall"
    BY <1>3 DEF NewEdit, Begins
  <2>2. u = v
    BY <2>1 DEF WorksOn, LoginReads
  <2>3. Brings(q, u)'
    BY <2>1, <2>2 DEF Brings, Coming, LoginReads
  <2> QED
    BY <1>3, <2>2, <2>3 DEF NewEdit
<1>4. CASE ReadEnds(q)
  <2>1. /\ req[q].stage \in Reads /\ req[q].stage \in Stages \ {"edit_profile_info"}
        /\ req[q].result = "" /\ req'[q].stage = req[q].stage /\ redis'[q] = redis[q]
        /\ SameTables
    BY <1>4 DEF ReadEnds, Waiting, HasResult, Stages, Reads, Writes, LoginReads
  <2>2. redis'[q] = Idle
    BY <1>1, <2>1 DEF RedisFormed
  <2>3. req'[q].stage \in LoginReads /\ req'[q].uid = u
    BY <2>1, <2>2 DEF WorksOn
  <2>4. req[q].uid = 0
    BY <1>1, <2>1, <2>3 DEF Formed
  <2>5. PICK v \in Matches(req[q]) : /\ req'[q].entry = Entry(v) /\ req'[q].uid = v
                                     /\ disturbed' = DisturbedBy(q, v)
    BY <1>1, <1>4, <2>1, <2>3, <2>4 DEF ReadEnds
  <2>6. v = u /\ Entry(u).profile = uinfo[u].profile
    BY <2>3, <2>5 DEF Entry
  <2>7. Coming(q, u)' = uinfo[u].profile /\ cache' = cache
    BY <2>1 DEF Coming, SameTables
  <2>8. (cache[u] # Nil => cache[u].profile = uinfo[u].profile) => Brings(q, u)'
    BY <2>2, <2>5, <2>6, <2>7 DEF Brings
  <2> QED
    BY <2>1, <2>5, <2>6, <2>8
<1>5. CASE WriteEnds(q)
  <2>1. req'[q].stage = req[q].stage /\ req'[q].uid = req[q].uid /\ redis'[q] = redis[q]
    BY <1>5 DEF WriteEnds, HasResult
  <2> QED
    BY <2>1 DEF WorksOn
<1>6. CASE Called(q)
  <2>1. CASE redis' = redis /\ req'[q].stage \notin Stages
    BY <2>1, StagesDiffer DEF WorksOn, Stages, Writes
  <2>2. CASE req'[q].stage \in Stages
    <3>1. PICK stage \in Stages :
              <<req[q].stage, req[q].result, stage>> \in Moves /\ GoesOn(q, stage)
      BY <1>6, <2>2, CalledIs
    <3>2. redis'[q] = redis[q] /\ req'[q].stage = stage /\ req'[q].uid = req[q].uid
      BY <3>1 DEF GoesOn
    <3>3. req[q].stage = "insert_guest_user_info"
      BY <3>1, <3>2, MovesAre DEF WorksOn, LoginReads
    <3>4. req[q].uid = 0
      BY <1>1, <3>3 DEF Formed, Stages, Writes
    <3> QED
      BY <1>1, <3>1, <3>2, <3>3, <3>4, MovesAre DEF WorksOn
  <2>3. CASE redis' # redis
    <3>1. /\ req[q].stage \in LoginReads /\ req[q].result = "ok" /\ req'[q] = Idle
          /\ redis'[q].uid = req[q].uid
      BY <1>6, <2>3, LoginRecord DEF Called, CallbackDoes
    <3>2. req'[q].stage \notin Stages
      BY <3>1, StagesDiffer DEF Idle
    <3> QED
      BY <3>1, <3>2, StagesDiffer DEF WorksOn, Stages, Writes
  <2> QED
    BY <2>1, <2>2, <2>3
<1>7. CASE RedisStep(q)
  <2>1. req' = req /\ redis[q] # Idle /\ (redis'[q] # Idle => redis'[q].uid = redis[q].uid)
    BY <1>7 DEF RedisStep, RedisDoes
  <2> QED
    BY <2>1 DEF WorksOn
<1> QED
  BY <1>2, <1>3, <1>4, <1>5, <1>6, <1>7 DEF StepDoes

\* What the one request that works on an account, and brings the profile to come,
\* leaves behind.
Left(q, u) ==
    /\ WorksOn(q, u) => Brings(q, u)
    /\ ~WorksOn(q, u) /\ cache[u] # Nil => cache[u].profile = uinfo[u].profile

LEMMA WorkWrites ==
    ASSUME TypeOK, RequestsFormed, NEW q \in Reqs, WriteEnds(q),
           NEW u \in Uids, u \notin disturbed', WorksOn(q, u), Brings(q, u)
    PROVE  Left(q, u)'
<1>1. /\ req[q].stage \in Writes /\ req[q].result = "" /\ req[q].stage \in Stages
      /\ req'[q].stage = req[q].stage /\ req'[q].uid = req[q].uid
      /\ req'[q].result # "" /\ redis'[q] = redis[q] /\ cache' = cache
  BY DEF WriteEnds, Waiting, HasResult, Stages
<1>2. req[q].stage = "edit_profile_info" /\ req[q].uid = u
  BY <1>1, WorksHow DEF Writes, LoginReads
<1>3. uinfo' = Written(req[q])
  BY <1>2 DEF WriteEnds
<1>4. uinfo'[u].profile = req[q].arg
  BY <1>1, <1>2, <1>3, WrittenIs
<1>5. Coming(q, u)' = Coming(q, u)
  BY <1>1, <1>2, <1>4 DEF Coming
<1>6. WorksOn(q, u)' /\ req'[q].stage \notin LoginReads
  BY <1>1, <1>2 DEF WorksOn, LoginReads
<1> QED
  BY <1>1, <1>5, <1>6 DEF Left, Brings

LEMMA WorkCalled ==
    ASSUME TypeOK, RequestsFormed, NEW q \in Reqs, Called(q),
           NEW u \in Uids, WorksOn(q, u), Brings(q, u)
    PROVE  Left(q, u)'
<1>1. /\ req[q].stage \in Stages /\ req[q].result # "" /\ uinfo' = uinfo /\ cache' = cache
      /\ Coming(q, u) = uinfo[u].profile
  BY DEF Called, SameTables, Coming
<1>2. RedisFormed(q)
  BY DEF RequestsFormed
<1>3. req'[q].stage \notin Stages
  <2>1. ASSUME NEW stage \in Stages, <<req[q].stage, req[q].result, stage>> \in Moves
        PROVE  FALSE
    BY <1>1, <2>1, MovesAre, WorksHow DEF LoginReads
  <2> QED
    BY <2>1, CalledIs
<1>4. req'[q].stage # "edit_profile_info" /\ req'[q].stage \notin LoginReads
  BY <1>3, StagesDiffer DEF Stages, Writes
<1>5. Coming(q, u)' = uinfo[u].profile
  BY <1>1, <1>4 DEF Coming
<1>6. CASE redis' = redis
  <2>1. CASE WorksOn(q, u)'
    <3>1. redis[q] # Idle /\ redis'[q] = redis[q]
      BY <1>4, <1>6, <2>1 DEF WorksOn
    <3>2. Brings(q, u)'
      BY <1>1, <1>4, <1>5, <3>1 DEF Brings
    <3> QED
      BY <2>1, <3>2 DEF Left
  <2>2. CASE ~WorksOn(q, u)'
    <3>1. redis[q] = Idle \/ redis[q].uid # u
      BY <1>4, <1>6, <2>2 DEF WorksOn
    <3>2. redis[q] = Idle
      BY <1>1, <3>1, WorksHow
    <3> QED
      BY <1>1, <2>2, <3>2 DEF Left, Brings
  <2> QED
    BY <2>1, <2>2
<1>7. CASE redis' # redis
  <2>1. /\ req[q].stage \in LoginReads /\ req[q].result = "ok"
        /\ redis'[q] # Idle /\ redis'[q].op = "hmset"
        /\ redis'[q].uid = req[q].uid /\ redis'[q].entry = req[q].entry
    BY <1>7, LoginRecord DEF Called, CallbackDoes
  <2>2. req[q].uid = u /\ req[q].entry.profile = uinfo[u].profile
    BY <1>1, <2>1, WorksHow DEF Brings
  <2>3. WorksOn(q, u)'
    BY <2>1, <2>2 DEF WorksOn
  <2>4. Brings(q, u)'
    BY <1>4, <1>5, <2>1, <2>2 DEF Brings
  <2> QED
    BY <2>3, <2>4 DEF Left
<1> QED
  BY <1>6, <1>7

LEMMA WorkRedis ==
    ASSUME TypeOK, RequestsFormed, NEW q \in Reqs, RedisStep(q),
           NEW u \in Uids, u \notin disturbed', WorksOn(q, u), Brings(q, u)
    PROVE  Left(q, u)'
<1>1. req' = req /\ uinfo' = uinfo /\ redis[q] # Idle
  BY DEF RedisStep
<1>2. redis[q].uid = u /\ req[q].stage \notin LoginReads
  BY <1>1, WorksHow
<1>3. Coming(q, u)' = Coming(q, u)
  BY <1>1 DEF Coming
<1>4. u \in 1 .. MaxUid /\ cache \in [1 .. MaxUid -> Entries \cup {Nil}]
  BY UidsAre DEF TypeOK
<1>5. ~WorksOn(q, u)' => Coming(q, u) = uinfo[u].profile
  BY <1>1 DEF WorksOn, Coming
<1>6. CASE redis'[q] = Idle /\ (cache'[u] # Nil => cache'[u].profile = Coming(q, u))
  BY <1>1, <1>2, <1>3, <1>5, <1>6 DEF Left, Brings
<1>7. CASE /\ redis[q].op = "hmset" /\ redis'[q] = Idle
           /\ cache' = [cache EXCEPT ![redis[q].uid] = redis[q].entry]
  BY <1>1, <1>2, <1>4, <1>6, <1>7 DEF Brings
<1>8. CASE /\ redis[q].op = "hgetall" /\ redis'[q] # Idle /\ cache' = cache
           /\ redis'[q].op = "got" /\ redis'[q].uid = redis[q].uid
           /\ redis'[q].profile = redis[q].profile /\ redis'[q].entry = cache[redis[q].uid]
  <2>1. WorksOn(q, u)'
    BY <1>2, <1>8 DEF WorksOn
  <2>2. redis[q].profile = Coming(q, u)
    BY <1>1, <1>8 DEF Brings
  <2>3. Brings(q, u)'
    BY <1>1, <1>2, <1>3, <1>8, <2>2 DEF Brings
  <2> QED
    BY <2>1, <2>3 DEF Left
<1>9. CASE redis[q].op = "got" /\ redis[q].entry = Nil /\ redis'[q] = Idle /\ cache' = cache
  BY <1>1, <1>6, <1>9 DEF Brings
<1>10. CASE /\ redis[q].op = "got" /\ redis'[q] # Idle /\ cache' = cache
            /\ redis'[q].op = "hmset" /\ redis'[q].uid = redis[q].uid
            /\ redis'[q].entry.profile = redis[q].profile
  <2>1. WorksOn(q, u)'
    BY <1>2, <1>10 DEF WorksOn
  <2>2. redis[q].profile = Coming(q, u)
    BY <1>1, <1>10 DEF Brings
  <2>3. Brings(q, u)'
    BY <1>1, <1>2, <1>3, <1>10, <2>2 DEF Brings
  <2> QED
    BY <2>1, <2>3 DEF Left
<1> QED
  BY <1>2, <1>7, <1>8, <1>9, <1>10 DEF RedisStep, RedisDoes

LEMMA WorkGoesOn ==
    ASSUME TypeOK, RequestsFormed, NEW q \in Reqs, StepDoes(q),
           NEW u \in Uids, u \notin disturbed', WorksOn(q, u), Brings(q, u)
    PROVE  Left(q, u)'
<1>1. CASE NewRequest(q) \/ \E v \in Uids, profile \in Profiles : NewEdit(q, v, profile)
  <2>1. req[q] = Idle /\ redis[q] = Idle
    BY <1>1 DEF NewRequest, NewEdit, Begins
  <2> QED
    BY <2>1 DEF WorksOn, Idle, LoginReads
<1>2. CASE ReadEnds(q)
  <2>1. req[q].stage \in Reads /\ req[q].result = ""
    BY <1>2 DEF ReadEnds, Waiting
  <2> QED
    BY <2>1, WorksHow DEF Reads, LoginReads, Stages
<1> QED
  BY <1>1, <1>2, WorkWrites, WorkCalled, WorkRedis DEF StepDoes

\* A step of q leaves the accounts that q does not work on as they are.
LEMMA WorkElsewhere ==
    ASSUME TypeOK, RequestsFormed, NEW q \in Reqs, StepDoes(q), NEW u \in Uids, ~WorksOn(q, u)
    PROVE  cache'[u] = cache[u] /\ uinfo'[u].profile = uinfo[u].profile
<1>1. cache'[u] = cache[u]
  <2>1. u \in 1 .. MaxUid /\ cache \in [1 .. MaxUid -> Entries \cup {Nil}]
    BY UidsAre DEF TypeOK
  <2> QED
    BY <2>1 DEF WorksOn, StepDoes, NewRequest, NewEdit, ReadEnds, WriteEnds, Called,
                RedisStep, RedisDoes, SameTables
<1>2. uinfo'[u].profile = uinfo[u].profile
  BY RowsGrow DEF WorksOn, Waiting
<1> QED
  BY <1>1, <1>2

LEMMA UndisturbedStep ==
    ASSUME TypeOK, RequestsFormed, Undisturbed, NEW q \in Reqs, Step(q)
    PROVE  Undisturbed'
<1>1. Others(q) /\ StepDoes(q)
  BY StepIs
<1>2. disturbed \subseteq disturbed'
  BY <1>1 DEF StepDoes, NewRequest, NewEdit, ReadEnds, WriteEnds, Called, RedisStep,
              RedisDoes, DisturbedBy
<1>3. SUFFICES ASSUME NEW u \in Uids', u \notin disturbed'
      PROVE  /\ \A p, r \in Reqs : WorksOn(p, u)' /\ WorksOn(r, u)' => p = r
             /\ \A p \in Reqs : WorksOn(p, u)' => Brings(p, u)'
             /\ cache'[u] # Nil /\ (\A p \in Reqs : ~WorksOn(p, u)') =>
                   cache'[u].profile = uinfo'[u].profile
  BY DEF Undisturbed
<1>4. \A p \in Reqs : p # q => req'[p] = req[p] /\ redis'[p] = redis[p]
  BY <1>1 DEF Others
<1>5. \A p \in Reqs : p # q => (WorksOn(p, u)' <=> WorksOn(p, u))
  BY <1>4 DEF WorksOn
<1>6. CASE u \notin Uids
  <2>1. WriteEnds(q)
    BY <1>1, <1>3, <1>6 DEF StepDoes, NewRequest, NewEdit, ReadEnds, Called, RedisStep,
                            SameTables, Uids
  <2>2. /\ req'[q].stage = req[q].stage /\ req'[q].uid = req[q].uid /\ redis'[q] = redis[q]
        /\ req[q].stage \in Writes /\ cache' = cache
    BY <2>1 DEF WriteEnds, Waiting, HasResult
  <2>3. u \in 1 .. MaxUid
    <3>1. TypeOK'
      BY TypeStep
    <3>2. Len(uinfo') \in Nat /\ DOMAIN uinfo' = 1 .. Len(uinfo') /\ Len(uinfo') <= MaxUid
      BY <3>1 DEF TypeOK
    <3> QED
      BY <1>3, <3>2, BoundsAssumption DEF Uids
  <2>4. cache'[u] = Nil
    BY <1>6, <2>2, <2>3 DEF RequestsFormed
  <2>5. ASSUME NEW p \in Reqs
        PROVE  ~WorksOn(p, u)
    <3>1. RedisFormed(p) /\ (req[p].stage \in Stages => Formed(req[p]))
      BY DEF RequestsFormed
    <3>2. redis[p] # Idle => redis[p].uid # u
      BY <1>6, <3>1 DEF RedisFormed
    <3>3. req[p].stage = "edit_profile_info" => req[p].uid # u
      BY <1>6, <3>1 DEF Formed, Stages, Writes
    <3>4. req[p].stage \in LoginReads => req[p].uid # u
      BY <1>6, <2>3, <3>1, StagesDiffer DEF Formed
    <3> QED
      BY <3>2, <3>3, <3>4 DEF WorksOn
  <2>6. ~WorksOn(q, u)'
    BY <2>2, <2>5 DEF WorksOn
  <2> QED
    BY <1>5, <2>4, <2>5, <2>6
<1>7. CASE u \in Uids
  <2>1. /\ \A p, r \in Reqs : WorksOn(p, u) /\ WorksOn(r, u) => p = r
        /\ \A p \in Reqs : WorksOn(p, u) => Brings(p, u)
        /\ cache[u] # Nil /\ (\A p \in Reqs : ~WorksOn(p, u)) =>
              cache[u].profile = uinfo[u].profile
    BY <1>2, <1>3, <1>7 DEF Undisturbed
  <2>2. CASE ~WorksOn(q, u) /\ ~WorksOn(q, u)'
    <3>1. cache'[u] = cache[u] /\ uinfo'[u].profile = uinfo[u].profile
      BY <1>1, <1>7, <2>2, WorkElsewhere
    <3>2. ASSUME NEW p \in Reqs, p # q, Brings(p, u)
          PROVE  Brings(p, u)'
      BY <1>4, <3>1, <3>2 DEF Brings, Coming
    <3> QED
      BY <1>5, <2>1, <2>2, <3>1, <3>2
  <2>3. CASE ~WorksOn(q, u) /\ WorksOn(q, u)'
    <3>1. /\ disturbed' = DisturbedBy(q, u)
          /\ (cache[u] # Nil => cache[u].profile = uinfo[u].profile) => Brings(q, u)'
      BY <1>1, <1>7, <2>3, WorkBegins
    <3>2. \A p \in Reqs : ~WorksOn(p, u)
      BY <1>3, <2>3, <3>1 DEF DisturbedBy
    <3> QED
      BY <1>5, <2>1, <2>3, <3>1, <3>2
  <2>4. CASE WorksOn(q, u)
    <3>1. Left(q, u)'
      BY <1>1, <1>3, <1>7, <2>1, <2>4, WorkGoesOn
    <3>2. \A p \in Reqs : p # q => ~WorksOn(p, u)'
      BY <1>5, <2>1, <2>4
    <3> QED
      BY <3>1, <3>2 DEF Left
  <2> QED
    BY <2>2, <2>3, <2>4
<1> QED
  BY <1>6, <1>7

------------------------------------------------------------------------------
(* Overlapping requests                                                    *)

LEMMA AddOne ==
    ASSUME NEW S, NEW x, IsFiniteSet(S)
    PROVE  /\ IsFiniteSet(S \cup {x}) /\ Cardinality(S \cup {x}) \in Nat
           /\ Cardinality(S \cup {x}) <= Cardinality(S) + 1
<1>1. IsFiniteSet(S \cup {x}) /\ Cardinality(S) \in Nat
  BY FS_AddElement, FS_CardinalityType
<1>2. Cardinality(S \cup {x}) \in Nat
  BY <1>1, FS_CardinalityType
<1>3. CASE x \in S
  <2>1. S \cup {x} = S
    BY <1>3
  <2> QED
    BY <1>1, <2>1
<1>4. CASE x \notin S
  <2>1. Cardinality(S \cup {x}) = Cardinality(S) + 1
    BY <1>4, FS_AddElement
  <2> QED
    BY <1>1, <1>2, <2>1
<1> QED
  BY <1>3, <1>4

\* Rows and the requests that may still add one, before and after a step: how
\* the two may change without passing the bound.  l counts the lost results.
LEMMA Counting ==
    ASSUME NEW R, NEW R2, NEW I \in SUBSET Reqs, NEW I2 \in SUBSET Reqs,
           NEW l \in Nat, NEW l2 \in Nat, l <= l2, IsFiniteSet(R),
           R # {} => Cardinality(R) + Cardinality(I) <= Cardinality(Reqs) + l,
           \/ R2 = {}
           \/ R2 \subseteq R /\ I2 \subseteq I
           \/ R2 \subseteq R /\ l2 = l + 1 /\ \E q \in Reqs : I2 \subseteq I \cup {q}
           \/ \E q \in I, n \in Nat : R2 \subseteq R \cup {n} /\ I2 \subseteq I \ {q}
    PROVE  R2 # {} => Cardinality(R2) + Cardinality(I2) <= Cardinality(Reqs) + l2
<1>1. IsFiniteSet(Reqs) /\ Cardinality(Reqs) \in Nat
  BY ReqsAssumption, FS_CardinalityType
<1>2. /\ IsFiniteSet(I) /\ Cardinality(I) \in Nat /\ Cardinality(I) <= Cardinality(Reqs)
      /\ IsFiniteSet(I2) /\ Cardinality(I2) \in Nat
  BY <1>1, FS_Subset, FS_CardinalityType
<1>3. Cardinality(R) \in Nat
  BY FS_CardinalityType
<1>4. SUFFICES ASSUME R2 # {}
      PROVE  Cardinality(R2) + Cardinality(I2) <= Cardinality(Reqs) + l2
  OBVIOUS
<1>5. CASE R2 \subseteq R /\ I2 \subseteq I
  <2>1. /\ IsFiniteSet(R2) /\ Cardinality(R2) \in Nat /\ Cardinality(R2) <= Cardinality(R)
        /\ Cardinality(I2) <= Cardinality(I) /\ R # {}
    BY <1>2, <1>4, <1>5, FS_Subset, FS_CardinalityType
  <2> QED
    BY <1>1, <1>2, <1>3, <2>1
<1>6. ASSUME R2 \subseteq R, l2 = l + 1, NEW q \in Reqs, I2 \subseteq I \cup {q}
      PROVE  Cardinality(R2) + Cardinality(I2) <= Cardinality(Reqs) + l2
  <2>1. /\ IsFiniteSet(R2) /\ Cardinality(R2) \in Nat /\ Cardinality(R2) <= Cardinality(R)
        /\ R # {}
    BY <1>4, <1>6, FS_Subset, FS_CardinalityType
  <2>2. IsFiniteSet(I \cup {q}) /\ Cardinality(I \cup {q}) \in Nat
    BY <1>2, AddOne
  <2>3. Cardinality(I \cup {q}) <= Cardinality(I) + 1
    BY <1>2, AddOne
  <2>4. Cardinality(I2) <= Cardinality(I \cup {q})
    BY <1>6, <2>2, FS_Subset
  <2> QED
    BY <1>1, <1>2, <1>3, <1>6, <2>1, <2>2, <2>3, <2>4
<1>7. ASSUME NEW q \in I, NEW n \in Nat, R2 \subseteq R \cup {n}, I2 \subseteq I \ {q}
      PROVE  Cardinality(R2) + Cardinality(I2) <= Cardinality(Reqs) + l2
  <2>1. /\ IsFiniteSet(R \cup {n}) /\ Cardinality(R \cup {n}) \in Nat
        /\ Cardinality(R \cup {n}) <= Cardinality(R) + 1
    BY <1>3, AddOne
  <2>2. IsFiniteSet(R2) /\ Cardinality(R2) \in Nat /\ Cardinality(R2) <= Cardinality(R \cup {n})
    BY <1>7, <2>1, FS_Subset, FS_CardinalityType
  <2>3. IsFiniteSet(I \ {q}) /\ Cardinality(I \ {q}) = Cardinality(I) - 1
    BY <1>2, FS_RemoveElement
  <2>4. Cardinality(I2) <= Cardinality(I) - 1
    BY <1>7, <2>3, FS_Subset
  <2>5. CASE R = {}
    <3>1. Cardinality(R) = 0
      BY <2>5, FS_EmptySet
    <3> QED
      BY <1>1, <1>2, <2>1, <2>2, <2>4, <3>1
  <2>6. CASE R # {}
    BY <1>1, <1>2, <1>3, <2>1, <2>2, <2>4, <2>6
  <2> QED
    BY <2>5, <2>6
<1> QED
  BY <1>4, <1>5, <1>6, <1>7

\* The accounts are finitely many.
LEMMA AccountsFinite ==
    ASSUME TypeOK, NEW S \in SUBSET Uids
    PROVE  IsFiniteSet(S)
<1>1. Uids = 1 .. Len(uinfo) /\ Len(uinfo) \in Int
  BY UidsAre
<1>2. IsFiniteSet(Uids)
  BY <1>1, FS_Interval
<1> QED
  BY <1>2, FS_Subset

LEMMA LostCounts ==
    ASSUME TypeOK, NEW q \in Reqs, StepDoes(q)
    PROVE  lost \in Nat /\ lost' \in Nat /\ lost <= lost'
<1>1. lost \in Nat
  BY BoundsAssumption DEF TypeOK
<1>2. lost' = lost \/ lost' = lost + 1
  BY DEF StepDoes, NewRequest, NewEdit, ReadEnds, WriteEnds, Called, RedisStep
<1> QED
  BY <1>1, <1>2

LEMMA RowsOfStep ==
    ASSUME TypeOK, RequestsFormed, NEW q \in Reqs, StepDoes(q), NEW key \in Keys
    PROVE  \/ RowsOf(key)' \subseteq RowsOf(key)
           \/ /\ Waiting(q, {"insert_guest_user_info"}) /\ req[q].arg = key
              /\ req'[q].result # "" /\ req'[q].stage = req[q].stage
              /\ \E n \in Nat : RowsOf(key)' \subseteq RowsOf(key) \cup {n}
<1>1. CASE uinfo' = uinfo
  BY <1>1 DEF RowsOf, Uids
<1>2. CASE uinfo' # uinfo
  <2>1. /\ WriteEnds(q) /\ Waiting(q, Writes) /\ req[q].stage \in Writes /\ req[q].result = ""
        /\ req[q].stage = "insert_guest_user_info" => Len(uinfo) < MaxUid
        /\ uinfo' = Written(req[q])
        /\ req'[q].result # "" /\ req'[q].stage = req[q].stage
    BY <1>2 DEF StepDoes, NewRequest, NewEdit, ReadEnds, WriteEnds, Called, RedisStep,
                SameTables, Waiting, HasResult
  <2>2. CASE req[q].stage # "insert_guest_user_info"
    <3>1. /\ req[q].uid \in Uids /\ Uids' = Uids
          /\ \A u \in Uids : u # req[q].uid => uinfo'[u] = uinfo[u]
          /\ uinfo'[req[q].uid].guest_key = uinfo[req[q].uid].guest_key
      BY <2>1, <2>2, WrittenIs
    <3> QED
      BY <3>1 DEF RowsOf
  <2>3. CASE req[q].stage = "insert_guest_user_info"
    <3>1. PICK n \in 1 .. MaxUid :
              /\ Uids' = Uids \cup {n}
              /\ \A u \in Uids : uinfo'[u] = uinfo[u]
              /\ uinfo'[n].guest_key = req[q].arg
      BY <2>1, <2>3, WrittenIs
    <3>2. RowsOf(key)' \subseteq RowsOf(key) \cup {n} /\ n \in Nat
      BY <3>1, BoundsAssumption DEF RowsOf
    <3>3. req[q].arg # key => RowsOf(key)' \subseteq RowsOf(key)
      BY <3>1 DEF RowsOf
    <3> QED
      BY <2>1, <2>3, <3>2, <3>3 DEF Waiting
  <2> QED
    BY <2>2, <2>3
<1> QED
  BY <1>1, <1>2

\* A login joins those that may insert only when it finds no row, or its result
\* is lost.
LEMMA InsertingStep ==
    ASSUME TypeOK, RequestsFormed, NEW q \in Reqs, Others(q), StepDoes(q), NEW key \in Keys
    PROVE  \/ Inserting(key)' \subseteq Inserting(key)
           \/ uinfo' = uinfo /\ RowsOf(key) = {}
           \/ lost' = lost + 1 /\ Inserting(key)' \subseteq Inserting(key) \cup {q}
<1>1. \A p \in Reqs : p # q => req'[p] = req[p]
  BY DEF Others
<1>2. Inserting(key)' \subseteq Inserting(key) \cup {q}
  BY <1>1 DEF Inserting, Back, Waiting
<1>3. ASSUME q \in Inserting(key)', q \notin Inserting(key)
      PROVE  (uinfo' = uinfo /\ RowsOf(key) = {}) \/ lost' = lost + 1
  <2>1. /\ \/ req'[q].stage = "get_guest_user_info" /\ req'[q].result \in {"none", "lost"}
           \/ req'[q].stage = "insert_guest_user_info" /\ req'[q].result = ""
        /\ req'[q].arg = key
    BY <1>3 DEF Inserting, Back, Waiting
  <2>2. CASE NewRequest(q) \/ \E u \in Uids, profile \in Profiles : NewEdit(q, u, profile)
    BY <2>1, <2>2 DEF NewRequest, NewEdit, Begins
  <2>3. CASE ReadEnds(q)
    <3>1. /\ req'[q].stage = req[q].stage /\ req'[q].arg = req[q].arg /\ uinfo' = uinfo
          /\ req[q].stage \in Reads
      BY <2>3 DEF ReadEnds, HasResult, Waiting, SameTables
    <3>2. req[q].stage = "get_guest_user_info"
      BY <2>1, <3>1 DEF Reads, LoginReads
    <3>3. CASE lost' = lost + 1
      BY <3>3
    <3>4. CASE lost' # lost + 1
      <4>1. Matches(req[q]) = {}
        BY <2>1, <2>3, <3>1, <3>2, <3>4 DEF ReadEnds, HasResult
      <4>2. \A u \in Uids : uinfo[u].guest_key # key
        BY <2>1, <3>1, <3>2, <4>1 DEF Matches
      <4> QED
        BY <3>1, <4>2 DEF RowsOf
    <3> QED
      BY <3>3, <3>4
  <2>4. CASE WriteEnds(q)
    BY <2>1, <2>4 DEF WriteEnds, HasResult, Waiting, Writes
  <2>5. CASE Called(q)
    <3>1. req'[q].stage \in Stages
      BY <2>1 DEF Stages, Reads, Writes, LoginReads
    <3>2. PICK stage \in Stages :
              <<req[q].stage, req[q].result, stage>> \in Moves /\ GoesOn(q, stage)
      BY <2>5, <3>1, CalledIs
    <3>3. req'[q].stage = stage /\ req'[q].result = "" /\ req'[q].arg = req[q].arg
      BY <3>2 DEF GoesOn
    <3>4. req[q].stage = "get_guest_user_info" /\ req[q].result \in {"none", "lost"}
      BY <2>1, <3>2, <3>3, MovesAre
    <3> QED
      BY <1>3, <2>1, <3>3, <3>4 DEF Inserting, Back
  <2>6. CASE RedisStep(q)
    BY <1>3, <2>6 DEF RedisStep, Inserting, Back, Waiting
  <2> QED
    BY <2>2, <2>3, <2>4, <2>5, <2>6 DEF StepDoes
<1> QED
  BY <1>2, <1>3

LEMMA GuestRowsStep ==
    ASSUME TypeOK, RequestsFormed, GuestRowsBounded, NEW q \in Reqs, Step(q)
    PROVE  GuestRowsBounded'
<1>1. Others(q) /\ StepDoes(q)
  BY StepIs
<1>2. SUFFICES ASSUME NEW key \in Keys
      PROVE  RowsOf(key)' # {} =>
                 Cardinality(RowsOf(key)') + Cardinality(Inserting(key)')
                     <= Cardinality(Reqs) + lost'
  BY DEF GuestRowsBounded
<1> DEFINE R == RowsOf(key)
           I == Inserting(key)
<1>3. /\ I \in SUBSET Reqs /\ I' \in SUBSET Reqs /\ IsFiniteSet(R)
      /\ R # {} => Cardinality(R) + Cardinality(I) <= Cardinality(Reqs) + lost
  BY AccountsFinite DEF Inserting, RowsOf, GuestRowsBounded
<1>4. lost \in Nat /\ lost' \in Nat /\ lost <= lost'
  BY <1>1, LostCounts
<1>5. \/ R' = {}
      \/ R' \subseteq R /\ I' \subseteq I
      \/ R' \subseteq R /\ lost' = lost + 1 /\ \E p \in Reqs : I' \subseteq I \cup {p}
      \/ \E p \in I, n \in Nat : R' \subseteq R \cup {n} /\ I' \subseteq I \ {p}
  <2>1. CASE R' \subseteq R
    <3>1. \/ I' \subseteq I
          \/ uinfo' = uinfo /\ R = {}
          \/ lost' = lost + 1 /\ I' \subseteq I \cup {q}
      BY <1>1, InsertingStep
    <3> QED
      BY <2>1, <3>1
  <2>2. CASE /\ Waiting(q, {"insert_guest_user_info"}) /\ req[q].arg = key
             /\ req'[q].result # "" /\ req'[q].stage = req[q].stage
             /\ \E n \in Nat : R' \subseteq R \cup {n}
    <3>1. q \in I
      BY <2>2 DEF Inserting
    <3>2. I' \subseteq I \ {q}
      BY <1>1, <2>2 DEF Inserting, Others, Back, Waiting
    <3> QED
      BY <2>2, <3>1, <3>2
  <2> QED
    BY <1>1, <2>1, <2>2, RowsOfStep
<1> HIDE DEF R, I
<1>6. R' # {} => Cardinality(R') + Cardinality(I') <= Cardinality(Reqs) + lost'
  BY <1>3, <1>4, <1>5, Counting
<1> QED
  BY <1>6 DEF R, I

LEMMA AccountsOfStep ==
    ASSUME TypeOK, RequestsFormed, NEW q \in Reqs, StepDoes(q), NEW uname \in Names
    PROVE  \/ AccountsOf(uname)' \subseteq AccountsOf(uname)
           \/ /\ Waiting(q, {"do_account_upgrade"}) /\ req[q].arg = uname
              /\ req'[q].result # "" /\ req'[q].stage = req[q].stage
              /\ \E n \in Nat : AccountsOf(uname)' \subseteq AccountsOf(uname) \cup {n}
<1>1. CASE uinfo' = uinfo
  BY <1>1 DEF AccountsOf, Uids
<1>2. CASE uinfo' # uinfo
  <2>1. /\ WriteEnds(q) /\ Waiting(q, Writes) /\ req[q].stage \in Writes /\ req[q].result = ""
        /\ req[q].stage = "insert_guest_user_info" => Len(uinfo) < MaxUid
        /\ uinfo' = Written(req[q])
        /\ req'[q].result # "" /\ req'[q].stage = req[q].stage
    BY <1>2 DEF StepDoes, NewRequest, NewEdit, ReadEnds, WriteEnds, Called, RedisStep,
                SameTables, Waiting, HasResult
  <2>2. CASE req[q].stage = "insert_guest_user_info"
    <3>1. PICK n \in 1 .. MaxUid :
              /\ Uids' = Uids \cup {n}
              /\ \A u \in Uids : uinfo'[u] = uinfo[u]
              /\ uinfo'[n].uname = Nil
      BY <2>1, <2>2, WrittenIs
    <3>2. uname # Nil
      BY NilAssumption
    <3> QED
      BY <3>1, <3>2 DEF AccountsOf
  <2>3. CASE req[q].stage = "edit_profile_info"
    <3>1. /\ req[q].uid \in Uids /\ Uids' = Uids
          /\ \A u \in Uids : u # req[q].uid => uinfo'[u] = uinfo[u]
          /\ uinfo'[req[q].uid].uname = uinfo[req[q].uid].uname
      BY <2>1, <2>3, WrittenIs
    <3> QED
      BY <3>1 DEF AccountsOf
  <2>4. CASE req[q].stage = "do_account_upgrade"
    <3>1. /\ req[q].uid \in Uids /\ Uids' = Uids
          /\ \A u \in Uids : u # req[q].uid => uinfo'[u] = uinfo[u]
          /\ uinfo'[req[q].uid].uname = req[q].arg
      BY <2>1, <2>4, WrittenIs
    <3>2. req[q].uid \in Nat
      BY <3>1, UidsAre, BoundsAssumption
    <3>3. AccountsOf(uname)' \subseteq AccountsOf(uname) \cup {req[q].uid}
      BY <3>1 DEF AccountsOf
    <3>4. req[q].arg # uname => AccountsOf(uname)' \subseteq AccountsOf(uname)
      BY <3>1 DEF AccountsOf
    <3> QED
      BY <2>1, <2>4, <3>2, <3>3, <3>4 DEF Waiting
  <2> QED
    BY <2>1, <2>2, <2>3, <2>4 DEF Writes
<1> QED
  BY <1>1, <1>2

\* An upgrade joins those that may write the name only when it finds it free.
LEMMA UpgradingStep ==
    ASSUME TypeOK, RequestsFormed, NEW q \in Reqs, Others(q), StepDoes(q), NEW uname \in Names
    PROVE  \/ Upgrading(uname)' \subseteq Upgrading(uname)
           \/ uinfo' = uinfo /\ AccountsOf(uname) = {}
<1>1. \A p \in Reqs : p # q => req'[p] = req[p]
  BY DEF Others
<1>2. Upgrading(uname)' \subseteq Upgrading(uname) \cup {q}
  BY <1>1 DEF Upgrading, Back, Waiting
<1>3. ASSUME q \in Upgrading(uname)', q \notin Upgrading(uname)
      PROVE  uinfo' = uinfo /\ AccountsOf(uname) = {}
  <2>1. /\ \/ req'[q].stage = "check_username_exist" /\ req'[q].result = "none"
           \/ req'[q].stage = "get_userinfo_by_uid" /\ req'[q].result \in {"", "ok"}
           \/ req'[q].stage = "do_account_upgrade" /\ req'[q].result = ""
        /\ req'[q].arg = uname
    BY <1>3 DEF Upgrading, Back, Waiting
  <2>2. CASE NewRequest(q) \/ \E u \in Uids, profile \in Profiles : NewEdit(q, u, profile)
    BY <2>1, <2>2 DEF NewRequest, NewEdit, Begins
  <2>3. CASE ReadEnds(q)
    <3>1. /\ req'[q].stage = req[q].stage /\ req'[q].arg = req[q].arg /\ uinfo' = uinfo
          /\ req[q].stage \in Reads /\ req[q].result = ""
      BY <2>3 DEF ReadEnds, HasResult, Waiting, SameTables
    <3>2. req[q].stage = "check_username_exist" /\ req'[q].result = "none"
      BY <1>3, <2>1, <3>1 DEF Reads, LoginReads, Upgrading
    <3>3. Matches(req[q]) = {}
      BY <2>3, <3>2 DEF ReadEnds, HasResult
    <3>4. \A u \in Uids : uinfo[u].uname # uname
      BY <2>1, <3>1, <3>2, <3>3 DEF Matches
    <3> QED
      BY <3>1, <3>4 DEF AccountsOf
  <2>4. CASE WriteEnds(q)
    BY <2>1, <2>4 DEF WriteEnds, HasResult, Waiting, Writes
  <2>5. CASE Called(q)
    <3>1. req'[q].stage \in Stages
      BY <2>1 DEF Stages, Reads, Writes, LoginReads
    <3>2. PICK stage \in Stages :
              <<req[q].stage, req[q].result, stage>> \in Moves /\ GoesOn(q, stage)
      BY <2>5, <3>1, CalledIs
    <3>3. req'[q].stage = stage /\ req'[q].result = "" /\ req'[q].arg = req[q].arg
      BY <3>2 DEF GoesOn
    <3>4. \/ req[q].stage = "check_username_exist" /\ req[q].result = "none"
          \/ req[q].stage = "get_userinfo_by_uid" /\ req[q].result = "ok"
      BY <2>1, <3>2, <3>3, MovesAre
    <3> QED
      BY <1>3, <2>1, <3>3, <3>4 DEF Upgrading, Back
  <2>6. CASE RedisStep(q)
    BY <1>3, <2>6 DEF RedisStep, Upgrading, Back, Waiting
  <2> QED
    BY <2>2, <2>3, <2>4, <2>5, <2>6 DEF StepDoes
<1> QED
  BY <1>2, <1>3

LEMMA NamesStep ==
    ASSUME TypeOK, RequestsFormed, NamesBounded, NEW q \in Reqs, Step(q)
    PROVE  NamesBounded'
<1>1. Others(q) /\ StepDoes(q)
  BY StepIs
<1>2. SUFFICES ASSUME NEW uname \in Names
      PROVE  AccountsOf(uname)' # {} =>
                 Cardinality(AccountsOf(uname)') + Cardinality(Upgrading(uname)')
                     <= Cardinality(Reqs)
  BY DEF NamesBounded
<1> DEFINE R == AccountsOf(uname)
           I == Upgrading(uname)
<1>3. I \in SUBSET Reqs /\ I' \in SUBSET Reqs /\ IsFiniteSet(R) /\ Cardinality(Reqs) \in Nat
  BY AccountsFinite, ReqsAssumption, FS_CardinalityType DEF Upgrading, AccountsOf
<1>4. R # {} => Cardinality(R) + Cardinality(I) <= Cardinality(Reqs) + 0
  BY <1>3 DEF NamesBounded
<1>5. \/ R' = {}
      \/ R' \subseteq R /\ I' \subseteq I
      \/ \E p \in I, n \in Nat : R' \subseteq R \cup {n} /\ I' \subseteq I \ {p}
  <2>1. CASE R' \subseteq R
    <3>1. I' \subseteq I \/ (uinfo' = uinfo /\ R = {})
      BY <1>1, UpgradingStep
    <3> QED
      BY <2>1, <3>1
  <2>2. CASE /\ Waiting(q, {"do_account_upgrade"}) /\ req[q].arg = uname
             /\ req'[q].result # "" /\ req'[q].stage = req[q].stage
             /\ \E n \in Nat : R' \subseteq R \cup {n}
    <3>1. q \in I
      BY <2>2 DEF Upgrading
    <3>2. q \notin I'
      BY <2>2 DEF Upgrading, Back, Waiting
    <3>3. I' \subseteq I \ {q}
      BY <1>1, <3>2 DEF Upgrading, Others, Back, Waiting
    <3> QED
      BY <2>2, <3>1, <3>3
  <2> QED
    BY <1>1, <2>1, <2>2, AccountsOfStep
<1> HIDE DEF R, I
<1>6. R' # {} => Cardinality(R') + Cardinality(I') <= Cardinality(Reqs) + 0
  BY <1>3, <1>4, <1>5, Counting
<1> QED
  BY <1>3, <1>6 DEF R, I

------------------------------------------------------------------------------
(* The initial state                                                       *)

LEMMA InitIInv == Init => IInv
<1> SUFFICES ASSUME Init PROVE IInv
  OBVIOUS
<1>1. TypeOK
  <2>1. uinfo \in Seq(Rows) /\ Len(uinfo) <= MaxUid
    BY OldRowsAssumption DEF Init, Rows
  <2> QED
    BY <2>1, BoundsAssumption DEF Init, TypeOK
<1>2. ASSUME NEW q \in Reqs
      PROVE  req[q] = Idle /\ redis[q] = Idle /\ req[q].stage = "idle"
  BY <1>2 DEF Init, Idle
<1>3. \A q \in Reqs : req[q].stage \notin Stages /\ req[q].stage \notin LoginReads
  BY <1>2, StagesDiffer
<1>4. \A u \in Uids : cache[u] = Nil
  BY <1>1, UidsAre DEF Init
<1>5. RequestsFormed
  BY <1>2, <1>3, StagesDiffer DEF RequestsFormed, RedisFormed, Init, Stages, Writes
<1>6. ClosedStay
  BY <1>3 DEF ClosedStay
<1>7. GuestCopies
  BY <1>2, <1>3, <1>4 DEF GuestCopies
<1>8. Undisturbed
  BY <1>2, <1>3, <1>4 DEF Undisturbed, WorksOn
<1>9. ASSUME NEW S \in SUBSET Uids, \A u, v \in S : u = v, S # {}
      PROVE  Cardinality(S) + Cardinality({}) <= Cardinality(Reqs)
  <2>1. PICK u \in S : S = {u}
    BY <1>9
  <2>2. Cardinality(S) = 1 /\ Cardinality({}) = 0
    BY <2>1, FS_Singleton, FS_EmptySet
  <2>3. Cardinality(Reqs) \in Nat /\ Cardinality(Reqs) # 0
    BY ReqsAssumption, FS_CardinalityType, FS_EmptySet
  <2> QED
    BY <2>2, <2>3
<1>10. lost = 0 /\ Cardinality(Reqs) \in Nat
  BY ReqsAssumption, FS_CardinalityType DEF Init
<1>11. ASSUME NEW key \in Keys, RowsOf(key) # {}
       PROVE  Cardinality(RowsOf(key)) + Cardinality(Inserting(key))
                  <= Cardinality(Reqs) + lost
  <2>1. \A u, v \in RowsOf(key) : u = v
    BY OldRowsAssumption DEF RowsOf, Uids, Init
  <2>2. Inserting(key) = {}
    BY <1>2 DEF Inserting, Back, Waiting
  <2>3. RowsOf(key) \in SUBSET Uids
    BY DEF RowsOf
  <2> QED
    BY <1>9, <1>10, <1>11, <2>1, <2>2, <2>3
<1>12. ASSUME NEW uname \in Names, AccountsOf(uname) # {}
       PROVE  Cardinality(AccountsOf(uname)) + Cardinality(Upgrading(uname))
                  <= Cardinality(Reqs)
  <2>1. \A u, v \in AccountsOf(uname) : u = v
    BY OldRowsAssumption, NilAssumption DEF AccountsOf, Uids, Init
  <2>2. Upgrading(uname) = {}
    BY <1>2 DEF Upgrading, Back, Waiting
  <2>3. AccountsOf(uname) \in SUBSET Uids
    BY DEF AccountsOf
  <2> QED
    BY <1>9, <1>12, <2>1, <2>2, <2>3
<1> QED
  BY <1>1, <1>5, <1>6, <1>7, <1>8, <1>11, <1>12 DEF IInv, GuestRowsBounded, NamesBounded

LEMMA IInvStep == IInv /\ [Next]_vars => IInv'
<1> SUFFICES ASSUME IInv, [Next]_vars PROVE IInv'
  OBVIOUS
<1>1. CASE Next
  <2>1. PICK q \in Reqs : Step(q)
    BY <1>1, NextIsStep
  <2> QED
    BY <2>1, TypeStep, FormedStep, ClosedStep, GuestCopiesStep, UndisturbedStep,
       GuestRowsStep, NamesStep DEF IInv
<1>2. CASE UNCHANGED vars
  <2>1. UNCHANGED <<uinfo, cache, req, redis, came, lost, disturbed>>
    BY <1>2 DEF vars
  <2>2. (TypeOK /\ RequestsFormed)'
    BY <2>1 DEF IInv, TypeOK, RequestsFormed, Formed, RedisFormed, Uids
  <2>3. (ClosedStay /\ GuestCopies)'
    BY <2>1 DEF IInv, ClosedStay, KeepsOut, GuestCopies, Uids
  <2>4. Undisturbed'
    <3>1. /\ Uids' = Uids /\ \A u \in Uids, p \in Reqs : WorksOn(p, u)' <=> WorksOn(p, u)
          /\ \A u \in Uids, p \in Reqs : Coming(p, u)' = Coming(p, u)
      BY <2>1 DEF WorksOn, Coming, Uids
    <3>2. \A u \in Uids, p \in Reqs : Brings(p, u)' <=> Brings(p, u)
      BY <2>1, <3>1 DEF Brings
    <3> QED
      BY <2>1, <3>1, <3>2 DEF IInv, Undisturbed
  <2>5. GuestRowsBounded' /\ NamesBounded'
    BY <2>1 DEF IInv, GuestRowsBounded, NamesBounded, RowsOf, Inserting, AccountsOf,
                Upgrading, Back, Waiting, Uids
  <2> QED
    BY <2>2, <2>3, <2>4, <2>5 DEF IInv
<1> QED
  BY <1>1, <1>2

\* The invariant holds always.
THEOREM Inductive == Spec => []IInv
<1>1. Init => IInv
  BY InitIInv
<1>2. IInv /\ [Next]_vars => IInv'
  BY IInvStep
<1> QED
  BY <1>1, <1>2, PTL DEF Spec

------------------------------------------------------------------------------
(* The theorems                                                            *)

\* Every variable keeps its type (auth_server).
THEOREM TypeCorrect == Spec => []TypeOK
<1>1. IInv => TypeOK
  BY DEF IInv
<1> QED
  BY <1>1, Inductive, PTL

\* Several accounts of one guest key arise only from logins that overlap and from lost
\* results, one from each at most (guest.lua:36); that there is one only does not hold.
THEOREM GuestRowsCorrect == Spec => []GuestRowsBounded
<1>1. IInv => GuestRowsBounded
  BY DEF IInv
<1> QED
  BY <1>1, Inductive, PTL

\* Several accounts of one name arise only from upgrades that overlap, one from each at
\* most (account_upgrade.lua:92); that there is one only does not hold.
THEOREM NamesCorrect == Spec => []NamesBounded
<1>1. IInv => NamesBounded
  BY DEF IInv
<1> QED
  BY <1>1, Inductive, PTL

\* Redis agrees with the table on accounts that nobody works on, while nothing
\* overlapped or failed, and never takes a guest for a registered user
\* (redis_auth_center.lua:102).
THEOREM CacheCorrect == Spec => []CacheAgrees
<1>1. IInv => CacheAgrees
  BY DEF IInv, CacheAgrees, Undisturbed, GuestCopies
<1> QED
  BY <1>1, Inductive, PTL

\* A guest login enters an account of its key that was a guest's when it came
\* (guest.lua:71).
THEOREM GuestStaysOutCorrect == Spec => GuestStaysOut
<1> DEFINE Enters(q) ==
        req[q].stage = "get_guest_user_info" /\ redis[q] = Idle /\ redis'[q] # Idle =>
            /\ redis'[q].uid \notin req[q].closed
            /\ uinfo[redis'[q].uid].guest_key = req[q].arg
<1>1. ASSUME IInv, [Next]_vars
      PROVE  [\A q \in Reqs : Enters(q)]_vars
  <2>1. SUFFICES ASSUME Next, NEW p \in Reqs PROVE Enters(p)
    BY <1>1
  <2>2. PICK q \in Reqs : Step(q)
    BY <2>1, NextIsStep
  <2>3. Others(q) /\ StepDoes(q)
    BY <1>1, <2>2, StepIs DEF IInv
  <2>4. SUFFICES ASSUME req[q].stage = "get_guest_user_info", redis[q] = Idle,
                        redis'[q] # Idle, p = q
        PROVE  /\ redis'[q].uid \notin req[q].closed
               /\ uinfo[redis'[q].uid].guest_key = req[q].arg
    BY <2>3 DEF Others
  <2>5. Called(q)
    <3>1. req[q] # Idle
      BY <2>4 DEF Idle
    <3>2. \A u, profile : ~NewEdit(q, u, profile)
      BY <3>1 DEF NewEdit, Begins
    <3>3. ~NewRequest(q) /\ ~ReadEnds(q) /\ ~WriteEnds(q)
      BY <2>4 DEF NewRequest, ReadEnds, WriteEnds
    <3>4. ~RedisStep(q)
      BY <2>4 DEF RedisStep
    <3> QED
      BY <2>3, <3>2, <3>3, <3>4 DEF StepDoes
  <2>6. /\ req[q].result = "ok" /\ req[q].entry.is_guest /\ req[q].stage \in LoginReads
        /\ redis' = [redis EXCEPT ![q] = [op |-> "hmset", uid |-> req[q].uid,
                                          profile |-> req[q].entry.profile,
                                          entry |-> req[q].entry]]
    BY <2>4, <2>5 DEF Called, CallbackDoes
  <2>7. redis'[q].uid = req[q].uid
    BY <1>1, <2>6, LoginRecord DEF IInv
  <2>8. KeepsOut(req[q])
    BY <1>1, <2>6, StagesDiffer DEF IInv, ClosedStay
  <2> QED
    BY <2>4, <2>6, <2>7, <2>8 DEF KeepsOut
<1> QED
  BY <1>1, Inductive, PTL DEF Spec, GuestStaysOut
------------------------------------------------------------------------------
(* No request is forgotten                                                 *)

\* A query that has ended has a callback that takes its result: an insert or an
\* update is never without one, and the account of an upgrade is always found.
HasCallback ==
    \A q \in Reqs : req[q].stage \in Stages /\ req[q].result # "" =>
        \/ req[q].stage \in LoginReads \cup {"check_username_exist"}
        \/ Back(q, "get_userinfo_by_uid", {"ok", "lost", "err"})
        \/ req[q].stage \in Writes /\ req[q].result \in {"ok", "err"}

\* What ends in a Lua error is a login by name whose select failed, or an upgrade
\* that lost the result of one of its two selects, and nothing else.
OnlySelectsRaise ==
    [][\A q \in Reqs : req'[q] = Raised /\ req[q] # Raised =>
        \/ Back(q, "get_uinfo_by_uname_upwd", {"err"})
        \/ Back(q, "check_username_exist", {"lost"})
        \/ Back(q, "get_userinfo_by_uid", {"lost"})]_vars

LEMMA HasCallbackStep ==
    ASSUME TypeOK, RequestsFormed, HasCallback, [Next]_vars
    PROVE  HasCallback'
<1>1. CASE Next
  <2>1. PICK q \in Reqs : Step(q)
    BY <1>1, NextIsStep
  <2>2. Others(q) /\ StepDoes(q)
    BY <2>1, StepIs
  <2>3. ASSUME NEW p \in Reqs, req'[p] = req[p], req'[p].stage \in Stages, req'[p].result # ""
        PROVE  \/ req'[p].stage \in LoginReads \cup {"check_username_exist"}
               \/ Back(p, "get_userinfo_by_uid", {"ok", "lost", "err"})'
               \/ req'[p].stage \in Writes /\ req'[p].result \in {"ok", "err"}
    BY <2>3 DEF HasCallback, Back
  <2>4. ASSUME req'[q].stage \in Stages, req'[q].result # ""
        PROVE  \/ req'[q].stage \in LoginReads \cup {"check_username_exist"}
               \/ Back(q, "get_userinfo_by_uid", {"ok", "lost", "err"})'
               \/ req'[q].stage \in Writes /\ req'[q].result \in {"ok", "err"}
    <3>1. CASE NewRequest(q)
      BY <2>4, <3>1 DEF NewRequest, Begins
    <3>2. ASSUME NEW u, NEW profile, NewEdit(q, u, profile) PROVE FALSE
      BY <2>4, <3>2 DEF NewEdit, Begins
    <3>3. CASE ReadEnds(q)
      <4>1. /\ req'[q].stage = req[q].stage /\ req[q].stage \in Reads
            /\ req'[q].result \in {"ok", "none", "lost", "err"}
            /\ req'[q].result = "none" => Matches(req[q]) = {}
        BY <3>3 DEF ReadEnds, HasResult, Waiting
      <4>2. CASE req[q].stage = "get_userinfo_by_uid"
        <5>1. req[q].uid \in Uids
          BY <4>2, StagesDiffer DEF RequestsFormed, Formed, UpgradeStages, Stages, Reads
        <5>2. req[q].uid \in Matches(req[q])
          BY <4>2, <5>1 DEF Matches
        <5> QED
          BY <4>1, <4>2, <5>2 DEF Back
      <4>3. CASE req[q].stage # "get_userinfo_by_uid"
        BY <4>1, <4>3 DEF Reads
      <4> QED
        BY <4>2, <4>3
    <3>4. CASE WriteEnds(q)
      BY <3>4 DEF WriteEnds, HasResult, Waiting
    <3>5. CASE Called(q)
      BY <2>4, <3>5, CalledIs DEF GoesOn
    <3>6. CASE RedisStep(q)
      BY <2>3, <2>4, <3>6 DEF RedisStep
    <3> QED
      BY <2>2, <3>1, <3>2, <3>3, <3>4, <3>5, <3>6 DEF StepDoes
  <2>5. \A p \in Reqs : p # q => req'[p] = req[p]
    BY <2>2 DEF Others
  <2> QED
    BY <2>3, <2>4, <2>5 DEF HasCallback
<1>2. CASE UNCHANGED vars
  BY <1>2 DEF vars, HasCallback, Back
<1> QED
  BY <1>1, <1>2

\* What the callbacks make of a request.
LEMMA WhatRaises ==
    ASSUME TypeOK, HasCallback, NEW q \in Reqs, Callback(q), req'[q] = Raised
    PROVE  \/ Back(q, "get_uinfo_by_uname_upwd", {"err"})
           \/ Back(q, "check_username_exist", {"lost"})
           \/ Back(q, "get_userinfo_by_uid", {"lost"})
<1>1. req[q].stage \in Stages /\ req[q].result # ""
  BY CallbackIs
<1>2. Idle # Raised
  BY DEF Idle, Raised
<1>3. ~Answer(q)
  BY <1>2, AnswerIs
<1>4. ASSUME NEW stage \in Stages, NextQuery(q, stage), redis' = redis PROVE FALSE
  <2>1. req'[q].stage \in Stages
    BY <1>1, <1>4, NextQueryIs DEF GoesOn
  <2> QED
    BY <2>1, StagesDiffer DEF Raised
<1>5. /\ "get_guest_user_info" \in Stages /\ "insert_guest_user_info" \in Stages
      /\ "get_userinfo_by_uid" \in Stages /\ "do_account_upgrade" \in Stages
  BY DEF Stages, Reads, Writes, LoginReads
<1>6. ~GuestCallback(q)
  BY <1>3, <1>4, <1>5 DEF GuestCallback, NoAccount, LoginOK
<1>7. CASE UnameCallback(q)
  BY <1>3, <1>7 DEF UnameCallback, LoginOK, Back
<1>8. CASE UpgradeCallback(q)
  <2>1. req[q].stage \in UpgradeStages /\ req[q].result = "lost"
    BY <1>3, <1>4, <1>5, <1>8 DEF UpgradeCallback
  <2>2. req[q].stage # "do_account_upgrade"
    BY <1>1, <2>1 DEF HasCallback, Back, LoginReads
  <2> QED
    BY <2>1, <2>2 DEF UpgradeStages, Back
<1>9. ~EditCallback(q)
  BY <1>3 DEF EditCallback
<1> QED
  BY <1>6, <1>7, <1>8, <1>9 DEF Callback

\* Whatever a query comes back with, a callback takes it and, if the query is of
\* a guest login, an insert, an update or an edit, does not end in a Lua error:
\* what GuestAnswered rests on (guest.lua:36, account_upgrade.lua:92).
THEOREM NoRequestForgotten == Spec => []HasCallback /\ OnlySelectsRaise
<1>1. Init => HasCallback
  <2> SUFFICES ASSUME Init, NEW q \in Reqs PROVE req[q].stage \notin Stages
    BY DEF HasCallback
  <2>1. req[q].stage = "idle"
    BY DEF Init, Idle
  <2> QED
    BY <2>1, StagesDiffer
<1>2. IInv /\ HasCallback /\ [Next]_vars => HasCallback'
  BY HasCallbackStep DEF IInv
<1>3. ASSUME IInv, HasCallback, [Next]_vars
      PROVE  [\A q \in Reqs : req'[q] = Raised /\ req[q] # Raised =>
                  \/ Back(q, "get_uinfo_by_uname_upwd", {"err"})
                  \/ Back(q, "check_username_exist", {"lost"})
                  \/ Back(q, "get_userinfo_by_uid", {"lost"})]_vars
  <2>1. SUFFICES ASSUME Next, NEW p \in Reqs, req'[p] = Raised, req[p] # Raised
        PROVE  \/ Back(p, "get_uinfo_by_uname_upwd", {"err"})
               \/ Back(p, "check_username_exist", {"lost"})
               \/ Back(p, "get_userinfo_by_uid", {"lost"})
    BY <1>3
  <2>2. PICK q \in Reqs : Step(q)
    BY <2>1, NextIsStep
  <2>3. Others(q) /\ StepDoes(q)
    BY <1>3, <2>2, StepIs DEF IInv
  <2>4. p = q
    BY <2>1, <2>3 DEF Others
  <2>5. req'[q].stage = "raised" /\ "raised" \notin Stages
    BY <2>1, <2>4, StagesDiffer DEF Raised
  <2>6. ~NewRequest(q) /\ \A u, profile : ~NewEdit(q, u, profile)
    BY <2>5 DEF NewRequest, NewEdit, Begins
  <2>7. ~ReadEnds(q) /\ ~WriteEnds(q)
    BY <2>5, StagesDiffer DEF ReadEnds, WriteEnds, HasResult, Waiting
  <2>8. ~RedisStep(q)
    BY <2>1, <2>4 DEF RedisStep
  <2>9. Callback(q)
    <3>1. ASSUME NEW key \in Keys, guest_login(q, key) PROVE FALSE
      BY <1>3, <2>6, <3>1, guest_loginIs DEF NewRequest, IInv
    <3>2. ASSUME NEW uname \in Names, uname_login_process(q, uname) PROVE FALSE
      BY <1>3, <2>6, <3>2, uname_login_processIs DEF NewRequest, IInv
    <3>3. ASSUME NEW u \in Uids, NEW uname \in Names, account_upgrade_process(q, u, uname)
          PROVE  FALSE
      BY <1>3, <2>6, <3>3, account_upgrade_processIs DEF NewRequest, IInv
    <3>4. ASSUME NEW u \in Uids, NEW profile \in Profiles, edit_profile(q, u, profile)
          PROVE  FALSE
      <4>1. Begins(q, "edit_profile_info", profile, u, {})
        BY <1>3, <3>4, edit_profileIs DEF IInv
      <4> QED
        BY <2>5, <4>1 DEF Begins
    <3>5. ~ExecuteRead(q) /\ ~ExecuteWrite(q)
      BY <1>3, <2>7, ExecuteReadIs, ExecuteWriteIs DEF IInv
    <3>6. ~(ExecuteSet(q) \/ ExecuteGet(q) \/ EditToRedis(q) \/ RedisFails(q))
      BY <1>3, <2>8, RedisStepIs DEF RedisStep, IInv
    <3> QED
      BY <2>2, <3>1, <3>2, <3>3, <3>4, <3>5, <3>6 DEF Step, Callback
  <2> QED
    BY <1>3, <2>1, <2>4, <2>9, WhatRaises DEF IInv
<1> QED
  BY <1>1, <1>2, <1>3, Inductive, PTL DEF Spec, OnlySelectsRaise
=============================================================================
