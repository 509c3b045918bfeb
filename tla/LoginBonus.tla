----------------------------- MODULE LoginBonus -----------------------------
(***************************************************************************)
(* The system server: the daily login bonus, granted when a user asks for  *)
(* its game data and paid when it claims it.  Sources, under               *)
(* src/src/script/: system_server/user_game_info.lua,                      *)
(* system_server/login_bonues.lua, database/mysql_system_ugame.lua.        *)
(*                                                                         *)
(* The handlers run on the one loop of the process, but every query runs   *)
(* on one of libuv's worker threads: Execute is the query, its callback is *)
(* a step of its own, and other handlers run in between.  Queries wait for *)
(* one mutex, so they take effect one at a time, in any order.             *)
(***************************************************************************)
EXTENDS Integers, Sequences

CONSTANTS
    Users,
    Reqs,         \* the requests that can be under way at a time
    UserOf,       \* request -> the user that sends it
    Nil,
    login_bonues, \* the bonus of each day in a row, from user_game_config.lua
    MaxDay,       \* bound: days of a behaviour
    Midnight,     \* TRUE: a day may end while requests are under way
    MaxLost       \* bound: results that are lost after their query

ASSUME UserAssumption == UserOf \in [Reqs -> Users] /\ Nil \notin Users
ASSUME BonusAssumption == login_bonues \in Seq(Nat \ {0}) /\ login_bonues # <<>>
ASSUME DayAssumption == MaxDay \in Nat \ {0} /\ Midnight \in BOOLEAN /\ MaxLost \in Nat

VARIABLES
    ugame,     \* user -> number of rows in table ugame
    row,       \* user -> its row in table login_bonues, or Nil
    uid,       \* the global variable recv_login_bonues assigns
    req,       \* request -> the query it waits for
    today,
    granted,   \* user -> how many days were granted
    paid,      \* user -> how many bonuses were added to its chips
    lost       \* results lost so far

vars == <<ugame, row, uid, req, today, granted, paid, lost>>

Rows == [bonues : {0} \cup {login_bonues[i] : i \in DOMAIN login_bonues},
         status : {0, 1}, bonues_time : 1 .. MaxDay, days : 0 .. Len(login_bonues)]

ASSUME NilAssumption == Nil \notin Rows

\* A request waits for a query on the rows of user u.  info is the bonus record
\* its handler holds: to be written, or found by the query.
Reads == {"get_ugame_info", "get_bonues_info", "claim_get_bonues_info"}
Writes == {"insert_ugame_info", "insert_bonues_info", "update_login_bonues",
           "update_login_bonues_status"}
Results == {"none", "err", "ok", "empty"}
Requests ==
    [stage : Reads \cup Writes, u : Users, info : Rows \cup {Nil}, result : Results]
Idle == [stage |-> "idle"]

TypeOK ==
    /\ ugame \in [Users -> Nat]
    /\ row \in [Users -> Rows \cup {Nil}]
    /\ uid \in Users \cup {Nil}
    /\ req \in [Reqs -> Requests \cup {Idle}]
    /\ today \in 1 .. MaxDay
    /\ granted \in [Users -> Nat]
    /\ paid \in [Users -> Nat]
    /\ lost \in 0 .. MaxLost

Init ==
    /\ ugame = [u \in Users |-> 0]
    /\ row = [u \in Users |-> Nil]
    /\ uid = Nil
    /\ req = [q \in Reqs |-> Idle]
    /\ today = 1
    /\ granted = [u \in Users |-> 0]
    /\ paid = [u \in Users |-> 0]
    /\ lost = 0

\* Request q starts a query.
Query(q, stage, u, info) ==
    req' = [req EXCEPT ![q] = [stage |-> stage, u |-> u, info |-> info, result |-> "none"]]

\* Request q is answered.
Answer(q) == req' = [req EXCEPT ![q] = Idle]

------------------------------------------------------------------------------
(* The requests                                                            *)

GetUgameInfoReq(q) ==
    /\ req[q] = Idle
    /\ Query(q, "get_ugame_info", UserOf[q], Nil)
    /\ UNCHANGED <<ugame, row, uid, today, granted, paid, lost>>

\* recv_login_bonues keeps the user in a global variable.
RecvLoginBonuesReq(q) ==
    /\ req[q] = Idle
    /\ uid' = UserOf[q]
    /\ Query(q, "claim_get_bonues_info", UserOf[q], Nil)
    /\ UNCHANGED <<ugame, row, today, granted, paid, lost>>

------------------------------------------------------------------------------
(* The queries                                                             *)

Waiting(q) == req[q] # Idle /\ req[q].result = "none"

\* A worker thread runs a select.  A result set that mysql_store_result cannot
\* fetch is reported as one without rows, not as an error.
ExecuteRead(q) ==
    LET w == req[q]
        found == IF w.stage = "get_ugame_info" THEN ugame[w.u] > 0 ELSE row[w.u] # Nil
    IN
    /\ Waiting(q)
    /\ w.stage \in Reads
    /\ \/ /\ req' = [req EXCEPT ![q].result = "err"]
          /\ UNCHANGED lost
       \/ /\ found
          /\ req' = [req EXCEPT ![q].result = "ok",
                                ![q].info = IF w.stage = "get_ugame_info" THEN Nil
                                            ELSE row[w.u]]
          /\ UNCHANGED lost
       \/ /\ found => lost < MaxLost
          /\ lost' = IF found THEN lost + 1 ELSE lost
          /\ req' = [req EXCEPT ![q].result = "empty"]
    /\ UNCHANGED <<ugame, row, uid, today, granted, paid>>

\* What a write does to the tables.  login_bonues has a unique index on uid, so
\* that a second insert is refused; an update without a row does nothing.
WriteRow(w) ==
    IF w.stage = "insert_bonues_info" THEN w.info
    ELSE IF row[w.u] = Nil \/ w.stage = "insert_ugame_info" THEN row[w.u]
    ELSE IF w.stage = "update_login_bonues" THEN w.info
    ELSE [row[w.u] EXCEPT !.status = 1]

Refused(w) == w.stage = "insert_bonues_info" /\ row[w.u] # Nil

\* A worker thread runs an insert or an update.  An error may be reported
\* although the write took effect (the connection broke afterwards).
ExecuteWrite(q) ==
    LET w == req[q] IN
    /\ Waiting(q)
    /\ w.stage \in Writes
    /\ \/ /\ ~Refused(w)
          /\ row' = [row EXCEPT ![w.u] = WriteRow(w)]
          /\ ugame' = [ugame EXCEPT ![w.u] =
                          IF w.stage = "insert_ugame_info" THEN @ + 1 ELSE @]
          /\ granted' = [granted EXCEPT ![w.u] =
                          IF /\ w.stage = "update_login_bonues"
                             /\ row[w.u].bonues_time # w.info.bonues_time
                          THEN @ + 1 ELSE @]
          /\ \E result \in {"ok", "err"} : req' = [req EXCEPT ![q].result = result]
       \/ /\ req' = [req EXCEPT ![q].result = "err"]
          /\ UNCHANGED <<row, ugame, granted>>
    /\ UNCHANGED <<uid, today, paid, lost>>

------------------------------------------------------------------------------
(* The callbacks                                                           *)

Back(q, stage, result) == req[q] # Idle /\ req[q].stage = stage /\ req[q].result = result

\* Mutant of OnError: the write is tried again.
OnError_Retried(q) ==
    IF req[q].stage \in Writes THEN Query(q, req[q].stage, req[q].u, req[q].info)
    ELSE Answer(q)

\* Every error ends the request with SystemErr.
OnError(q) == Answer(q)

ErrorCallback(q) ==
    /\ req[q] # Idle
    /\ req[q].result = "err"
    /\ OnError(q)
    /\ UNCHANGED <<ugame, row, uid, today, granted, paid, lost>>

\* get_ugame_info: without a row one is inserted and the handler calls itself;
\* with one it goes on to ckeck_login_bonues, unless the user is frozen.
UgameCallback(q) ==
    LET u == req[q].u IN
    /\ \/ /\ Back(q, "get_ugame_info", "empty")
          /\ Query(q, "insert_ugame_info", u, Nil)
       \/ /\ Back(q, "insert_ugame_info", "ok")
          /\ Query(q, "get_ugame_info", u, Nil)
       \/ /\ Back(q, "get_ugame_info", "ok")
          /\ Query(q, "get_bonues_info", u, Nil) \/ Answer(q)
    /\ UNCHANGED <<ugame, row, uid, today, granted, paid, lost>>

\* Mutant of NextDays: a gap does not end the streak.
NextDays_NoGap(info) ==
    IF info.days + 1 > Len(login_bonues) THEN 1 ELSE info.days + 1

\* The days in a row today's grant makes: 1 after a gap and after the last
\* bonus of the list.
NextDays(info) ==
    IF info.bonues_time < today - 1 \/ info.days + 1 > Len(login_bonues) THEN 1
    ELSE info.days + 1

\* The record of a user that had none: nothing to claim today.
FirstRecord == [bonues |-> 0, status |-> 1, bonues_time |-> today, days |-> 0]

\* ckeck_login_bonues and send_bonues_to_user: without a record, insert one
\* that has nothing to claim and call again; grant a bonus when the last one
\* was granted before today.
BonusCallback(q) ==
    LET u == req[q].u
        info == req[q].info
        days == NextDays(info)
    IN
    /\ \/ /\ Back(q, "get_bonues_info", "empty")
          /\ Query(q, "insert_bonues_info", u, FirstRecord)
       \/ /\ Back(q, "insert_bonues_info", "ok")
          /\ Query(q, "get_bonues_info", u, Nil)
       \/ /\ Back(q, "get_bonues_info", "ok")
          /\ IF info.bonues_time < today
             THEN Query(q, "update_login_bonues", u,
                        [bonues |-> login_bonues[days], status |-> 0,
                         bonues_time |-> today, days |-> days])
             ELSE Answer(q)
       \/ /\ Back(q, "update_login_bonues", "ok")
          /\ Answer(q)
    /\ UNCHANGED <<ugame, row, uid, today, granted, paid, lost>>

\* Mutant of Claimable: the status is not looked at.
Claimable_Always(q) == req[q].result = "ok"

Claimable(q) == req[q].result = "ok" /\ req[q].info.status = 0

\* The callbacks of recv_login_bonues use the global uid of their own time.
\* add_chip is not waited for; it may fail.
ClaimCallback(q) ==
    /\ \/ /\ Back(q, "claim_get_bonues_info", req[q].result)
          /\ req[q].result \in {"ok", "empty"}
          /\ IF Claimable(q)
             THEN Query(q, "update_login_bonues_status", uid, req[q].info)
             ELSE Answer(q)
          /\ UNCHANGED paid
       \/ /\ Back(q, "update_login_bonues_status", "ok")
          /\ Answer(q)
          /\ \/ paid' = [paid EXCEPT ![uid] = @ + 1]
             \/ UNCHANGED paid
    /\ UNCHANGED <<ugame, row, uid, today, granted, lost>>

\* The day ends.
NextDay ==
    /\ today < MaxDay
    /\ Midnight \/ \A q \in Reqs : req[q] = Idle
    /\ today' = today + 1
    /\ UNCHANGED <<ugame, row, uid, req, granted, paid, lost>>

------------------------------------------------------------------------------
Callback(q) == ErrorCallback(q) \/ UgameCallback(q) \/ BonusCallback(q) \/ ClaimCallback(q)

Next ==
    \/ \E q \in Reqs : \/ GetUgameInfoReq(q) \/ RecvLoginBonuesReq(q)
                       \/ ExecuteRead(q) \/ ExecuteWrite(q)
                       \/ ErrorCallback(q) \/ UgameCallback(q)
                       \/ BonusCallback(q) \/ ClaimCallback(q)
    \/ NextDay

Spec == Init /\ [][Next]_vars

\* Every query runs and every callback is called.
Fairness == \A q \in Reqs : WF_vars(ExecuteRead(q) \/ ExecuteWrite(q) \/ Callback(q))

FairSpec == Spec /\ Fairness

------------------------------------------------------------------------------
(* What the system server keeps right                                      *)

\* However many requests of a user overlap, the streak counts a day once: a new
\* grant continues the streak of the record it replaces, starts again after a
\* gap or after the last bonus, and its bonus is the one of that day.
StreakCounts ==
    [][\A u \in Users :
          LET old == row[u]
              new == row'[u]
          IN old # Nil /\ new # old =>
             IF new.bonues_time = old.bonues_time
             THEN new.days = old.days /\ new.bonues = old.bonues
             ELSE /\ new.bonues_time > old.bonues_time
                  /\ new.days = IF /\ new.bonues_time = old.bonues_time + 1
                                   /\ old.days < Len(login_bonues)
                                THEN old.days + 1 ELSE 1
                  /\ new.bonues = login_bonues[new.days]]_vars

\* However the requests of a user overlap, and whatever writes fail or are
\* reported as failed, a user without any grant is paid nothing.  (It may be paid
\* twice for one grant: PaidPerGrant.)
PaidAfterGrant == \A u \in Users : paid[u] > 0 => granted[u] > 0

\* Every request ends with an answer, with whatever errors the database reports.
RequestEnds == \A q \in Reqs : req[q] # Idle ~> req[q] = Idle

(* What the code's comments say, and the code does not do                  *)

\* login_bonues.lua:11, the bonus can be had once a day: no user is paid more
\* often than it was granted a bonus.
PaidPerGrant == \A u \in Users : paid[u] <= granted[u]
=============================================================================
