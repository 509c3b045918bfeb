-------------------------- MODULE LoginBonusProofs --------------------------
(***************************************************************************)
(* Proofs about LoginBonus, for every number of users, overlapping         *)
(* requests, days and bonuses.                                             *)
(***************************************************************************)
EXTENDS LoginBonus, SequenceTheorems, TLAPS

(* The inductive invariant                                                 *)

Finds(w) == w.stage \in {"get_bonues_info", "claim_get_bonues_info"} /\ w.result = "ok"
Claims(w) == w.stage \in {"claim_get_bonues_info", "update_login_bonues_status"}

\* What a request under way holds: the record it found is one, and so is the
\* one it writes; a record that was found stays; a claim has set the global uid.
Held(w) ==
    /\ Finds(w) \/ w.stage = "update_login_bonues" => w.info \in Rows /\ row[w.u] # Nil
    /\ w.stage = "insert_bonues_info" => w.info \in Rows /\ w.info.status = 1
    /\ Claims(w) => uid \in Users

\* A record that was found is still the row, and the one to be written is of a
\* later day than the row, unless a bonus was granted meanwhile.
Earned(w) ==
    /\ Finds(w) => granted[w.u] > 0 \/ row[w.u] = w.info
    /\ w.stage = "update_login_bonues" =>
          granted[w.u] > 0 \/ row[w.u].bonues_time < w.info.bonues_time

\* There is one user, so that the global uid is its uid.
OneUser == \A u, v \in Users : u = v

\* No bonus was granted yet, to any user.
NoGrant == \A u \in Users : granted[u] = 0

\* A claim is written, and a bonus paid, after a grant; not always after one of
\* the user the global uid names by then.
PaymentsKnown ==
    /\ \A q \in Reqs :
          req[q] # Idle /\ req[q].stage = "update_login_bonues_status" => ~NoGrant
    /\ \A u \in Users : paid[u] > 0 => ~NoGrant

\* new is what a grant of today makes of the record old.
Continues(new, old) ==
    /\ new.bonues_time = today
    /\ new.days = NextDays(old)
    /\ new.bonues = login_bonues[new.days]

\* old and new differ in the status at most.
SameDay(new, old) ==
    /\ new.bonues_time = old.bonues_time
    /\ new.days = old.days
    /\ new.bonues = old.bonues

\* The days end between requests: so the record that a request found is the row,
\* or the row is what today's grant made of it; and what is to be written
\* continues the row or is the row.
InStreak(w) ==
    /\ w.stage = "insert_bonues_info" => w.info.bonues_time = today
    /\ Finds(w) => \/ SameDay(row[w.u], w.info)
                   \/ w.info.bonues_time < today /\ Continues(row[w.u], w.info)
    /\ w.stage = "update_login_bonues" =>
          \/ SameDay(row[w.u], w.info) /\ w.info.bonues_time = today
          \/ row[w.u].bonues_time < today /\ Continues(w.info, row[w.u])

HeldRecords == \A q \in Reqs : req[q] # Idle => Held(req[q])

\* A record with a bonus to claim comes from a grant.
GrantsKnown ==
    /\ \A u \in Users : row[u] # Nil /\ row[u].status = 0 => granted[u] > 0
    /\ \A q \in Reqs : req[q] # Idle => Earned(req[q])

StreakKnown ==
    /\ \A u \in Users : row[u] # Nil => row[u].bonues_time <= today
    /\ \A q \in Reqs : req[q] # Idle => InStreak(req[q])

IInv ==
    /\ TypeOK
    /\ HeldRecords
    /\ GrantsKnown
    /\ PaymentsKnown
    /\ Midnight = FALSE => StreakKnown

------------------------------------------------------------------------------
(* Records and requests                                                    *)

\* The fields of a record.
LEMMA RowIs ==
    ASSUME NEW r \in Rows
    PROVE  /\ r.bonues \in {0} \cup {login_bonues[i] : i \in DOMAIN login_bonues}
           /\ r.status \in {0, 1}
           /\ r.bonues_time \in 1 .. MaxDay
           /\ r.days \in 0 .. Len(login_bonues)
           /\ r = [bonues |-> r.bonues, status |-> r.status,
                   bonues_time |-> r.bonues_time, days |-> r.days]
BY DEF Rows

\* The next day of a streak is a day of the list.
LEMMA NextDaysIn ==
    ASSUME TypeOK, NEW r \in Rows
    PROVE  NextDays(r) \in 1 .. Len(login_bonues)
<1>1. Len(login_bonues) \in Nat \ {0}
  BY BonusAssumption, EmptySeq
<1>2. r.days \in 0 .. Len(login_bonues)
  BY RowIs
<1> DEFINE late == r.bonues_time < today - 1
           full == r.days + 1 > Len(login_bonues)
<1>3. NextDays(r) = 1 \/ (~(r.days + 1 > Len(login_bonues)) /\ NextDays(r) = r.days + 1)
  <2>1. NextDays(r) = IF late \/ full THEN 1 ELSE r.days + 1
    BY Zenon DEF NextDays
  <2> HIDE DEF late, full
  <2>2. CASE late \/ full
    BY <2>1, <2>2, Zenon
  <2>3. CASE ~(late \/ full)
    BY <2>1, <2>3, Zenon DEF full
  <2> QED
    BY <2>2, <2>3
<1> QED
  BY <1>1, <1>2, <1>3

\* The record of a grant, and the first record of a user, are records.
LEMMA NewRecords ==
    ASSUME TypeOK
    PROVE  /\ FirstRecord \in Rows
           /\ \A r \in Rows : [bonues |-> login_bonues[NextDays(r)], status |-> 0,
                               bonues_time |-> today, days |-> NextDays(r)] \in Rows
<1>1. today \in 1 .. MaxDay
  BY DEF TypeOK
<1>2. Len(login_bonues) \in Nat /\ DOMAIN login_bonues = 1 .. Len(login_bonues)
  BY BonusAssumption
<1>3. FirstRecord \in Rows
  BY <1>1, <1>2 DEF FirstRecord, Rows
<1>4. ASSUME NEW r \in Rows
      PROVE  [bonues |-> login_bonues[NextDays(r)], status |-> 0,
              bonues_time |-> today, days |-> NextDays(r)] \in Rows
  <2>1. NextDays(r) \in 1 .. Len(login_bonues)
    BY NextDaysIn
  <2>2. NextDays(r) \in 0 .. Len(login_bonues) /\ NextDays(r) \in DOMAIN login_bonues
    BY <1>2, <2>1
  <2> QED
    BY <1>1, <2>2 DEF Rows
<1> QED
  BY <1>3, <1>4

Stages == Reads \cup Writes

\* A request under way has a stage, a user, a record or none, and a result.
LEMMA RequestIs ==
    ASSUME TypeOK, NEW q \in Reqs, req[q] # Idle
    PROVE  /\ req[q] \in Requests
           /\ req[q].stage \in Stages /\ req[q].u \in Users
           /\ req[q].info \in Rows \cup {Nil} /\ req[q].result \in Results
BY DEF TypeOK, Requests, Stages

\* A new query is a request that waits for its result.
LEMMA QueryIs ==
    ASSUME TypeOK, NEW q \in Reqs, NEW stage \in Stages, NEW u \in Users,
           NEW info \in Rows \cup {Nil}, Query(q, stage, u, info)
    PROVE  /\ req'[q] \in Requests
           /\ req'[q].stage = stage /\ req'[q].u = u /\ req'[q].info = info
           /\ req'[q].result = "none"
           /\ \A p \in Reqs : p # q => req'[p] = req[p]
           /\ req' \in [Reqs -> Requests \cup {Idle}]
<1>1. req' = [req EXCEPT ![q] = [stage |-> stage, u |-> u, info |-> info, result |-> "none"]]
  BY DEF Query
<1>2. req \in [Reqs -> Requests \cup {Idle}]
  BY DEF TypeOK, Requests, Stages
<1>3. [stage |-> stage, u |-> u, info |-> info, result |-> "none"] \in Requests
  BY DEF Requests, Results, Stages
<1> QED
  BY <1>1, <1>2, <1>3

\* An answered request is gone, the others stay.
LEMMA AnswerIs ==
    ASSUME TypeOK, NEW q \in Reqs, Answer(q)
    PROVE  /\ req'[q] = Idle
           /\ \A p \in Reqs : p # q => req'[p] = req[p]
           /\ req' \in [Reqs -> Requests \cup {Idle}]
<1>1. req' = [req EXCEPT ![q] = Idle] /\ req \in [Reqs -> Requests \cup {Idle}]
  BY DEF Answer, TypeOK
<1> QED
  BY <1>1

------------------------------------------------------------------------------
(* What the steps do                                                       *)

Others(q) == \A p \in Reqs : p # q => req'[p] = req[p]

Asks(q, stage, u, info) ==
    /\ req'[q].stage = stage /\ req'[q].u = u /\ req'[q].info = info
    /\ req'[q].result = "none"

\* Every callback answers the request or asks for its next query.
CallbackEffect(q) ==
    LET w == req[q] IN
    \/ req'[q] = Idle
    \/ w.stage = "get_ugame_info" /\ Asks(q, "insert_ugame_info", w.u, Nil)
    \/ w.stage = "insert_ugame_info" /\ Asks(q, "get_ugame_info", w.u, Nil)
    \/ w.stage = "get_ugame_info" /\ Asks(q, "get_bonues_info", w.u, Nil)
    \/ w.stage = "get_bonues_info" /\ Asks(q, "insert_bonues_info", w.u, FirstRecord)
    \/ w.stage = "insert_bonues_info" /\ Asks(q, "get_bonues_info", w.u, Nil)
    \/ /\ Finds(w) /\ w.info \in Rows /\ w.info.bonues_time < today
       /\ Asks(q, "update_login_bonues", w.u,
               [bonues |-> login_bonues[NextDays(w.info)], status |-> 0,
                bonues_time |-> today, days |-> NextDays(w.info)])
    \/ /\ Finds(w) /\ w.info \in Rows /\ w.info.status = 0 /\ uid \in Users
       /\ Asks(q, "update_login_bonues_status", uid, w.info)

\* A query is asked for a user, about a record or nothing.
LEMMA AskTyped ==
    ASSUME TypeOK, NEW q \in Reqs, NEW stage \in Stages, NEW u \in Users,
           NEW info \in Rows \cup {Nil}, Query(q, stage, u, info)
    PROVE  Asks(q, stage, u, info) /\ Others(q) /\ req' \in [Reqs -> Requests \cup {Idle}]
BY QueryIs DEF Asks, Others

LEMMA CallbackDoes ==
    ASSUME TypeOK, HeldRecords, NEW q \in Reqs, Callback(q)
    PROVE  /\ CallbackEffect(q) /\ Others(q)
           /\ req' \in [Reqs -> Requests \cup {Idle}]
           /\ UNCHANGED <<ugame, row, uid, today, granted, lost>>
<1>1. ASSUME Answer(q)
      PROVE  CallbackEffect(q) /\ Others(q) /\ req' \in [Reqs -> Requests \cup {Idle}]
  BY <1>1, AnswerIs DEF CallbackEffect, Others
<1>2. req[q] # Idle
  BY DEF Callback, ErrorCallback, UgameCallback, BonusCallback, ClaimCallback, Back
<1>3. /\ req[q] \in Requests /\ req[q].u \in Users
      /\ req[q].info \in Rows \cup {Nil}
  BY <1>2, RequestIs
<1>4. CASE ErrorCallback(q)
  BY <1>1, <1>4 DEF ErrorCallback, OnError
<1>5. CASE UgameCallback(q)
  <2>1. CASE Answer(q)
    BY <1>1, <1>5, <2>1 DEF UgameCallback
  <2>2. CASE Back(q, "get_ugame_info", "empty") /\ Query(q, "insert_ugame_info", req[q].u, Nil)
    <3>1. Asks(q, "insert_ugame_info", req[q].u, Nil) /\ Others(q)
          /\ req' \in [Reqs -> Requests \cup {Idle}]
      BY <1>3, <2>2, AskTyped DEF Stages, Writes
    <3> QED
      BY <1>5, <2>2, <3>1 DEF UgameCallback, CallbackEffect, Back
  <2>3. CASE Back(q, "insert_ugame_info", "ok") /\ Query(q, "get_ugame_info", req[q].u, Nil)
    <3>1. Asks(q, "get_ugame_info", req[q].u, Nil) /\ Others(q)
          /\ req' \in [Reqs -> Requests \cup {Idle}]
      BY <1>3, <2>3, AskTyped DEF Stages, Reads
    <3> QED
      BY <1>5, <2>3, <3>1 DEF UgameCallback, CallbackEffect, Back
  <2>4. CASE Back(q, "get_ugame_info", "ok") /\ Query(q, "get_bonues_info", req[q].u, Nil)
    <3>1. Asks(q, "get_bonues_info", req[q].u, Nil) /\ Others(q)
          /\ req' \in [Reqs -> Requests \cup {Idle}]
      BY <1>3, <2>4, AskTyped DEF Stages, Reads
    <3> QED
      BY <1>5, <2>4, <3>1 DEF UgameCallback, CallbackEffect, Back
  <2> QED
    BY <1>5, <2>1, <2>2, <2>3, <2>4 DEF UgameCallback
<1>6. CASE BonusCallback(q)
  <2>1. CASE Answer(q)
    BY <1>1, <1>6, <2>1 DEF BonusCallback
  <2>2. CASE Back(q, "get_bonues_info", "empty")
             /\ Query(q, "insert_bonues_info", req[q].u, FirstRecord)
    <3>1. Asks(q, "insert_bonues_info", req[q].u, FirstRecord) /\ Others(q)
          /\ req' \in [Reqs -> Requests \cup {Idle}]
      BY <1>3, <2>2, AskTyped, NewRecords DEF Stages, Writes
    <3> QED
      BY <1>6, <2>2, <3>1 DEF BonusCallback, CallbackEffect, Back
  <2>3. CASE Back(q, "insert_bonues_info", "ok") /\ Query(q, "get_bonues_info", req[q].u, Nil)
    <3>1. Asks(q, "get_bonues_info", req[q].u, Nil) /\ Others(q)
          /\ req' \in [Reqs -> Requests \cup {Idle}]
      BY <1>3, <2>3, AskTyped DEF Stages, Reads
    <3> QED
      BY <1>6, <2>3, <3>1 DEF BonusCallback, CallbackEffect, Back
  <2>4. CASE /\ Back(q, "get_bonues_info", "ok") /\ req[q].info.bonues_time < today
             /\ Query(q, "update_login_bonues", req[q].u,
                      [bonues |-> login_bonues[NextDays(req[q].info)], status |-> 0,
                       bonues_time |-> today, days |-> NextDays(req[q].info)])
    <3>1. Finds(req[q]) /\ req[q].info \in Rows
      BY <1>2, <2>4 DEF Back, Finds, HeldRecords, Held
    <3> DEFINE new == [bonues |-> login_bonues[NextDays(req[q].info)], status |-> 0,
                       bonues_time |-> today, days |-> NextDays(req[q].info)]
    <3>2. new \in Rows
      BY <3>1, NewRecords
    <3> HIDE DEF new
    <3>3. Query(q, "update_login_bonues", req[q].u, new)
      BY <2>4 DEF new
    <3>4. Asks(q, "update_login_bonues", req[q].u, new) /\ Others(q)
          /\ req' \in [Reqs -> Requests \cup {Idle}]
      BY <1>3, <3>2, <3>3, AskTyped DEF Stages, Writes
    <3> QED
      BY <1>6, <2>4, <3>1, <3>4 DEF BonusCallback, CallbackEffect, new
  <2> QED
    BY <1>6, <2>1, <2>2, <2>3, <2>4 DEF BonusCallback
<1>7. CASE ClaimCallback(q)
  <2>1. CASE Answer(q)
    BY <1>1, <1>7, <2>1 DEF ClaimCallback
  <2>2. CASE /\ Back(q, "claim_get_bonues_info", req[q].result) /\ Claimable(q)
             /\ Query(q, "update_login_bonues_status", uid, req[q].info)
    <3>1. Finds(req[q]) /\ Claims(req[q]) /\ req[q].info.status = 0
      BY <2>2 DEF Back, Claimable, Finds, Claims
    <3>2. req[q].info \in Rows /\ uid \in Users
      BY <1>2, <3>1 DEF HeldRecords, Held
    <3>3. Asks(q, "update_login_bonues_status", uid, req[q].info) /\ Others(q)
          /\ req' \in [Reqs -> Requests \cup {Idle}]
      BY <2>2, <3>2, AskTyped DEF Stages, Writes
    <3> QED
      BY <1>7, <3>1, <3>2, <3>3 DEF ClaimCallback, CallbackEffect
  <2> QED
    BY <1>7, <2>1, <2>2 DEF ClaimCallback
<1> QED
  BY <1>4, <1>5, <1>6, <1>7 DEF Callback

\* A select finds the row of its user, or nothing.
LEMMA ReadDoes ==
    ASSUME TypeOK, NEW q \in Reqs, ExecuteRead(q)
    PROVE  LET w == req[q]
               v == req'[q]
           IN
           /\ w # Idle /\ v \in Requests /\ Others(q)
           /\ w.stage \in Reads /\ v.stage = w.stage /\ v.u = w.u /\ w.u \in Users
           /\ Finds(v) => row[w.u] # Nil /\ v.info = row[w.u]
           /\ req' \in [Reqs -> Requests \cup {Idle}]
           /\ UNCHANGED <<ugame, row, uid, today, granted, paid>>
           /\ lost' \in 0 .. MaxLost
<1> DEFINE w == req[q]
           v == req'[q]
<1>1. /\ w # Idle /\ w.stage \in Reads
      /\ UNCHANGED <<ugame, row, uid, today, granted, paid>>
  BY DEF ExecuteRead, Waiting
<1>2. w \in Requests /\ w.u \in Users /\ w.info \in Rows \cup {Nil}
  BY <1>1, RequestIs
<1>3. req \in [Reqs -> Requests \cup {Idle}] /\ row[w.u] \in Rows \cup {Nil}
  BY <1>2 DEF TypeOK
<1>4. CASE req' = [req EXCEPT ![q].result = "err"] /\ lost' = lost
  <2>1. v = [w EXCEPT !.result = "err"] /\ Others(q)
    BY <1>3, <1>4 DEF Others
  <2>2. v \in Requests /\ v.stage = w.stage /\ v.u = w.u /\ v.result = "err"
    BY <1>2, <2>1 DEF Requests, Results
  <2>3. req' \in [Reqs -> Requests \cup {Idle}]
    BY <1>3, <1>4, <2>1, <2>2
  <2> QED
    BY <1>1, <1>2, <1>4, <2>1, <2>2, <2>3 DEF Finds, TypeOK
<1>5. ASSUME NEW info \in Rows \cup {Nil}, lost' = lost,
             w.stage # "get_ugame_info" => row[w.u] # Nil /\ info = row[w.u],
             req' = [req EXCEPT ![q].result = "ok", ![q].info = info]
      PROVE  /\ v \in Requests /\ Others(q) /\ v.stage = w.stage /\ v.u = w.u
             /\ Finds(v) => row[w.u] # Nil /\ v.info = row[w.u]
             /\ req' \in [Reqs -> Requests \cup {Idle}]
             /\ lost' \in 0 .. MaxLost
  <2>1. v = [w EXCEPT !.result = "ok", !.info = info] /\ Others(q)
    BY <1>3, <1>5 DEF Others
  <2>2. v \in Requests /\ v.stage = w.stage /\ v.u = w.u /\ v.info = info
    BY <1>2, <2>1 DEF Requests, Results
  <2>3. req' \in [Reqs -> Requests \cup {Idle}]
    BY <1>3, <1>5, <2>1, <2>2
  <2> QED
    BY <1>5, <2>1, <2>2, <2>3 DEF Finds, TypeOK
<1>6. CASE /\ req' = [req EXCEPT ![q].result = "empty"]
           /\ lost' \in 0 .. MaxLost
  <2>1. v = [w EXCEPT !.result = "empty"] /\ Others(q)
    BY <1>3, <1>6 DEF Others
  <2>2. v \in Requests /\ v.stage = w.stage /\ v.u = w.u /\ v.result = "empty"
    BY <1>2, <2>1 DEF Requests, Results
  <2>3. req' \in [Reqs -> Requests \cup {Idle}]
    BY <1>3, <1>6, <2>1, <2>2
  <2> QED
    BY <1>1, <1>2, <1>6, <2>1, <2>2, <2>3 DEF Finds
<1> DEFINE found == IF w.stage = "get_ugame_info" THEN ugame[w.u] > 0 ELSE row[w.u] # Nil
           info == IF w.stage = "get_ugame_info" THEN Nil ELSE row[w.u]
<1>7. \/ req' = [req EXCEPT ![q].result = "err"] /\ lost' = lost
      \/ /\ found /\ lost' = lost
         /\ req' = [req EXCEPT ![q].result = "ok", ![q].info = info]
      \/ /\ req' = [req EXCEPT ![q].result = "empty"]
         /\ found => lost < MaxLost
         /\ lost' = IF found THEN lost + 1 ELSE lost
  BY DEF ExecuteRead
<1>8. lost \in 0 .. MaxLost
  BY DEF TypeOK
<1>9. ASSUME found => lost < MaxLost, lost' = IF found THEN lost + 1 ELSE lost
      PROVE  lost' \in 0 .. MaxLost
  <2>1. lost' = lost \/ (lost < MaxLost /\ lost' = lost + 1)
    BY <1>9, Zenon
  <2> QED
    BY <1>8, <2>1, DayAssumption
<1>10. CASE /\ found /\ lost' = lost
            /\ req' = [req EXCEPT ![q].result = "ok", ![q].info = info]
  <2>1. info \in Rows \cup {Nil}
    BY <1>3
  <2>2. w.stage # "get_ugame_info" => row[w.u] # Nil /\ info = row[w.u]
    BY <1>10
  <2> QED
    BY <1>1, <1>2, <1>5, <1>10, <2>1, <2>2
<1> QED
  BY <1>4, <1>6, <1>7, <1>9, <1>10

\* What a write does to the row of its user and to the grants of it.
Written(q) ==
    LET w == req[q] IN
    \/ row' = row /\ granted' = granted
    \/ /\ w.stage = "insert_bonues_info"
       /\ row[w.u] = Nil /\ row' = [row EXCEPT ![w.u] = w.info] /\ granted' = granted
    \/ /\ w.stage = "update_login_bonues" /\ row[w.u] # Nil
       /\ row' = [row EXCEPT ![w.u] = w.info]
       /\ \/ row[w.u].bonues_time = w.info.bonues_time /\ granted' = granted
          \/ /\ row[w.u].bonues_time # w.info.bonues_time
             /\ granted' = [granted EXCEPT ![w.u] = @ + 1]
    \/ /\ w.stage = "update_login_bonues_status" /\ row[w.u] # Nil
       /\ row' = [row EXCEPT ![w.u] = [row[w.u] EXCEPT !.status = 1]] /\ granted' = granted

LEMMA WriteDoes ==
    ASSUME TypeOK, HeldRecords, NEW q \in Reqs, ExecuteWrite(q)
    PROVE  LET w == req[q]
               v == req'[q]
           IN
           /\ w # Idle /\ v \in Requests /\ Others(q)
           /\ w.stage \in Writes /\ v.stage = w.stage /\ v.u = w.u /\ v.info = w.info
           /\ w.u \in Users
           /\ req' \in [Reqs -> Requests \cup {Idle}]
           /\ UNCHANGED <<uid, today, paid, lost>>
           /\ ugame' \in [Users -> Nat]
           /\ Written(q)
<1> DEFINE w == req[q]
           v == req'[q]
<1>1. /\ w # Idle /\ w.stage \in Writes
      /\ UNCHANGED <<uid, today, paid, lost>>
  BY DEF ExecuteWrite, Waiting
<1>2. w \in Requests /\ w.u \in Users
  BY <1>1, RequestIs
<1>3. req \in [Reqs -> Requests \cup {Idle}]
  BY DEF TypeOK
<1>4. PICK result \in {"ok", "err"} : req' = [req EXCEPT ![q].result = result]
  BY DEF ExecuteWrite
<1>5. v = [w EXCEPT !.result = result] /\ Others(q)
  BY <1>3, <1>4 DEF Others
<1>6. v \in Requests /\ v.stage = w.stage /\ v.u = w.u /\ v.info = w.info
  BY <1>2, <1>5 DEF Requests, Results
<1>7. req' \in [Reqs -> Requests \cup {Idle}]
  BY <1>3, <1>4, <1>5, <1>6
<1>8. CASE UNCHANGED <<row, ugame, granted>>
  BY <1>1, <1>2, <1>5, <1>6, <1>7, <1>8 DEF Written, TypeOK
<1>9. CASE /\ ~Refused(w)
           /\ row' = [row EXCEPT ![w.u] = WriteRow(w)]
           /\ ugame' = [ugame EXCEPT ![w.u] =
                           IF w.stage = "insert_ugame_info" THEN @ + 1 ELSE @]
           /\ granted' = [granted EXCEPT ![w.u] =
                           IF /\ w.stage = "update_login_bonues"
                              /\ row[w.u].bonues_time # w.info.bonues_time
                           THEN @ + 1 ELSE @]
  <2>1. ugame' \in [Users -> Nat]
    BY <1>2, <1>9 DEF TypeOK
  <2>2. row \in [Users -> Rows \cup {Nil}] /\ granted \in [Users -> Nat]
    BY DEF TypeOK
  <2>3. WriteRow(w) = row[w.u] => row' = row
    BY <1>2, <1>9, <2>2
  <2>4. w.stage # "update_login_bonues" => granted' = granted
    BY <1>2, <1>9, <2>2
  <2>5. CASE w.stage = "insert_ugame_info"
    <3>1. WriteRow(w) = row[w.u]
      BY <2>5 DEF WriteRow
    <3> QED
      BY <2>3, <2>4, <2>5, <3>1, <1>1, <1>2, <1>5, <1>6, <1>7, <2>1 DEF Written
  <2>6. CASE w.stage = "insert_bonues_info"
    <3>1. WriteRow(w) = w.info /\ row[w.u] = Nil
      BY <1>9, <2>6 DEF WriteRow, Refused
    <3> QED
      BY <1>9, <2>4, <2>6, <3>1, <1>1, <1>2, <1>5, <1>6, <1>7, <2>1 DEF Written
  <2>7. CASE w.stage = "update_login_bonues"
    <3>1. row[w.u] # Nil
      BY <1>1, <2>7 DEF HeldRecords, Held
    <3>2. WriteRow(w) = w.info
      BY <2>7, <3>1 DEF WriteRow
    <3>3. row' = [row EXCEPT ![w.u] = w.info]
      BY <1>9, <3>2
    <3>4. \/ row[w.u].bonues_time = w.info.bonues_time /\ granted' = granted
          \/ /\ row[w.u].bonues_time # w.info.bonues_time
             /\ granted' = [granted EXCEPT ![w.u] = @ + 1]
      BY <1>2, <1>9, <2>2, <2>7
    <3> QED
      BY <2>7, <3>1, <3>3, <3>4, <1>1, <1>2, <1>5, <1>6, <1>7, <2>1 DEF Written
  <2>8. CASE w.stage = "update_login_bonues_status"
    <3>1. CASE row[w.u] = Nil
      <4>1. WriteRow(w) = row[w.u]
        BY <2>8, <3>1 DEF WriteRow
      <4> QED
        BY <2>3, <2>4, <2>8, <4>1, <1>1, <1>2, <1>5, <1>6, <1>7, <2>1 DEF Written
    <3>2. CASE row[w.u] # Nil
      <4>1. WriteRow(w) = [row[w.u] EXCEPT !.status = 1]
        BY <2>8, <3>2 DEF WriteRow
      <4> QED
        BY <1>9, <2>4, <2>8, <3>2, <4>1, <1>1, <1>2, <1>5, <1>6, <1>7, <2>1 DEF Written
    <3> QED
      BY <3>1, <3>2
  <2> QED
    BY <1>1, <2>5, <2>6, <2>7, <2>8 DEF Writes
<1> QED
  BY <1>8, <1>9 DEF ExecuteWrite

\* A row that a write leaves is a record, and a row is never removed.
LEMMA RowsStay ==
    ASSUME TypeOK, HeldRecords, NEW q \in Reqs, req[q] # Idle, Written(q)
    PROVE  /\ row' \in [Users -> Rows \cup {Nil}]
           /\ \A u \in Users : row[u] # Nil => row'[u] # Nil
           /\ granted' \in [Users -> Nat]
           /\ \A u \in Users : granted[u] > 0 => granted'[u] > 0
<1>1. req[q].u \in Users
  BY RequestIs
<1>2. row \in [Users -> Rows \cup {Nil}] /\ granted \in [Users -> Nat]
  BY DEF TypeOK
<1>3. req[q].stage \in {"insert_bonues_info", "update_login_bonues"} => req[q].info \in Rows
  BY DEF HeldRecords, Held
<1>4. ASSUME NEW r \in Rows, row' = [row EXCEPT ![req[q].u] = r]
      PROVE  /\ row' \in [Users -> Rows \cup {Nil}]
             /\ \A u \in Users : row[u] # Nil => row'[u] # Nil
  BY <1>1, <1>2, <1>4, NilAssumption
<1>5. row[req[q].u] # Nil => [row[req[q].u] EXCEPT !.status = 1] \in Rows
  <2>1. row[req[q].u] # Nil => row[req[q].u] \in Rows
    BY <1>1, <1>2
  <2>2. \A r \in Rows : [r EXCEPT !.status = 1] \in Rows
    BY DEF Rows
  <2> QED
    BY <2>1, <2>2
<1>6. /\ row' \in [Users -> Rows \cup {Nil}]
      /\ \A u \in Users : row[u] # Nil => row'[u] # Nil
  <2>1. CASE row' = row
    BY <1>2, <2>1
  <2>2. CASE row' # row
    BY <1>3, <1>4, <1>5, <2>2 DEF Written
  <2> QED
    BY <2>1, <2>2
<1>7. granted' = granted \/ granted' = [granted EXCEPT ![req[q].u] = @ + 1]
  BY DEF Written
<1> QED
  BY <1>1, <1>2, <1>6, <1>7

\* A request begins with a select about its own user; a claim sets the uid.
LEMMA BeginDoes ==
    ASSUME TypeOK, NEW q \in Reqs, GetUgameInfoReq(q) \/ RecvLoginBonuesReq(q)
    PROVE  /\ \/ Asks(q, "get_ugame_info", UserOf[q], Nil) /\ uid' = uid
              \/ Asks(q, "claim_get_bonues_info", UserOf[q], Nil) /\ uid' = UserOf[q]
           /\ uid' = uid \/ uid' \in Users
           /\ Others(q) /\ req' \in [Reqs -> Requests \cup {Idle}]
           /\ UNCHANGED <<ugame, row, today, granted, paid, lost>>
<1>1. UserOf[q] \in Users
  BY UserAssumption
<1>2. CASE GetUgameInfoReq(q)
  <2>1. /\ Asks(q, "get_ugame_info", UserOf[q], Nil) /\ Others(q)
        /\ req' \in [Reqs -> Requests \cup {Idle}]
    BY <1>1, <1>2, AskTyped DEF GetUgameInfoReq, Stages, Reads
  <2> QED
    BY <1>2, <2>1 DEF GetUgameInfoReq
<1>3. CASE RecvLoginBonuesReq(q)
  <2>1. /\ Asks(q, "claim_get_bonues_info", UserOf[q], Nil) /\ Others(q)
        /\ req' \in [Reqs -> Requests \cup {Idle}]
    BY <1>1, <1>3, AskTyped DEF RecvLoginBonuesReq, Stages, Reads
  <2> QED
    BY <1>1, <1>3, <2>1 DEF RecvLoginBonuesReq
<1> QED
  BY <1>2, <1>3

\* The steps by what they do.
LEMMA Steps ==
    ASSUME [Next]_vars
    PROVE  \/ \E q \in Reqs : GetUgameInfoReq(q) \/ RecvLoginBonuesReq(q)
           \/ \E q \in Reqs : ExecuteRead(q)
           \/ \E q \in Reqs : ExecuteWrite(q)
           \/ \E q \in Reqs : Callback(q)
           \/ NextDay
           \/ UNCHANGED vars
BY Zenon DEF Next, Callback

------------------------------------------------------------------------------
(* Every step keeps the invariant                                          *)

LEMMA TypeStep ==
    ASSUME TypeOK, HeldRecords, [Next]_vars
    PROVE  TypeOK'
<1>1. ASSUME NEW q \in Reqs, GetUgameInfoReq(q) \/ RecvLoginBonuesReq(q) PROVE TypeOK'
  BY <1>1, BeginDoes DEF TypeOK
<1>2. ASSUME NEW q \in Reqs, ExecuteRead(q) PROVE TypeOK'
  BY <1>2, ReadDoes DEF TypeOK
<1>3. ASSUME NEW q \in Reqs, ExecuteWrite(q) PROVE TypeOK'
  <2>1. /\ req[q] # Idle /\ Written(q) /\ ugame' \in [Users -> Nat]
        /\ req' \in [Reqs -> Requests \cup {Idle}]
        /\ UNCHANGED <<uid, today, paid, lost>>
    BY <1>3, WriteDoes
  <2>2. row' \in [Users -> Rows \cup {Nil}] /\ granted' \in [Users -> Nat]
    BY <2>1, RowsStay
  <2> QED
    BY <2>1, <2>2 DEF TypeOK
<1>4. ASSUME NEW q \in Reqs, Callback(q) PROVE TypeOK'
  <2>1. /\ req' \in [Reqs -> Requests \cup {Idle}]
        /\ UNCHANGED <<ugame, row, uid, today, granted, lost>>
    BY <1>4, CallbackDoes
  <2>2. paid' = paid \/ paid' = [paid EXCEPT ![uid] = @ + 1]
    BY <1>4 DEF Callback, ErrorCallback, UgameCallback, BonusCallback, ClaimCallback
  <2>3. paid' \in [Users -> Nat]
    BY <2>2 DEF TypeOK
  <2> QED
    BY <2>1, <2>3 DEF TypeOK
<1>5. CASE NextDay
  <2>1. today' \in 1 .. MaxDay
    BY <1>5, DayAssumption DEF NextDay, TypeOK
  <2> QED
    BY <1>5, <2>1 DEF NextDay, TypeOK
<1>6. CASE UNCHANGED vars
  BY <1>6 DEF vars, TypeOK
<1> QED
  BY <1>1, <1>2, <1>3, <1>4, <1>5, <1>6, Steps

LEMMA HeldStep ==
    ASSUME TypeOK, HeldRecords, [Next]_vars
    PROVE  HeldRecords'
<1>1. ASSUME NEW q \in Reqs, Others(q), uid \in Users => uid' \in Users,
             \A u \in Users : row[u] # Nil => row'[u] # Nil,
             req'[q] # Idle => Held(req[q])'
      PROVE  HeldRecords'
  <2>1. ASSUME NEW p \in Reqs, p # q, req'[p] # Idle PROVE Held(req[p])'
    <3>1. req'[p] = req[p] /\ Held(req[p]) /\ req[p].u \in Users
      BY <1>1, <2>1, RequestIs DEF Others, HeldRecords
    <3> QED
      BY <1>1, <3>1 DEF Held, Finds, Claims
  <2> QED
    BY <1>1, <2>1 DEF HeldRecords
<1>2. ASSUME NEW q \in Reqs, GetUgameInfoReq(q) \/ RecvLoginBonuesReq(q) PROVE HeldRecords'
  <2>1. /\ \/ Asks(q, "get_ugame_info", UserOf[q], Nil) /\ uid' = uid
           \/ Asks(q, "claim_get_bonues_info", UserOf[q], Nil) /\ uid' = UserOf[q]
        /\ uid' = uid \/ uid' \in Users
        /\ Others(q) /\ row' = row
    BY <1>2, BeginDoes
  <2>2. UserOf[q] \in Users
    BY UserAssumption
  <2>3. Held(req[q])'
    BY <2>1, <2>2 DEF Asks, Held, Finds, Claims
  <2> QED
    BY <1>1, <2>1, <2>3
<1>3. ASSUME NEW q \in Reqs, ExecuteRead(q) PROVE HeldRecords'
  <2>1. /\ req[q] # Idle /\ req'[q] \in Requests /\ Others(q)
        /\ req[q].stage \in Reads /\ req'[q].stage = req[q].stage
        /\ req'[q].u = req[q].u /\ req[q].u \in Users
        /\ Finds(req'[q]) => row[req[q].u] # Nil /\ req'[q].info = row[req[q].u]
        /\ row' = row /\ uid' = uid
    BY <1>3, ReadDoes
  <2>2. Held(req[q])
    BY <2>1 DEF HeldRecords
  <2>3. Finds(req'[q]) => req'[q].info \in Rows
    BY <2>1 DEF TypeOK
  <2>4. Held(req[q])'
    BY <2>1, <2>2, <2>3 DEF Held, Finds, Claims, Reads
  <2> QED
    BY <1>1, <2>1, <2>4
<1>4. ASSUME NEW q \in Reqs, ExecuteWrite(q) PROVE HeldRecords'
  <2>1. /\ req[q] # Idle /\ Others(q)
        /\ req[q].stage \in Writes /\ req'[q].stage = req[q].stage
        /\ req'[q].u = req[q].u /\ req'[q].info = req[q].info /\ req[q].u \in Users
        /\ uid' = uid /\ Written(q)
    BY <1>4, WriteDoes
  <2>2. Held(req[q])
    BY <2>1 DEF HeldRecords
  <2>3. \A u \in Users : row[u] # Nil => row'[u] # Nil
    BY <2>1, RowsStay
  <2>4. Held(req[q])'
    BY <2>1, <2>2, <2>3 DEF Held, Finds, Claims, Writes
  <2> QED
    BY <1>1, <2>1, <2>3, <2>4
<1>5. ASSUME NEW q \in Reqs, Callback(q) PROVE HeldRecords'
  <2>1. /\ CallbackEffect(q) /\ Others(q) /\ row' = row /\ uid' = uid /\ today' = today
    BY <1>5, CallbackDoes
  <2>2. req[q] # Idle
    BY <1>5 DEF Callback, ErrorCallback, UgameCallback, BonusCallback, ClaimCallback, Back
  <2>3. Held(req[q])
    BY <2>2 DEF HeldRecords
  <2>4. FirstRecord \in Rows /\ FirstRecord.status = 1
    BY NewRecords DEF FirstRecord
  <2>5. ASSUME req'[q] # Idle PROVE Held(req[q])'
    <3> DEFINE new == [bonues |-> login_bonues[NextDays(req[q].info)], status |-> 0,
                       bonues_time |-> today, days |-> NextDays(req[q].info)]
    <3>1. CASE /\ Finds(req[q]) /\ req[q].info \in Rows
               /\ Asks(q, "update_login_bonues", req[q].u, new)
      <4>1. new \in Rows
        BY <3>1, NewRecords
      <4> HIDE DEF new
      <4> QED
        BY <2>1, <2>3, <3>1, <4>1 DEF Held, Asks, Finds, Claims
    <3>2. CASE Asks(q, "insert_bonues_info", req[q].u, FirstRecord)
      <4> QED
        BY <2>1, <2>4, <3>2 DEF Held, Asks, Finds, Claims
    <3>3. CASE uid \in Users /\ Asks(q, "update_login_bonues_status", uid, req[q].info)
      BY <2>1, <3>3 DEF Held, Asks, Finds, Claims
    <3>4. CASE \E stage \in {"insert_ugame_info", "get_ugame_info", "get_bonues_info"} :
                  Asks(q, stage, req[q].u, Nil)
      BY <3>4 DEF Held, Asks, Finds, Claims
    <3> HIDE DEF new
    <3> QED
      BY <2>1, <2>5, <3>1, <3>2, <3>3, <3>4 DEF CallbackEffect, new
  <2> QED
    BY <1>1, <2>1, <2>5
<1>6. CASE UNCHANGED <<row, uid, req>>
  BY <1>6 DEF HeldRecords, Held, Finds, Claims
<1> QED
  BY <1>2, <1>3, <1>4, <1>5, <1>6, Steps DEF NextDay, vars

LEMMA GrantsStep ==
    ASSUME TypeOK, HeldRecords, GrantsKnown, [Next]_vars
    PROVE  GrantsKnown'
<1>1. ASSUME NEW q \in Reqs, Others(q), row' = row, granted' = granted,
             req'[q] # Idle => Earned(req[q])'
      PROVE  GrantsKnown'
  BY <1>1 DEF GrantsKnown, Others, Earned, Finds
<1>2. ASSUME NEW q \in Reqs, GetUgameInfoReq(q) \/ RecvLoginBonuesReq(q) PROVE GrantsKnown'
  <2>1. /\ \/ Asks(q, "get_ugame_info", UserOf[q], Nil)
           \/ Asks(q, "claim_get_bonues_info", UserOf[q], Nil)
        /\ Others(q) /\ row' = row /\ granted' = granted
    BY <1>2, BeginDoes
  <2>2. Earned(req[q])'
    BY <2>1 DEF Asks, Earned, Finds
  <2> QED
    BY <1>1, <2>1, <2>2
<1>3. ASSUME NEW q \in Reqs, ExecuteRead(q) PROVE GrantsKnown'
  <2>1. /\ Others(q) /\ req[q].stage \in Reads /\ req'[q].stage = req[q].stage
        /\ req'[q].u = req[q].u
        /\ Finds(req'[q]) => row[req[q].u] # Nil /\ req'[q].info = row[req[q].u]
        /\ row' = row /\ granted' = granted
    BY <1>3, ReadDoes
  <2>2. Earned(req[q])'
    BY <2>1 DEF Earned, Finds, Reads
  <2> QED
    BY <1>1, <2>1, <2>2
<1>4. ASSUME NEW q \in Reqs, Callback(q) PROVE GrantsKnown'
  <2>1. CallbackEffect(q) /\ Others(q) /\ row' = row /\ granted' = granted /\ today' = today
    BY <1>4, CallbackDoes
  <2>2. req[q] # Idle
    BY <1>4 DEF Callback, ErrorCallback, UgameCallback, BonusCallback, ClaimCallback, Back
  <2>3. Earned(req[q])
    BY <2>2 DEF GrantsKnown
  <2>4. ASSUME req'[q] # Idle PROVE Earned(req[q])'
    <3> DEFINE new == [bonues |-> login_bonues[NextDays(req[q].info)], status |-> 0,
                       bonues_time |-> today, days |-> NextDays(req[q].info)]
    <3>1. CASE /\ Finds(req[q]) /\ req[q].info.bonues_time < today
               /\ Asks(q, "update_login_bonues", req[q].u, new)
      <4>1. new.bonues_time = today
        OBVIOUS
      <4> HIDE DEF new
      <4> QED
        BY <2>1, <2>3, <3>1, <4>1 DEF Earned, Asks, Finds
    <3>2. CASE \E stage \in {"insert_ugame_info", "get_ugame_info", "get_bonues_info",
                             "insert_bonues_info", "update_login_bonues_status"} :
                  \E u, info : Asks(q, stage, u, info)
      BY <3>2 DEF Earned, Asks, Finds
    <3> HIDE DEF new
    <3> QED
      BY <2>1, <2>4, <3>1, <3>2 DEF CallbackEffect, new
  <2> QED
    BY <1>1, <2>1, <2>4
<1>5. ASSUME NEW q \in Reqs, ExecuteWrite(q) PROVE GrantsKnown'
  <2> DEFINE w == req[q]
  <2>1. /\ w # Idle /\ Others(q)
        /\ w.stage \in Writes /\ req'[q].stage = w.stage
        /\ req'[q].u = w.u /\ req'[q].info = w.info /\ w.u \in Users
        /\ Written(q)
    BY <1>5, WriteDoes
  <2>2. /\ row' \in [Users -> Rows \cup {Nil}]
        /\ \A u \in Users : granted[u] > 0 => granted'[u] > 0
        /\ row \in [Users -> Rows \cup {Nil}] /\ granted \in [Users -> Nat]
    BY <2>1, RowsStay DEF TypeOK
  <2>3. Held(w) /\ Earned(w)
    BY <2>1 DEF HeldRecords, GrantsKnown
  \* Either the user has a grant now, or its row was made, or stays as it was.
  <2>4. \/ granted'[w.u] > 0
        \/ row[w.u] = Nil /\ row'[w.u].status = 1
        \/ row'[w.u] = row[w.u]
    <3>1. CASE w.stage = "update_login_bonues" /\ row'[w.u] # row[w.u]
      <4>1. CASE granted[w.u] > 0
        BY <2>1, <2>2, <4>1
      <4>2. CASE row[w.u].bonues_time < w.info.bonues_time
        <5>1. w.info \in Rows /\ row[w.u] \in Rows
          BY <2>1, <2>2, <2>3, <3>1 DEF Held
        <5>2. row[w.u].bonues_time # w.info.bonues_time
          BY <4>2, <5>1, RowIs, DayAssumption
        <5>3. granted' = granted \/ granted' = [granted EXCEPT ![w.u] = @ + 1]
          BY <2>1 DEF Written
        <5>4. granted' = [granted EXCEPT ![w.u] = @ + 1]
          BY <2>1, <3>1, <5>2 DEF Written
        <5> QED
          BY <2>1, <2>2, <5>4
      <4> QED
        BY <2>3, <3>1, <4>1, <4>2 DEF Earned
    <3>2. CASE w.stage = "insert_bonues_info" /\ row'[w.u] # row[w.u]
      <4>1. row[w.u] = Nil /\ row' = [row EXCEPT ![w.u] = w.info]
        BY <2>1, <3>2 DEF Written
      <4>2. w.info.status = 1
        BY <2>3, <3>2 DEF Held
      <4> QED
        BY <2>1, <2>2, <4>1, <4>2
    <3>3. CASE w.stage = "update_login_bonues_status" /\ row'[w.u] # row[w.u]
      <4>1. row[w.u] # Nil /\ row' = [row EXCEPT ![w.u] = [row[w.u] EXCEPT !.status = 1]]
        BY <2>1, <3>3 DEF Written
      <4>2. row[w.u] \in Rows
        BY <2>1, <2>2, <4>1
      <4>3. row[w.u].status # 1
        <5>1. ASSUME row[w.u].status = 1 PROVE FALSE
          <6>1. [row[w.u] EXCEPT !.status = 1] = row[w.u]
            BY <4>2, <5>1 DEF Rows
          <6> QED
            BY <2>1, <2>2, <3>3, <4>1, <6>1
        <5> QED
          BY <5>1
      <4>4. row[w.u].status = 0
        BY <4>2, <4>3, RowIs
      <4> QED
        BY <2>1, <2>2, <4>1, <4>4 DEF GrantsKnown
    <3> QED
      BY <2>1, <3>1, <3>2, <3>3 DEF Written
  <2>5. \A u \in Users : u # w.u => row'[u] = row[u] /\ granted'[u] = granted[u]
    BY <2>1, <2>2 DEF Written
  <2>6. ASSUME NEW u \in Users, row'[u] # Nil, row'[u].status = 0 PROVE granted'[u] > 0
    BY <2>2, <2>4, <2>5, <2>6 DEF GrantsKnown
  <2>7. ASSUME NEW p \in Reqs, req'[p] # Idle PROVE Earned(req[p])'
    <3>1. CASE p = q
      <4>1. w.stage = "update_login_bonues" =>
              granted'[w.u] > 0 \/ row'[w.u].bonues_time < w.info.bonues_time
        BY <2>1, <2>2, <2>3, <2>4 DEF Earned, Held
      <4> QED
        BY <2>1, <3>1, <4>1 DEF Earned, Finds, Writes
    <3>2. CASE p # q
      <4>1. /\ req'[p] = req[p] /\ req[p] # Idle /\ Held(req[p]) /\ Earned(req[p])
            /\ req[p].u \in Users
        BY <2>1, <2>7, <3>2, RequestIs DEF Others, HeldRecords, GrantsKnown
      <4>2. Finds(req[p]) \/ req[p].stage = "update_login_bonues" =>
              \/ granted'[req[p].u] > 0
              \/ row'[req[p].u] = row[req[p].u]
        BY <2>4, <2>5, <4>1 DEF Held
      <4> QED
        BY <2>2, <4>1, <4>2 DEF Earned, Finds
    <3> QED
      BY <3>1, <3>2
  <2> QED
    BY <2>6, <2>7 DEF GrantsKnown
<1>6. CASE UNCHANGED <<row, granted, req>>
  BY <1>6 DEF GrantsKnown, Earned, Finds
<1> QED
  BY <1>2, <1>3, <1>4, <1>5, <1>6, Steps DEF NextDay, vars

\* Grants stay.
LEMMA GrantsStay ==
    ASSUME TypeOK, HeldRecords, [Next]_vars, NEW u \in Users, granted[u] > 0
    PROVE  granted'[u] > 0
<1>1. ASSUME NEW q \in Reqs, ExecuteWrite(q) PROVE granted'[u] > 0
  BY <1>1, WriteDoes, RowsStay
<1>2. (~\E q \in Reqs : ExecuteWrite(q)) => granted' = granted
  BY Steps, BeginDoes, ReadDoes, CallbackDoes DEF NextDay, vars
<1> QED
  BY <1>1, <1>2

LEMMA PaymentsStep ==
    ASSUME TypeOK, HeldRecords, GrantsKnown, PaymentsKnown, [Next]_vars
    PROVE  PaymentsKnown'
<1>0. ASSUME ~NoGrant PROVE ~NoGrant'
  <2>1. PICK u \in Users : granted[u] > 0
    BY <1>0 DEF NoGrant, TypeOK
  <2>2. granted'[u] > 0
    BY <2>1, GrantsStay
  <2> QED
    BY <2>2 DEF NoGrant
<1>1. ASSUME NEW p \in Reqs, req'[p] # Idle, req'[p].stage = "update_login_bonues_status"
      PROVE  ~NoGrant'
  <2>1. CASE req[p] # Idle /\ req[p].stage = req'[p].stage
    BY <1>0, <1>1, <2>1 DEF PaymentsKnown
  <2>2. CASE ~(req[p] # Idle /\ req[p].stage = req'[p].stage)
    <3>1. ASSUME NEW q \in Reqs, GetUgameInfoReq(q) \/ RecvLoginBonuesReq(q) PROVE FALSE
      <4>1. /\ \/ Asks(q, "get_ugame_info", UserOf[q], Nil)
               \/ Asks(q, "claim_get_bonues_info", UserOf[q], Nil)
            /\ Others(q)
        BY <3>1, BeginDoes
      <4> QED
        BY <1>1, <2>2, <4>1 DEF Asks, Others
    <3>2. ASSUME NEW q \in Reqs, ExecuteRead(q) PROVE FALSE
      BY <1>1, <2>2, <3>2, ReadDoes DEF Others, Reads
    <3>3. ASSUME NEW q \in Reqs, ExecuteWrite(q) PROVE FALSE
      BY <1>1, <2>2, <3>3, WriteDoes DEF Others
    <3>4. PICK q \in Reqs : Callback(q)
      BY <1>1, <2>2, <3>1, <3>2, <3>3, Steps DEF NextDay, vars
    <3>5. CallbackEffect(q) /\ Others(q)
      BY <3>4, CallbackDoes
    <3>6. p = q
      BY <1>1, <2>2, <3>5 DEF Others
    <3> DEFINE w == req[q]
    <3>7. w # Idle
      BY <3>4 DEF Callback, ErrorCallback, UgameCallback, BonusCallback, ClaimCallback, Back
    <3>8. Finds(w) /\ w.info.status = 0
      <4> HIDE DEF w
      <4> DEFINE new == [bonues |-> login_bonues[NextDays(w.info)], status |-> 0,
                         bonues_time |-> today, days |-> NextDays(w.info)]
      <4> HIDE DEF new
      <4> QED
        BY <1>1, <3>5, <3>6 DEF CallbackEffect, Asks, w, new
    <3>9. w.u \in Users /\ Held(w) /\ Earned(w)
      BY <3>7, RequestIs DEF HeldRecords, GrantsKnown
    <3>10. granted[w.u] > 0
      BY <3>8, <3>9 DEF Held, Earned, GrantsKnown
    <3>11. ~NoGrant
      BY <3>9, <3>10 DEF NoGrant
    <3> QED
      BY <1>0, <3>11
  <2> QED
    BY <2>1, <2>2
<1>2. ASSUME NEW u \in Users, paid'[u] > 0 PROVE ~NoGrant'
  <2>1. CASE paid[u] > 0
    BY <1>0, <2>1 DEF PaymentsKnown
  <2>2. CASE ~(paid[u] > 0)
    <3>1. paid' # paid
      BY <1>2, <2>2
    <3>2. PICK q \in Reqs : Callback(q)
      BY <3>1, Steps, BeginDoes, ReadDoes, WriteDoes DEF NextDay, vars
    <3>3. Back(q, "update_login_bonues_status", "ok")
      BY <3>1, <3>2
         DEF Callback, ErrorCallback, UgameCallback, BonusCallback, ClaimCallback
    <3>4. req[q] # Idle /\ req[q].stage = "update_login_bonues_status"
      BY <3>3 DEF Back
    <3>5. ~NoGrant
      BY <3>4 DEF PaymentsKnown
    <3> QED
      BY <1>0, <3>5
  <2> QED
    BY <2>1, <2>2
<1>3. /\ \A p \in Reqs :
            req'[p] # Idle /\ req'[p].stage = "update_login_bonues_status" => ~NoGrant'
      /\ \A u \in Users : paid'[u] > 0 => ~NoGrant'
  BY <1>1, <1>2
<1> QED
  BY <1>3 DEF PaymentsKnown

\* Records that differ in the status at most have the same next day.
LEMMA SameNextDay ==
    ASSUME NEW a, NEW b, SameDay(a, b)
    PROVE  NextDays(a) = NextDays(b)
BY DEF SameDay, NextDays

\* What a step does to the row of a user: nothing, but for the status; or
\* today's grant; or the row is made today.
RowMoves(u) ==
    \/ row'[u] = row[u]
    \/ row[u] # Nil /\ SameDay(row'[u], row[u])
    \/ row[u] # Nil /\ row[u].bonues_time < today /\ Continues(row'[u], row[u])
    \/ row[u] = Nil /\ row'[u].bonues_time = today

LEMMA RowStep ==
    ASSUME TypeOK, HeldRecords, StreakKnown, [Next]_vars, NEW u \in Users
    PROVE  RowMoves(u)
<1>1. ASSUME NEW q \in Reqs, ExecuteWrite(q) PROVE RowMoves(u)
  <2> DEFINE w == req[q]
  <2>1. w # Idle /\ w.u \in Users /\ Written(q)
    BY <1>1, WriteDoes
  <2>2. row \in [Users -> Rows \cup {Nil}] /\ Held(w) /\ InStreak(w)
    BY <2>1 DEF TypeOK, HeldRecords, StreakKnown
  <2>3. CASE u # w.u \/ row' = row
    <3>1. row'[u] = row[u]
      BY <2>1, <2>2, <2>3 DEF Written
    <3> QED
      BY <3>1 DEF RowMoves
  <2>4. CASE u = w.u /\ row' # row
    <3>1. CASE w.stage = "insert_bonues_info"
      <4>1. row[u] = Nil /\ row'[u] = w.info
        BY <2>1, <2>2, <2>4, <3>1 DEF Written
      <4> QED
        BY <2>2, <3>1, <4>1 DEF InStreak, RowMoves
    <3>2. CASE w.stage = "update_login_bonues"
      <4>1. row[u] # Nil /\ row'[u] = w.info
        BY <2>1, <2>2, <2>4, <3>2 DEF Written
      <4>2. \/ SameDay(row[u], w.info)
            \/ row[u].bonues_time < today /\ Continues(w.info, row[u])
        BY <2>2, <2>4, <3>2 DEF InStreak
      <4> QED
        BY <4>1, <4>2 DEF RowMoves, SameDay
    <3>3. CASE w.stage = "update_login_bonues_status"
      <4>1. row[u] # Nil /\ row'[u] = [row[u] EXCEPT !.status = 1]
        BY <2>1, <2>2, <2>4, <3>3 DEF Written
      <4>2. row[u] \in Rows
        BY <2>2, <4>1
      <4>3. SameDay(row'[u], row[u])
        BY <4>1, <4>2 DEF Rows, SameDay
      <4> QED
        BY <4>1, <4>3 DEF RowMoves
    <3> QED
      BY <2>1, <2>4, <3>1, <3>2, <3>3 DEF Written
  <2> QED
    BY <2>3, <2>4
<1>2. (~\E q \in Reqs : ExecuteWrite(q)) => row' = row
  BY Steps, BeginDoes, ReadDoes, CallbackDoes DEF NextDay, vars
<1> QED
  BY <1>1, <1>2 DEF RowMoves

\* What a request holds keeps its place in the streak when the row moves.
LEMMA StreakKept ==
    ASSUME TypeOK, NEW w \in Requests, NEW u \in Users, w.u = u, Held(w), InStreak(w),
           RowMoves(u), today' = today
    PROVE  InStreak(w)'
<1>1. w.stage = "insert_bonues_info" => w.info.bonues_time = today'
  BY DEF InStreak
<1>2. \A r : NextDays(r)' = NextDays(r)
  BY DEF NextDays
<1>3. CASE ~(Finds(w) \/ w.stage = "update_login_bonues")
  BY <1>1, <1>3 DEF InStreak
<1>4. CASE Finds(w) \/ w.stage = "update_login_bonues"
  <2>1. row[u] # Nil /\ row[u] \in Rows /\ w.info \in Rows
    BY <1>4 DEF Held, TypeOK
  <2>2. row[u].bonues_time \in Int /\ w.info.bonues_time \in Int /\ today \in Int
    BY <2>1, RowIs, DayAssumption DEF TypeOK
  <2>3. CASE row'[u] = row[u] \/ SameDay(row'[u], row[u])
    <3>1. SameDay(row'[u], row[u])
      BY <2>3 DEF SameDay
    <3>2. NextDays(row'[u]) = NextDays(row[u])
      BY <3>1, SameNextDay
    <3>3. Finds(w) => \/ SameDay(row'[u], w.info)
                      \/ w.info.bonues_time < today /\ Continues(row'[u], w.info)
      BY <3>1 DEF InStreak, SameDay, Continues
    <3>4. w.stage = "update_login_bonues" =>
             \/ SameDay(row'[u], w.info) /\ w.info.bonues_time = today
             \/ row'[u].bonues_time < today /\ Continues(w.info, row'[u])
      BY <3>1, <3>2 DEF InStreak, SameDay, Continues
    <3> QED
      BY <1>1, <1>2, <3>3, <3>4 DEF InStreak, SameDay, Continues, Finds
  <2>4. CASE row[u].bonues_time < today /\ Continues(row'[u], row[u])
    <3>1. Finds(w) => w.info.bonues_time < today /\ Continues(row'[u], w.info)
      <4>1. ASSUME Finds(w) PROVE SameDay(row[u], w.info)
        BY <2>2, <2>4, <4>1 DEF InStreak, Continues
      <4>2. ASSUME Finds(w) PROVE NextDays(row[u]) = NextDays(w.info)
        BY <4>1, <4>2, SameNextDay
      <4> QED
        BY <2>4, <4>1, <4>2 DEF SameDay, Continues
    <3>2. w.stage = "update_login_bonues" =>
             SameDay(row'[u], w.info) /\ w.info.bonues_time = today
      <4>1. w.stage = "update_login_bonues" => Continues(w.info, row[u])
        BY <2>2, <2>4 DEF InStreak, SameDay
      <4> QED
        BY <2>4, <4>1 DEF SameDay, Continues
    <3> QED
      BY <1>1, <1>2, <3>1, <3>2 DEF InStreak, SameDay, Continues, Finds
  <2> QED
    BY <2>1, <2>3, <2>4 DEF RowMoves
<1> QED
  BY <1>3, <1>4

LEMMA StreakStep ==
    ASSUME TypeOK, HeldRecords, StreakKnown, Midnight = FALSE, [Next]_vars
    PROVE  StreakKnown'
<1>1. today \in Int /\ \A u \in Users : row[u] # Nil => row[u].bonues_time \in Int
  BY RowIs, DayAssumption DEF TypeOK
<1>2. CASE NextDay
  <2>1. today' = today + 1 /\ row' = row /\ req' = req /\ \A q \in Reqs : req[q] = Idle
    BY <1>2 DEF NextDay
  <2> QED
    BY <1>1, <2>1 DEF StreakKnown
<1>3. CASE ~NextDay
  <2>1. today' = today
    BY <1>3, Steps, BeginDoes, ReadDoes, WriteDoes, CallbackDoes DEF vars
  <2>2. ASSUME NEW u \in Users, row'[u] # Nil PROVE row'[u].bonues_time <= today'
    BY <1>1, <2>1, <2>2, RowStep DEF RowMoves, SameDay, Continues, StreakKnown
  <2>3. ASSUME NEW p \in Reqs, req[p] # Idle, req'[p] = req[p] PROVE InStreak(req[p])'
    <3>1. /\ req[p] \in Requests /\ req[p].u \in Users
          /\ Held(req[p]) /\ InStreak(req[p]) /\ RowMoves(req[p].u)
      BY <2>3, RequestIs, RowStep DEF HeldRecords, StreakKnown
    <3>2. PICK w : w = req[p]
      OBVIOUS
    <3>3. InStreak(w)'
      BY <2>1, <3>1, <3>2, StreakKept
    <3> QED
      BY <2>3, <3>2, <3>3 DEF InStreak
  <2>4. ASSUME NEW q \in Reqs, Others(q), req'[q] # Idle => InStreak(req[q])'
        PROVE  StreakKnown'
    <3>1. ASSUME NEW p \in Reqs, req'[p] # Idle PROVE InStreak(req[p])'
      BY <2>3, <2>4, <3>1 DEF Others
    <3> QED
      BY <2>2, <3>1 DEF StreakKnown
  <2>5. ASSUME NEW q \in Reqs, GetUgameInfoReq(q) \/ RecvLoginBonuesReq(q) PROVE StreakKnown'
    <3>1. /\ \/ Asks(q, "get_ugame_info", UserOf[q], Nil)
             \/ Asks(q, "claim_get_bonues_info", UserOf[q], Nil)
          /\ Others(q)
      BY <2>5, BeginDoes
    <3>2. InStreak(req[q])'
      BY <3>1 DEF Asks, InStreak, Finds
    <3> QED
      BY <2>4, <3>1, <3>2
  <2>6. ASSUME NEW q \in Reqs, ExecuteRead(q) PROVE StreakKnown'
    <3>1. /\ Others(q) /\ req[q].stage \in Reads /\ req'[q].stage = req[q].stage
          /\ req'[q].u = req[q].u /\ row' = row
          /\ Finds(req'[q]) => row[req[q].u] # Nil /\ req'[q].info = row[req[q].u]
      BY <2>6, ReadDoes
    <3>2. InStreak(req[q])'
      BY <3>1 DEF InStreak, Finds, Reads, SameDay
    <3> QED
      BY <2>4, <3>1, <3>2
  <2>7. ASSUME NEW q \in Reqs, ExecuteWrite(q) PROVE StreakKnown'
    <3>1. /\ req[q] # Idle /\ req'[q] \in Requests /\ Others(q)
          /\ req[q].stage \in Writes /\ req'[q].stage = req[q].stage
          /\ req'[q].u = req[q].u /\ req'[q].info = req[q].info /\ req[q].u \in Users
      BY <2>7, WriteDoes
    <3>2. Held(req[q]) /\ InStreak(req[q]) /\ RowMoves(req[q].u) /\ req[q] \in Requests
      BY <3>1, RequestIs, RowStep DEF HeldRecords, StreakKnown
    <3>3. PICK w : w = req[q]
      OBVIOUS
    <3>4. InStreak(w)'
      BY <2>1, <3>1, <3>2, <3>3, StreakKept
    <3>5. InStreak(req[q])'
      BY <3>1, <3>3, <3>4 DEF InStreak, Finds, Writes
    <3> QED
      BY <2>4, <3>1, <3>5
  <2>8. ASSUME NEW q \in Reqs, Callback(q) PROVE StreakKnown'
    <3>1. CallbackEffect(q) /\ Others(q) /\ row' = row
      BY <2>8, CallbackDoes
    <3>2. req[q] # Idle
      BY <2>8 DEF Callback, ErrorCallback, UgameCallback, BonusCallback, ClaimCallback, Back
    <3>3. InStreak(req[q]) /\ Held(req[q]) /\ req[q].u \in Users
      BY <3>2, RequestIs DEF StreakKnown, HeldRecords
    <3>4. \A r : NextDays(r)' = NextDays(r)
      BY <2>1 DEF NextDays
    <3>5. ASSUME req'[q] # Idle PROVE InStreak(req[q])'
      <4> DEFINE info == req[q].info
                 u == req[q].u
                 new == [bonues |-> login_bonues[NextDays(info)], status |-> 0,
                         bonues_time |-> today, days |-> NextDays(info)]
      <4>1. CASE Finds(req[q]) /\ info.bonues_time < today /\ Asks(q, "update_login_bonues", u, new)
        <5>1. /\ new.bonues_time = today /\ new.days = NextDays(info)
              /\ new.bonues = login_bonues[new.days]
          OBVIOUS
        <5> HIDE DEF new
        <5>2. CASE SameDay(row[u], info)
          <6>1. row[u].bonues_time < today /\ Continues(new, row[u])
            BY <4>1, <5>1, <5>2, SameNextDay DEF SameDay, Continues
          <6> QED
            BY <2>1, <3>1, <3>4, <4>1, <6>1 DEF InStreak, Asks, Finds, Continues
        <5>3. CASE Continues(row[u], info)
          <6>1. SameDay(row[u], new)
            BY <5>1, <5>3 DEF SameDay, Continues
          <6> QED
            BY <2>1, <3>1, <4>1, <5>1, <6>1 DEF InStreak, Asks, Finds, SameDay
        <5> QED
          BY <3>3, <4>1, <5>2, <5>3 DEF InStreak
      <4>2. CASE Asks(q, "insert_bonues_info", u, FirstRecord)
        BY <2>1, <4>2 DEF InStreak, Asks, Finds, FirstRecord
      <4>3. CASE \E stage \in {"insert_ugame_info", "get_ugame_info", "get_bonues_info",
                               "update_login_bonues_status"} :
                    \E v, i : Asks(q, stage, v, i)
        BY <4>3 DEF InStreak, Asks, Finds
      <4> HIDE DEF new
      <4> QED
        BY <3>1, <3>5, <4>1, <4>2, <4>3 DEF CallbackEffect, new
    <3> QED
      BY <2>4, <3>1, <3>5
  <2>9. CASE UNCHANGED vars
    <3>1. ASSUME NEW p \in Reqs, req'[p] # Idle PROVE InStreak(req[p])'
      BY <2>3, <2>9, <3>1 DEF vars
    <3> QED
      BY <2>2, <3>1 DEF StreakKnown
  <2> QED
    BY <1>3, <2>5, <2>6, <2>7, <2>8, <2>9, Steps
<1> QED
  BY <1>2, <1>3

LEMMA InitIInv == Init => IInv
<1> SUFFICES ASSUME Init PROVE IInv
  OBVIOUS
<1>1. TypeOK
  BY DayAssumption DEF Init, TypeOK
<1>2. HeldRecords /\ GrantsKnown /\ StreakKnown
  BY DEF Init, HeldRecords, GrantsKnown, StreakKnown
<1>3. PaymentsKnown
  BY DEF Init, PaymentsKnown
<1> QED
  BY <1>1, <1>2, <1>3 DEF IInv

LEMMA IInvStep == IInv /\ [Next]_vars => IInv'
<1> SUFFICES ASSUME IInv, [Next]_vars PROVE IInv'
  OBVIOUS
<1>1. TypeOK' /\ HeldRecords' /\ GrantsKnown'
  BY TypeStep, HeldStep, GrantsStep DEF IInv
<1>2. PaymentsKnown'
  BY PaymentsStep DEF IInv
<1>3. Midnight = FALSE => StreakKnown'
  BY StreakStep DEF IInv
<1> QED
  BY <1>1, <1>2, <1>3 DEF IInv

THEOREM Inductive == Spec => []IInv
BY InitIInv, IInvStep, PTL DEF Spec

------------------------------------------------------------------------------
(* The properties of LoginBonus                                            *)

\* Every variable keeps its type, for every number of requests and users: no
\* request is under way that no user sent or that holds half a record.
THEOREM TypeCorrect == Spec => []TypeOK
<1>1. IInv => TypeOK
  BY DEF IInv
<1> QED
  BY <1>1, Inductive, PTL

\* Before ckeck_login_bonues has granted a first bonus, recv_login_bonues pays
\* nobody, however many users claim at a time and whichever write the global
\* uid sends to another row.
THEOREM NothingPaidUngranted ==
    Spec => []((\A u \in Users : granted[u] = 0) => \A u \in Users : paid[u] = 0)
<1>1. ASSUME IInv, \A u \in Users : granted[u] = 0, NEW v \in Users PROVE paid[v] = 0
  <2>1. paid[v] \in Nat /\ ~(paid[v] > 0)
    BY <1>1 DEF IInv, TypeOK, PaymentsKnown, NoGrant
  <2> QED
    BY <2>1
<1>2. IInv => ((\A u \in Users : granted[u] = 0) => \A u \in Users : paid[u] = 0)
  BY <1>1
<1> QED
  BY <1>2, Inductive, PTL

\* As long as one user claims, recv_login_bonues pays it nothing before its first grant,
\* however its requests overlap and whichever writes fail.  That a grant is paid once is
\* not claimed: overlapping claims may both find it open (see PaidPerGrant).
THEOREM PaidAfterGrantCorrect == OneUser => (Spec => []PaidAfterGrant)
<1> SUFFICES ASSUME OneUser PROVE Spec => []PaidAfterGrant
  OBVIOUS
<1>1. IInv => PaidAfterGrant
  BY DEF IInv, TypeOK, PaymentsKnown, NoGrant, OneUser, PaidAfterGrant
<1> QED
  BY <1>1, Inductive, PTL

\* If days end between requests, ckeck_login_bonues counts every day once in
\* the streak and grants the bonus of that day, for all users.
THEOREM StreakCountsCorrect == Midnight = FALSE => (Spec => StreakCounts)
<1> SUFFICES ASSUME Midnight = FALSE PROVE Spec => StreakCounts
  OBVIOUS
<1> DEFINE Counts(u) ==
      LET old == row[u]
          new == row'[u]
      IN old # Nil /\ new # old =>
         IF new.bonues_time = old.bonues_time
         THEN new.days = old.days /\ new.bonues = old.bonues
         ELSE /\ new.bonues_time > old.bonues_time
              /\ new.days = IF /\ new.bonues_time = old.bonues_time + 1
                               /\ old.days < Len(login_bonues)
                            THEN old.days + 1 ELSE 1
              /\ new.bonues = login_bonues[new.days]
<1>1. ASSUME IInv, [Next]_vars, NEW u \in Users PROVE Counts(u)
  <2>1. TypeOK /\ HeldRecords /\ StreakKnown
    BY <1>1 DEF IInv
  <2>2. RowMoves(u)
    BY <1>1, <2>1, RowStep
  <2>3. CASE row[u] = Nil \/ row'[u] = row[u]
    BY <2>3
  <2>4. CASE SameDay(row'[u], row[u])
    BY <2>4 DEF SameDay
  <2>5. CASE row[u] # Nil /\ row[u].bonues_time < today /\ Continues(row'[u], row[u])
    <3> DEFINE t == row[u].bonues_time
               d == row[u].days
    <3>1. row[u] \in Rows
      BY <2>1, <2>5 DEF TypeOK
    <3>2. t \in Int /\ d \in Int /\ today \in Int /\ Len(login_bonues) \in Int
      BY <2>1, <3>1, RowIs, DayAssumption, BonusAssumption DEF TypeOK
    <3>3. /\ row'[u].bonues_time = today /\ row'[u].bonues = login_bonues[row'[u].days]
          /\ row'[u].days = IF t < today - 1 \/ d + 1 > Len(login_bonues) THEN 1 ELSE d + 1
      BY <2>5 DEF Continues, NextDays
    <3> HIDE DEF t, d
    <3>4. (t < today - 1 \/ d + 1 > Len(login_bonues))
            <=> ~(today = t + 1 /\ d < Len(login_bonues))
      BY <2>5, <3>2 DEF t
    <3>5. row'[u].days = IF today = t + 1 /\ d < Len(login_bonues) THEN d + 1 ELSE 1
      BY <3>3, <3>4
    <3>6. today > t /\ today # t
      BY <2>5, <3>2 DEF t
    <3> QED
      BY <3>3, <3>5, <3>6 DEF t, d
  <2> QED
    BY <2>2, <2>3, <2>4, <2>5 DEF RowMoves
<1>2. IInv /\ [Next]_vars => \A u \in Users : Counts(u)
  BY <1>1
<1> QED
  BY <1>2, Inductive, PTL DEF Spec, StreakCounts

=============================================================================
