-------------------------- MODULE FrameSyncProofs ---------------------------
(***************************************************************************)
(* Proofs about FrameSync, for every number of rooms, seats and frames.    *)
(***************************************************************************)
EXTENDS FrameSync, SequenceTheorems, TLAPS

(* The inductive invariant                                                 *)

\* The log has no gap, and a game that has not begun has none.
LogNumbered ==
    \A r \in Rooms :
        /\ room_state[r] # "Playing" => all_frame_list[r] = <<>>
        /\ room_state[r] = "Playing" => frameid[r] = Len(all_frame_list[r]) + 1
        /\ \A i \in 1 .. Len(all_frame_list[r]) : all_frame_list[r][i].frameid = i

\* The operations of f were made by players that had seen i - 1 frames.
OpsFor(f, i) == \A k \in 1 .. Len(f.opts) : f.opts[k].after = i - 1

\* OpsInTheirFrame, for operations that are collected or under way as well.
OpsOnTheWay ==
    /\ \A m \in udp_up : \A i \in 1 .. Len(m.opts) : m.opts[i].after = SyncedBy(m)
    /\ \A r \in Rooms : room_state[r] = "Playing" =>
          \A i \in 1 .. Len(next_frame_list[r]) :
              next_frame_list[r][i].after = frameid[r] - 1
    /\ \A r \in Rooms : \A i \in 1 .. Len(all_frame_list[r]) : OpsFor(all_frame_list[r][i], i)

\* A datagram carries a stretch of its room's log.
DatagramsOfLog ==
    \A m \in udp_down : \A i \in 1 .. Len(m.unsync_frames) :
        LET f == m.unsync_frames[i].frameid IN
        /\ f = m.unsync_frames[1].frameid + i - 1
        /\ f <= Len(all_frame_list[m.room])
        /\ m.unsync_frames[i] = all_frame_list[m.room][f]

\* What a player has applied are frames of its room's log, in their order.
AppliedFromLog ==
    \A r \in Rooms, s \in Seats : \A i \in 1 .. Len(frames[r][s]) :
        LET f == frames[r][s][i].frameid IN
        /\ f \in 1 .. Len(all_frame_list[r])
        /\ frames[r][s][i] = all_frame_list[r][f]
        /\ \A j \in 1 .. i - 1 : frames[r][s][j].frameid < f

\* What a player of g has applied is a beginning of the log, no datagram to it leaves
\* a gap, and while datagrams to the server reach g, none claims more for it.
BeginningApplied(g) ==
    /\ \A s \in Seats :
          /\ Len(frames[g][s]) <= Len(all_frame_list[g])
          /\ \A i \in 1 .. Len(frames[g][s]) : frames[g][s][i] = all_frame_list[g][i]
          /\ cur_sync_frame_id[g][s] <= Len(frames[g][s])
    /\ \A m \in udp_down : m.room = g =>
          m.unsync_frames[1].frameid <= Len(frames[g][m.seatid]) + 1
    /\ listed \in {0, g} => \A m \in udp_up : SyncedBy(m) <= Len(frames[g][m.seatid])

\* No other room is made before g plays, and while g is the newest, no other plays.
OthersLater(g) ==
    /\ listed # 0 => room_state[listed] # "new"
    /\ \A r \in Rooms \ {g} : /\ listed \in {0, g} => room_state[r] = "new"
                              /\ room_state[r] # "new" => room_state[g] = "Playing"

IInv ==
    /\ TypeOK
    /\ LogNumbered
    /\ OpsOnTheWay
    /\ DatagramsOfLog
    /\ AppliedFromLog
    /\ \A g \in FirstGames : OthersLater(g) /\ BeginningApplied(g)

------------------------------------------------------------------------------
(* Sequences and frames                                                    *)

\* A bounded sequence is a sequence of at most that length.
LEMMA BoundedSeqIs ==
    ASSUME NEW S, NEW n \in Nat, NEW s
    PROVE  s \in BoundedSeq(S, n) <=> s \in Seq(S) /\ Len(s) <= n
<1>1. ASSUME s \in BoundedSeq(S, n) PROVE s \in Seq(S) /\ Len(s) <= n
  <2>1. PICK m \in 0 .. n : s \in [1 .. m -> S]
    BY <1>1 DEF BoundedSeq, SeqOf
  <2> QED
    BY <2>1
<1>2. ASSUME s \in Seq(S), Len(s) <= n PROVE s \in BoundedSeq(S, n)
  <2>1. s \in [1 .. Len(s) -> S] /\ Len(s) \in 0 .. n
    BY <1>2, LenProperties
  <2> QED
    BY <2>1 DEF BoundedSeq, SeqOf
<1> QED
  BY <1>1, <1>2

LEMMA EmptyIsBounded ==
    <<>> \in BoundedSeq(Opts, MaxOpts)
<1>1. <<>> \in Seq(Opts) /\ Len(<<>>) = 0 /\ 0 <= MaxOpts
  BY EmptySeq, FrameBounds
<1>2. <<>> \in Seq(Opts) /\ Len(<<>>) <= MaxOpts
  BY <1>1
<1> QED
  BY <1>2, BoundedSeqIs, FrameBounds

\* What a frame is made of.
LEMMA FrameIs ==
    ASSUME NEW f \in FrameOpts
    PROVE  f.frameid \in 1 .. MaxFrames /\ f.opts \in Seq(Opts) /\ Len(f.opts) <= MaxOpts
BY BoundedSeqIs, FrameBounds DEF FrameOpts

\* The last frame a player has applied is a number within the bound.
LEMMA LastFrameType ==
    ASSUME TypeOK, NEW r \in Rooms, NEW s \in Seats
    PROVE  LastFrame(r, s) \in 0 .. MaxFrames
<1>1. frames[r][s] \in Seq(FrameOpts)
  BY DEF TypeOK
<1>2. CASE frames[r][s] = <<>>
  BY <1>2, FrameBounds DEF LastFrame
<1>3. CASE frames[r][s] # <<>>
  <2>1. Last(frames[r][s]) \in FrameOpts
    BY <1>1, <1>3 DEF Last
  <2> QED
    BY <1>3, <2>1, FrameIs, FrameBounds DEF LastFrame
<1> QED
  BY <1>2, <1>3

\* A player that has applied a beginning of the log has applied as many frames
\* as the number of its last one says.
LEMMA LastFrameIsLen ==
    ASSUME TypeOK, LogNumbered, NEW r \in Rooms, BeginningApplied(r), NEW s \in Seats
    PROVE  LastFrame(r, s) = Len(frames[r][s])
<1>1. frames[r][s] \in Seq(FrameOpts) /\ all_frame_list[r] \in Seq(FrameOpts)
  BY DEF TypeOK
<1>2. CASE frames[r][s] = <<>>
  BY <1>2 DEF LastFrame
<1>3. CASE frames[r][s] # <<>>
  <2> DEFINE n == Len(frames[r][s])
  <2>1. n \in Nat \ {0} /\ n <= Len(all_frame_list[r])
    BY <1>1, <1>3, EmptySeq DEF BeginningApplied
  <2>2. frames[r][s][n] = all_frame_list[r][n]
    BY <2>1 DEF BeginningApplied
  <2>3. Len(all_frame_list[r]) \in Nat
    BY <1>1
  <2>4. n \in 1 .. Len(all_frame_list[r])
    BY <2>1, <2>3
  <2>5. all_frame_list[r][n].frameid = n
    BY <2>4 DEF LogNumbered
  <2> QED
    BY <1>3, <2>2, <2>5 DEF LastFrame, Last
<1> QED
  BY <1>2, <1>3

------------------------------------------------------------------------------
(* What the steps do                                                       *)

\* The end of a frame appends to the log of its room the frame collected, and
\* sends each player the log from the frame after the one it is taken to have.
LEMMA FrameEnds ==
    ASSUME TypeOK, LogNumbered, NEW r \in Rooms, do_logic_frame_sync(r)
    PROVE  LET log == all_frame_list'[r]
               f == [frameid |-> frameid[r], opts |-> next_frame_list[r]]
           IN
           /\ f \in FrameOpts
           /\ frameid[r] = Len(all_frame_list[r]) + 1
           /\ all_frame_list' = [all_frame_list EXCEPT ![r] = log]
           /\ log \in Seq(FrameOpts) /\ Len(log) = frameid[r]
           /\ log = Append(all_frame_list[r], f)
           /\ log[frameid[r]] = f
           /\ \A i \in 1 .. Len(all_frame_list[r]) : log[i] = all_frame_list[r][i]
           /\ frameid[r] \in 1 .. MaxFrames
<1> DEFINE f == [frameid |-> frameid[r], opts |-> next_frame_list[r]]
<1>1. /\ room_state[r] = "Playing"
      /\ Len(Append(all_frame_list[r], f)) <= MaxFrames
      /\ all_frame_list' = [all_frame_list EXCEPT ![r] = Append(all_frame_list[r], f)]
  BY DEF do_logic_frame_sync
<1>2. all_frame_list[r] \in Seq(FrameOpts) /\ all_frame_list \in [Rooms -> Seq(FrameOpts)]
  BY DEF TypeOK
<1>3. frameid[r] = Len(all_frame_list[r]) + 1
  BY <1>1 DEF LogNumbered
<1>4. Len(Append(all_frame_list[r], f)) = Len(all_frame_list[r]) + 1
  BY <1>2
<1>5. frameid[r] \in 1 .. MaxFrames
  BY <1>1, <1>2, <1>3, <1>4, FrameBounds
<1>6. f \in FrameOpts
  BY <1>5 DEF FrameOpts, TypeOK
<1>7. all_frame_list'[r] = Append(all_frame_list[r], f)
  BY <1>1, <1>2
<1>8. Append(all_frame_list[r], f) \in Seq(FrameOpts)
  BY <1>2, <1>6
<1>9. /\ Append(all_frame_list[r], f)[Len(all_frame_list[r]) + 1] = f
      /\ \A i \in 1 .. Len(all_frame_list[r]) :
            Append(all_frame_list[r], f)[i] = all_frame_list[r][i]
  BY <1>2, <1>6
<1> QED
  BY <1>1, <1>3, <1>4, <1>5, <1>6, <1>7, <1>8, <1>9

\* A datagram of the timer carries the frames of the log that the player of
\* seat s is taken not to have.
FrameSentTo(m, r, s) ==
    /\ m = [room |-> r, seatid |-> s, frameid |-> frameid[r], unsync_frames |-> m.unsync_frames]
    /\ m.unsync_frames \in Seq(FrameOpts) \ {<<>>}
    /\ Len(m.unsync_frames) = Len(all_frame_list'[r]) - cur_sync_frame_id[r][s]
    /\ \A i \in 1 .. Len(m.unsync_frames) :
          m.unsync_frames[i] = all_frame_list'[r][cur_sync_frame_id[r][s] + i]

LEMMA FrameSentSomewhere ==
    ASSUME TypeOK, LogNumbered, NEW r \in Rooms, do_logic_frame_sync(r),
           NEW m \in udp_down', m \notin udp_down
    PROVE  \E s \in Seats : FrameSentTo(m, r, s)
<1> DEFINE log == Append(all_frame_list[r],
                         [frameid |-> frameid[r], opts |-> next_frame_list[r]])
           sub(s) == unsync_frames(log, cur_sync_frame_id[r][s])
<1>1. log = all_frame_list'[r] /\ log \in Seq(FrameOpts)
  BY FrameEnds
<1>2. PICK s \in Seats :
        /\ m = [room |-> r, seatid |-> s, frameid |-> frameid[r],
                unsync_frames |-> sub(s)]
        /\ m.unsync_frames # <<>>
  BY DEF do_logic_frame_sync
<1> DEFINE c == cur_sync_frame_id[r][s]
<1>3. c \in Nat
  BY FrameBounds DEF TypeOK
<1>4. m.unsync_frames = SubSeq(log, c + 1, Len(log))
  BY <1>2 DEF unsync_frames
<1> HIDE DEF log, c
<1>5. Len(log) \in Nat /\ \A i \in c + 1 .. Len(log) : log[i] \in FrameOpts
  BY <1>1, <1>3
<1>6. /\ SubSeq(log, c + 1, Len(log)) \in Seq(FrameOpts)
      /\ Len(SubSeq(log, c + 1, Len(log)))
            = IF c + 1 <= Len(log) THEN Len(log) - (c + 1) + 1 ELSE 0
      /\ \A i \in 1 .. Len(log) - (c + 1) + 1 :
            SubSeq(log, c + 1, Len(log))[i] = log[c + 1 + i - 1]
  BY <1>3, <1>5, SubSeqProperties
<1>7. c + 1 <= Len(log)
  BY <1>2, <1>3, <1>4, <1>5, <1>6, EmptySeq
<1>8. /\ Len(m.unsync_frames) = Len(log) - c
      /\ \A i \in 1 .. Len(m.unsync_frames) : m.unsync_frames[i] = log[c + i]
  BY <1>3, <1>4, <1>5, <1>6, <1>7
<1> QED
  BY <1>1, <1>2, <1>4, <1>6, <1>8 DEF c, FrameSentTo

\* Where the j-th of b elements comes to stand when those from the i-th on are
\* put behind a others.
LEMMA Behind ==
    ASSUME NEW a \in Nat, NEW b \in Nat, NEW i \in 1 .. b, NEW j \in i .. b
    PROVE  /\ a + j - i + 1 \in 1 .. a + (b - i + 1)
           /\ ~(a + j - i + 1 <= a)
           /\ (a + j - i + 1) - a = j - i + 1
           /\ j - i + 1 \in 1 .. b - i + 1
           /\ i + (j - i + 1) - 1 = j
OBVIOUS

\* Whatever stands behind a others is one of the b elements put there.
LEMMA FromBehind ==
    ASSUME NEW a \in Nat, NEW b \in Nat, NEW i \in 1 .. a + b, ~(i <= a)
    PROVE  \E k \in 1 .. b : a + k = i
<1>1. i - a \in 1 .. b /\ a + (i - a) = i
  OBVIOUS
<1> QED
  BY <1>1

\* The same, for those from the i-th on.
LEMMA FromTail ==
    ASSUME NEW a \in Nat, NEW b \in Nat, NEW i \in 1 .. b,
           NEW k \in 1 .. a + b - i + 1, ~(k <= a)
    PROVE  \E j \in i .. b : a + j - i + 1 = k
<1>1. k - a + i - 1 \in i .. b /\ a + (k - a + i - 1) - i + 1 = k
  OBVIOUS
<1> QED
  BY <1>1

\* The id of the j-th frame of a datagram, past the last the player has.
LEMMA NewerId ==
    ASSUME NEW a \in Nat, NEW b \in Nat, NEW n \in Nat, NEW last \in Nat,
           NEW i \in 1 .. b, NEW j \in i .. b, NEW x, x = a + j - 1,
           a + i - 1 > last, x <= n
    PROVE  x > last /\ x \in 1 .. n /\ j \in 1 .. b
  OBVIOUS

LEMMA Shift ==
    ASSUME NEW a \in Nat, NEW n \in Nat, NEW i \in Nat, NEW j \in Nat, a + i - 1 = n + 1
    PROVE  a + j - 1 = n + j - i + 1
OBVIOUS

LEMMA StillBelow ==
    ASSUME NEW f \in Nat, NEW a \in Nat, NEW b \in Nat, a <= b, f <= a + 1
    PROVE  f <= b + 1
OBVIOUS

\* A player's LogicFrame step: from the i-th on, the frames of the datagram go
\* behind those the player has.
LEMMA FramesApplied ==
    ASSUME TypeOK, NEW m \in udp_down, LogicFrame(m)
    PROVE  \E i \in 1 .. Len(m.unsync_frames) :
              LET u == m.unsync_frames
                  old == frames[m.room][m.seatid]
                  new == frames'[m.room][m.seatid]
              IN
              /\ u[i].frameid > LastFrame(m.room, m.seatid)
              /\ \A j \in 1 .. i - 1 : u[j].frameid <= LastFrame(m.room, m.seatid)
              /\ frames' = [frames EXCEPT ![m.room][m.seatid] = new]
              /\ new \in Seq(FrameOpts)
              /\ Len(new) = Len(old) + Len(u) - i + 1
              /\ \A j \in 1 .. Len(old) : new[j] = old[j]
              /\ \A j \in i .. Len(u) : new[Len(old) + j - i + 1] = u[j]
<1> DEFINE u == m.unsync_frames
           old == frames[m.room][m.seatid]
<1>1. /\ m.room \in Rooms /\ m.seatid \in Seats
      /\ u \in Seq(FrameOpts) /\ old \in Seq(FrameOpts)
      /\ frames \in [Rooms -> [Seats -> Seq(FrameOpts)]]
  BY DEF TypeOK
<1>2. PICK i \in DOMAIN u :
        /\ u[i].frameid > LastFrame(m.room, m.seatid)
        /\ \A j \in 1 .. i - 1 : u[j].frameid <= LastFrame(m.room, m.seatid)
        /\ frames' = [frames EXCEPT ![m.room][m.seatid] = old \o SubSeq(u, i, Len(u))]
  BY DEF LogicFrame
<1> DEFINE tail == SubSeq(u, i, Len(u))
<1> HIDE DEF u, old
<1>3. i \in 1 .. Len(u) /\ Len(u) \in Nat /\ Len(old) \in Nat
  BY <1>1
<1>4. \A j \in i .. Len(u) : u[j] \in FrameOpts
  BY <1>1, <1>3
<1>5. /\ tail \in Seq(FrameOpts)
      /\ Len(tail) = IF i <= Len(u) THEN Len(u) - i + 1 ELSE 0
      /\ \A k \in 1 .. Len(u) - i + 1 : tail[k] = u[i + k - 1]
  BY <1>3, <1>4, SubSeqProperties
<1>6. Len(tail) = Len(u) - i + 1
  BY <1>3, <1>5
<1> DEFINE new == old \o tail
<1> HIDE DEF tail
<1>7. /\ new \in Seq(FrameOpts)
      /\ Len(new) = Len(old) + Len(tail)
      /\ \A j \in 1 .. Len(old) + Len(tail) :
            new[j] = IF j <= Len(old) THEN old[j] ELSE tail[j - Len(old)]
  BY <1>1, <1>5, ConcatProperties
<1>8. frames' = [frames EXCEPT ![m.room][m.seatid] = new]
  BY <1>2 DEF tail
<1> HIDE DEF new
<1>9. frames'[m.room][m.seatid] = new
  BY <1>1, <1>8
<1>10. \A j \in 1 .. Len(old) : new[j] = old[j]
  BY <1>3, <1>6, <1>7
<1>11. ASSUME NEW j \in i .. Len(u) PROVE new[Len(old) + j - i + 1] = u[j]
  <2>1. /\ Len(old) + j - i + 1 \in 1 .. Len(old) + (Len(u) - i + 1)
        /\ ~(Len(old) + j - i + 1 <= Len(old))
        /\ (Len(old) + j - i + 1) - Len(old) = j - i + 1
        /\ j - i + 1 \in 1 .. Len(u) - i + 1
        /\ i + (j - i + 1) - 1 = j
    BY <1>3, Behind
  <2>2. new[Len(old) + j - i + 1] = tail[j - i + 1]
    BY <1>6, <1>7, <2>1
  <2>3. tail[j - i + 1] = u[j]
    BY <1>5, <2>1
  <2> QED
    BY <2>2, <2>3
<1>12. Len(new) = Len(old) + Len(u) - i + 1
  BY <1>3, <1>6, <1>7
<1> QED
  BY <1>2, <1>3, <1>7, <1>8, <1>9, <1>10, <1>11, <1>12 DEF u, old

\* Operations are collected only behind those of the same frame.
LEMMA OperationsTaken ==
    ASSUME TypeOK, NEW m \in udp_up, push_next_frame(m)
    PROVE  \/ next_frame_list' = next_frame_list
           \/ LET old == next_frame_list[listed]
                  new == next_frame_list'[listed]
              IN
              /\ listed \in Rooms
              /\ m.frameid = frameid[listed]
              /\ next_frame_list' = [next_frame_list EXCEPT ![listed] = new]
              /\ new \in BoundedSeq(Opts, MaxOpts)
              /\ Len(new) = Len(old) + Len(m.opts)
              /\ \A i \in 1 .. Len(old) : new[i] = old[i]
              /\ \A i \in 1 .. Len(m.opts) : new[Len(old) + i] = m.opts[i]
<1> DEFINE old == next_frame_list[listed]
           new == old \o m.opts
<1>1. listed \in Rooms /\ m.opts \in Seq(Opts)
  BY DEF TypeOK, push_next_frame
<1>2. old \in Seq(Opts) /\ next_frame_list \in [Rooms -> BoundedSeq(Opts, MaxOpts)]
  BY <1>1, BoundedSeqIs, FrameBounds DEF TypeOK
<1>3. CASE ~ForThisFrame(m, listed)
  BY <1>3 DEF push_next_frame
<1>4. CASE ForThisFrame(m, listed)
  <2>1. /\ next_frame_list' = [next_frame_list EXCEPT ![listed] = new]
        /\ Len(new) <= MaxOpts
    BY <1>4 DEF push_next_frame
  <2>2. next_frame_list'[listed] = new
    BY <1>1, <1>2, <2>1
  <2>3. /\ new \in Seq(Opts)
        /\ Len(new) = Len(old) + Len(m.opts)
        /\ \A i \in 1 .. Len(old) + Len(m.opts) :
              new[i] = IF i <= Len(old) THEN old[i] ELSE m.opts[i - Len(old)]
    BY <1>1, <1>2, ConcatProperties
  <2>4. new \in BoundedSeq(Opts, MaxOpts)
    BY <2>1, <2>3, BoundedSeqIs, FrameBounds
  <2> HIDE DEF new, old
  <2>5. Len(old) \in Nat /\ Len(m.opts) \in Nat
    BY <1>1, <1>2
  <2>6. /\ \A i \in 1 .. Len(old) : new[i] = old[i]
        /\ \A i \in 1 .. Len(m.opts) : new[Len(old) + i] = m.opts[i]
    <3>1. \A i \in 1 .. Len(old) : new[i] = old[i]
      BY <2>3, <2>5
    <3>2. ASSUME NEW i \in 1 .. Len(m.opts) PROVE new[Len(old) + i] = m.opts[i]
      <4>1. /\ Len(old) + i \in 1 .. Len(old) + Len(m.opts)
            /\ ~(Len(old) + i <= Len(old))
            /\ (Len(old) + i) - Len(old) = i
        BY <2>5
      <4> QED
        BY <2>3, <4>1
    <3> QED
      BY <3>1, <3>2
  <2>7. m.frameid = frameid[listed]
    BY <1>4 DEF ForThisFrame
  <2> QED
    BY <1>1, <2>1, <2>2, <2>3, <2>4, <2>6, <2>7 DEF old
<1> QED
  BY <1>3, <1>4

------------------------------------------------------------------------------
(* Every step keeps the invariant                                          *)

LEMMA TypeStep ==
    ASSUME TypeOK, LogNumbered, [Next]_vars
    PROVE  TypeOK'
<1>1. ASSUME NEW r \in Rooms, room_created(r) PROVE TypeOK'
  BY <1>1 DEF TypeOK, room_created, playerVars
<1>2. ASSUME NEW r \in Rooms, game_start(r) PROVE TypeOK'
  <2>1. <<>> \in Seq(FrameOpts) /\ <<>> \in BoundedSeq(Opts, MaxOpts)
    BY EmptySeq, EmptyIsBounded
  <2>2. all_frame_list' \in [Rooms -> Seq(FrameOpts)]
    BY <1>2, <2>1 DEF TypeOK, game_start
  <2>3. next_frame_list' \in [Rooms -> BoundedSeq(Opts, MaxOpts)]
    BY <1>2, <2>1 DEF TypeOK, game_start
  <2>4. frameid' \in [Rooms -> 0 .. MaxFrames + 1]
    BY <1>2, FrameBounds DEF TypeOK, game_start
  <2> QED
    BY <1>2, <2>2, <2>3, <2>4 DEF TypeOK, game_start, playerVars
<1>3. ASSUME NEW r \in Rooms, do_logic_frame_sync(r) PROVE TypeOK'
  <2>1. all_frame_list' \in [Rooms -> Seq(FrameOpts)]
    BY <1>3, FrameEnds DEF TypeOK
  <2>2. frameid' \in [Rooms -> 0 .. MaxFrames + 1]
    <3>1. frameid[r] \in 1 .. MaxFrames
      BY <1>3, FrameEnds
    <3>2. frameid[r] + 1 \in 0 .. MaxFrames + 1
      BY <3>1, FrameBounds
    <3> QED
      BY <1>3, <3>2 DEF TypeOK, do_logic_frame_sync, FrameAfter
  <2>3. next_frame_list' \in [Rooms -> BoundedSeq(Opts, MaxOpts)]
    <3>1. <<>> \in BoundedSeq(Opts, MaxOpts)
      BY EmptySeq, EmptyIsBounded
    <3> QED
      BY <1>3, <3>1 DEF TypeOK, do_logic_frame_sync
  <2>4. ASSUME NEW m \in udp_down', m \notin udp_down
        PROVE  m \in [room : Rooms, seatid : Seats, frameid : 1 .. MaxFrames,
                      unsync_frames : Seq(FrameOpts) \ {<<>>}]
    <3>1. frameid[r] \in 1 .. MaxFrames
      BY <1>3, FrameEnds
    <3>2. m.unsync_frames \in Seq(FrameOpts) \ {<<>>}
      BY <1>3, <2>4, FrameSentSomewhere DEF FrameSentTo
    <3>3. PICK s \in Seats : m = [room |-> r, seatid |-> s, frameid |-> frameid[r],
                                  unsync_frames |-> m.unsync_frames]
      BY <1>3, <2>4, FrameSentSomewhere DEF FrameSentTo
    <3> QED
      BY <3>1, <3>2, <3>3
  <2> QED
    BY <1>3, <2>1, <2>2, <2>3, <2>4 DEF TypeOK, do_logic_frame_sync, playerVars
<1>4. ASSUME NEW m \in udp_up, push_next_frame(m) PROVE TypeOK'
  <2>1. m.seatid \in Seats /\ SyncedBy(m) \in 0 .. MaxFrames
    BY FrameBounds DEF TypeOK, SyncedBy
  <2>2. cur_sync_frame_id' \in [Rooms -> [Seats -> 0 .. MaxFrames]]
    BY <1>4, <2>1 DEF TypeOK, push_next_frame
  <2>3. next_frame_list' \in [Rooms -> BoundedSeq(Opts, MaxOpts)]
    BY <1>4, OperationsTaken DEF TypeOK
  <2> QED
    BY <1>4, <2>2, <2>3 DEF TypeOK, push_next_frame, playerVars
<1>5. ASSUME NEW m \in udp_down, LogicFrame(m) PROVE TypeOK'
  <2>1. m.room \in Rooms /\ m.seatid \in Seats
    BY DEF TypeOK
  <2>2. PICK new \in Seq(FrameOpts) : frames' = [frames EXCEPT ![m.room][m.seatid] = new]
    BY <1>5, FramesApplied
  <2>3. frames' \in [Rooms -> [Seats -> Seq(FrameOpts)]]
    BY <2>1, <2>2 DEF TypeOK
  <2> QED
    BY <1>5, <2>3 DEF TypeOK, LogicFrame, roomVars, playerVars
<1>6. ASSUME NEW r \in Rooms, NEW s \in Seats, NextFrameOpts(r, s) PROVE TypeOK'
  <2> DEFINE op == [room |-> r, seatid |-> s, after |-> LastFrame(r, s)]
  <2>1. LastFrame(r, s) \in 0 .. MaxFrames
    BY LastFrameType
  <2>2. op \in Opts
    BY <2>1 DEF Opts
  <2>3. LastFrame(r, s) + 1 \in 1 .. MaxFrames + 1
    BY <2>1, FrameBounds
  <2>4. <<op>> \in Seq(Opts)
    BY <2>2
  <2> HIDE DEF op
  <2>5. [seatid |-> s, frameid |-> LastFrame(r, s) + 1, opts |-> <<op>>]
          \in [seatid : Seats, frameid : 1 .. MaxFrames + 1, opts : Seq(Opts)]
    BY <2>3, <2>4
  <2>6. udp_up' = udp_up \cup {[seatid |-> s, frameid |-> LastFrame(r, s) + 1, opts |-> <<op>>]}
    BY <1>6 DEF NextFrameOpts, op
  <2> QED
    BY <1>6, <2>5, <2>6 DEF TypeOK, NextFrameOpts, roomVars, playerVars
<1>7. CASE on_gateway_disconnect \/ on_gateway_connect
  BY <1>7 DEF TypeOK, on_gateway_disconnect, on_gateway_connect, roomVars
<1>8. ASSUME NEW r \in Rooms, NEW s \in Seats, on_player_disconnect(r, s) PROVE TypeOK'
  BY <1>8 DEF TypeOK, on_player_disconnect, roomVars
<1>9. ASSUME NEW r \in Rooms, NEW s \in Seats, login_server_enter(r, s) PROVE TypeOK'
  BY <1>9 DEF TypeOK, login_server_enter, roomVars
<1>10. CASE UNCHANGED vars
  BY <1>10 DEF TypeOK, vars, roomVars, playerVars
<1> QED
  BY <1>1, <1>2, <1>3, <1>4, <1>5, <1>6, <1>7, <1>8, <1>9, <1>10 DEF Next

\* Apart from the players' connections, a step is one of a room, of a datagram or of
\* a player that sends, or it changes nothing.
gameVars == <<roomVars, frames, udp_down, udp_up>>

GameStep ==
    \/ \E r \in Rooms : room_created(r) \/ game_start(r) \/ do_logic_frame_sync(r)
    \/ \E m \in udp_up : push_next_frame(m)
    \/ \E m \in udp_down : LogicFrame(m)
    \/ \E r \in Rooms, s \in Seats : NextFrameOpts(r, s)

LEMMA StepIs ==
    ASSUME [Next]_vars
    PROVE  GameStep \/ UNCHANGED gameVars
<1>1. CASE on_gateway_disconnect \/ on_gateway_connect
  BY <1>1 DEF on_gateway_disconnect, on_gateway_connect, gameVars
<1>2. CASE \E r \in Rooms, s \in Seats : on_player_disconnect(r, s) \/ login_server_enter(r, s)
  BY <1>2 DEF on_player_disconnect, login_server_enter, gameVars
<1>3. CASE UNCHANGED vars
  BY <1>3 DEF vars, gameVars
<1> QED
  BY <1>1, <1>2, <1>3 DEF Next, GameStep

LEMMA LogStep ==
    ASSUME TypeOK, LogNumbered, [Next]_vars
    PROVE  LogNumbered'
<1>1. ASSUME NEW r \in Rooms, room_created(r) PROVE LogNumbered'
  BY <1>1 DEF TypeOK, LogNumbered, room_created
<1>2. ASSUME NEW r \in Rooms, game_start(r) PROVE LogNumbered'
  <2>1. /\ all_frame_list' = [all_frame_list EXCEPT ![r] = <<>>]
        /\ frameid' = [frameid EXCEPT ![r] = 1]
        /\ room_state' = [room_state EXCEPT ![r] = "Playing"]
    BY <1>2 DEF game_start
  <2>2. /\ all_frame_list'[r] = <<>> /\ frameid'[r] = 1 /\ room_state'[r] = "Playing"
        /\ \A q \in Rooms : q # r => /\ all_frame_list'[q] = all_frame_list[q]
                                     /\ frameid'[q] = frameid[q]
                                     /\ room_state'[q] = room_state[q]
    BY <2>1 DEF TypeOK
  <2>3. Len(<<>>) = 0
    BY EmptySeq
  <2> QED
    BY <2>2, <2>3 DEF LogNumbered
<1>3. ASSUME NEW r \in Rooms, do_logic_frame_sync(r) PROVE LogNumbered'
  <2> DEFINE n == frameid[r]
  <2>1. /\ n = Len(all_frame_list[r]) + 1 /\ n \in 1 .. MaxFrames
        /\ Len(all_frame_list'[r]) = n
        /\ all_frame_list'[r][n] = [frameid |-> n, opts |-> next_frame_list[r]]
        /\ \A i \in 1 .. Len(all_frame_list[r]) : all_frame_list'[r][i] = all_frame_list[r][i]
    BY <1>3, FrameEnds
  <2>2. Len(all_frame_list[r]) \in Nat
    BY DEF TypeOK
  <2>3. /\ frameid'[r] = n + 1 /\ room_state'[r] = "Playing"
        /\ \A q \in Rooms : q # r => /\ all_frame_list'[q] = all_frame_list[q]
                                     /\ frameid'[q] = frameid[q]
                                     /\ room_state'[q] = room_state[q]
    BY <1>3 DEF TypeOK, do_logic_frame_sync, FrameAfter
  <2>4. ASSUME NEW i \in 1 .. n PROVE all_frame_list'[r][i].frameid = i
    <3>1. CASE i = n
      BY <2>1, <3>1
    <3>2. CASE i # n
      <4>1. i \in 1 .. Len(all_frame_list[r])
        BY <2>1, <2>2, <3>2
      <4> QED
        BY <2>1, <4>1 DEF LogNumbered
    <3> QED
      BY <3>1, <3>2
  <2> QED
    BY <2>1, <2>3, <2>4 DEF LogNumbered
<1>4. CASE UNCHANGED <<room_state, frameid, all_frame_list>>
  BY <1>4 DEF LogNumbered
<1> QED
  BY <1>1, <1>2, <1>3, <1>4, StepIs
     DEF GameStep, push_next_frame, LogicFrame, NextFrameOpts, gameVars, roomVars

\* A log is changed by the end of a frame only.
LEMMA LogGrows ==
    ASSUME TypeOK, LogNumbered, [Next]_vars, NEW r \in Rooms
    PROVE  /\ Len(all_frame_list[r]) \in Nat /\ Len(all_frame_list'[r]) \in Nat
           /\ Len(all_frame_list[r]) <= Len(all_frame_list'[r])
           /\ \A i \in 1 .. Len(all_frame_list[r]) : all_frame_list'[r][i] = all_frame_list[r][i]
<1>1. all_frame_list[r] \in Seq(FrameOpts) /\ all_frame_list'[r] \in Seq(FrameOpts)
  BY TypeStep DEF TypeOK
<1>2. CASE \E q \in Rooms : do_logic_frame_sync(q)
  <2>1. PICK q \in Rooms : do_logic_frame_sync(q)
    BY <1>2
  <2>2. CASE q = r
    <3>1. /\ Len(all_frame_list'[r]) = Len(all_frame_list[r]) + 1
          /\ \A i \in 1 .. Len(all_frame_list[r]) :
                all_frame_list'[r][i] = all_frame_list[r][i]
      BY <2>1, <2>2, FrameEnds
    <3> QED
      BY <1>1, <3>1
  <2>3. CASE q # r
    <3>1. all_frame_list'[r] = all_frame_list[r]
      BY <2>1, <2>3 DEF do_logic_frame_sync, TypeOK
    <3> QED
      BY <1>1, <3>1
  <2> QED
    BY <2>2, <2>3
<1>3. CASE ~\E q \in Rooms : do_logic_frame_sync(q)
  <2>1. all_frame_list'[r] = all_frame_list[r]
    <3>1. ASSUME NEW q \in Rooms, game_start(q) PROVE all_frame_list' = all_frame_list
      <4>1. all_frame_list[q] = <<>>
        BY <3>1 DEF game_start, LogNumbered
      <4> QED
        BY <3>1, <4>1 DEF game_start, TypeOK
    <3> QED
      BY <1>3, <3>1, StepIs
         DEF GameStep, room_created, push_next_frame, LogicFrame, NextFrameOpts, gameVars, roomVars
  <2> QED
    BY <1>1, <2>1
<1> QED
  BY <1>2, <1>3

LEMMA OpsStep ==
    ASSUME TypeOK, LogNumbered, OpsOnTheWay, [Next]_vars
    PROVE  OpsOnTheWay'
<1>1. ASSUME NEW r \in Rooms, room_created(r) PROVE OpsOnTheWay'
  <2>1. \A q \in Rooms : room_state'[q] = "Playing" => room_state[q] = "Playing"
    BY <1>1 DEF room_created, TypeOK
  <2> QED
    BY <1>1, <2>1 DEF OpsOnTheWay, room_created, SyncedBy
<1>2. ASSUME NEW r \in Rooms, game_start(r) PROVE OpsOnTheWay'
  <2>1. /\ all_frame_list'[r] = <<>> /\ next_frame_list'[r] = <<>>
        /\ \A q \in Rooms : q # r => /\ all_frame_list'[q] = all_frame_list[q]
                                     /\ next_frame_list'[q] = next_frame_list[q]
                                     /\ frameid'[q] = frameid[q]
                                     /\ room_state'[q] = room_state[q]
    BY <1>2 DEF game_start, TypeOK
  <2>2. Len(<<>>) = 0 /\ 1 .. 0 = {}
    BY EmptySeq
  <2>3. udp_up' = udp_up
    BY <1>2 DEF game_start
  <2>4. \A q \in Rooms : room_state'[q] = "Playing" =>
          \A i \in 1 .. Len(next_frame_list'[q]) :
             next_frame_list'[q][i].after = frameid'[q] - 1
    BY <2>1, <2>2 DEF OpsOnTheWay
  <2>5. \A q \in Rooms : \A i \in 1 .. Len(all_frame_list'[q]) :
          OpsFor(all_frame_list'[q][i], i)
    BY <2>1, <2>2 DEF OpsOnTheWay
  <2> QED
    BY <2>3, <2>4, <2>5 DEF OpsOnTheWay, SyncedBy
<1>3. ASSUME NEW r \in Rooms, do_logic_frame_sync(r) PROVE OpsOnTheWay'
  <2> DEFINE n == frameid[r]
  <2>1. /\ n = Len(all_frame_list[r]) + 1
        /\ Len(all_frame_list'[r]) = n
        /\ all_frame_list'[r][n] = [frameid |-> n, opts |-> next_frame_list[r]]
        /\ \A i \in 1 .. Len(all_frame_list[r]) : all_frame_list'[r][i] = all_frame_list[r][i]
    BY <1>3, FrameEnds
  <2>2. Len(all_frame_list[r]) \in Nat
    BY DEF TypeOK
  <2>3. /\ next_frame_list'[r] = <<>> /\ room_state[r] = "Playing"
        /\ room_state' = room_state /\ udp_up' = udp_up
        /\ \A q \in Rooms : q # r => /\ all_frame_list'[q] = all_frame_list[q]
                                     /\ next_frame_list'[q] = next_frame_list[q]
                                     /\ frameid'[q] = frameid[q]
    BY <1>3 DEF do_logic_frame_sync, TypeOK
  <2>4. Len(<<>>) = 0 /\ 1 .. 0 = {}
    BY EmptySeq
  <2>5. ASSUME NEW i \in 1 .. n PROVE OpsFor(all_frame_list'[r][i], i)
    <3>1. CASE i = n
      <4>1. \A k \in 1 .. Len(next_frame_list[r]) : next_frame_list[r][k].after = n - 1
        BY <2>3 DEF OpsOnTheWay
      <4>2. all_frame_list'[r][i].opts = next_frame_list[r]
        BY <2>1, <3>1
      <4> QED
        BY <3>1, <4>1, <4>2 DEF OpsFor
    <3>2. CASE i # n
      <4>1. i \in 1 .. Len(all_frame_list[r])
        BY <2>1, <2>2, <3>2
      <4> QED
        BY <2>1, <4>1 DEF OpsOnTheWay
    <3> QED
      BY <3>1, <3>2
  <2>6. \A q \in Rooms : \A i \in 1 .. Len(all_frame_list'[q]) :
          OpsFor(all_frame_list'[q][i], i)
    <3>1. ASSUME NEW q \in Rooms, q # r, NEW i \in 1 .. Len(all_frame_list'[q])
          PROVE  OpsFor(all_frame_list'[q][i], i)
      BY <2>3, <3>1 DEF OpsOnTheWay
    <3> QED
      BY <2>1, <2>5, <3>1
  <2>7. \A q \in Rooms : room_state'[q] = "Playing" =>
          \A i \in 1 .. Len(next_frame_list'[q]) :
             next_frame_list'[q][i].after = frameid'[q] - 1
    BY <2>3, <2>4 DEF OpsOnTheWay
  <2> QED
    BY <2>3, <2>6, <2>7 DEF OpsOnTheWay, SyncedBy
<1>4. ASSUME NEW m \in udp_up, push_next_frame(m) PROVE OpsOnTheWay'
  <2>1. /\ room_state' = room_state /\ frameid' = frameid
        /\ all_frame_list' = all_frame_list /\ udp_up' = udp_up
    BY <1>4 DEF push_next_frame
  <2>2. CASE next_frame_list' = next_frame_list
    BY <2>1, <2>2 DEF OpsOnTheWay, SyncedBy
  <2>3. CASE next_frame_list' # next_frame_list
    <3> DEFINE old == next_frame_list[listed]
    <3>1. PICK new \in BoundedSeq(Opts, MaxOpts) :
            /\ listed \in Rooms
            /\ m.frameid = frameid[listed]
            /\ next_frame_list' = [next_frame_list EXCEPT ![listed] = new]
            /\ Len(new) = Len(old) + Len(m.opts)
            /\ \A i \in 1 .. Len(old) : new[i] = old[i]
            /\ \A i \in 1 .. Len(m.opts) : new[Len(old) + i] = m.opts[i]
      BY <1>4, <2>3, OperationsTaken
    <3>2. Len(old) \in Nat /\ Len(m.opts) \in Nat
      <4>1. old \in Seq(Opts) /\ m.opts \in Seq(Opts)
        BY <3>1, BoundedSeqIs, FrameBounds DEF TypeOK
      <4> QED
        BY <4>1
    <3>3. room_state[listed] = "Playing"
      BY <1>4 DEF push_next_frame
    <3>4. ASSUME NEW i \in 1 .. Len(new) PROVE new[i].after = frameid[listed] - 1
      <4>1. CASE i <= Len(old)
        <5>1. i \in 1 .. Len(old)
          BY <3>2, <4>1
        <5> QED
          BY <3>1, <3>3, <5>1 DEF OpsOnTheWay
      <4>2. CASE ~(i <= Len(old))
        <5>1. PICK k \in 1 .. Len(m.opts) : Len(old) + k = i
          BY <3>1, <3>2, <4>2, FromBehind
        <5>2. m.opts[k].after = m.frameid - 1
          BY <5>1 DEF OpsOnTheWay, SyncedBy
        <5> QED
          BY <3>1, <5>1, <5>2
      <4> QED
        BY <4>1, <4>2
    <3>5. /\ next_frame_list'[listed] = new
          /\ \A q \in Rooms : q # listed => next_frame_list'[q] = next_frame_list[q]
      BY <3>1 DEF TypeOK
    <3> QED
      BY <2>1, <3>4, <3>5 DEF OpsOnTheWay, SyncedBy
  <2> QED
    BY <2>2, <2>3
<1>5. ASSUME NEW r \in Rooms, NEW s \in Seats, NextFrameOpts(r, s) PROVE OpsOnTheWay'
  <2> DEFINE last == LastFrame(r, s)
             op == [room |-> r, seatid |-> s, after |-> last]
             d == [seatid |-> s, frameid |-> last + 1, opts |-> <<op>>]
  <2>1. /\ udp_up' = udp_up \cup {d}
        /\ room_state' = room_state /\ frameid' = frameid
        /\ all_frame_list' = all_frame_list /\ next_frame_list' = next_frame_list
    BY <1>5 DEF NextFrameOpts, roomVars
  <2>2. last \in Nat
    BY LastFrameType, FrameBounds
  <2>3. ASSUME NEW i \in 1 .. Len(d.opts) PROVE d.opts[i].after = d.frameid - 1
    <3> HIDE DEF last
    <3>1. i = 1 /\ d.opts[1].after = last /\ d.frameid = last + 1
      OBVIOUS
    <3> QED
      BY <2>2, <3>1
  <2> HIDE DEF d
  <2> QED
    BY <2>1, <2>3 DEF OpsOnTheWay, SyncedBy
<1>6. CASE UNCHANGED <<room_state, frameid, all_frame_list, next_frame_list, udp_up>>
  BY <1>6 DEF OpsOnTheWay, SyncedBy
<1> QED
  BY <1>1, <1>2, <1>3, <1>4, <1>5, <1>6, StepIs DEF GameStep, LogicFrame, gameVars, roomVars

LEMMA DatagramStep ==
    ASSUME TypeOK, LogNumbered, DatagramsOfLog, [Next]_vars
    PROVE  DatagramsOfLog'
<1>1. TypeOK' /\ LogNumbered'
  BY TypeStep, LogStep
<1>2. ASSUME NEW m \in udp_down, NEW i \in 1 .. Len(m.unsync_frames)
      PROVE  LET f == m.unsync_frames[i].frameid IN
             /\ f = m.unsync_frames[1].frameid + i - 1
             /\ f <= Len(all_frame_list'[m.room])
             /\ m.unsync_frames[i] = all_frame_list'[m.room][f]
  <2> DEFINE f == m.unsync_frames[i].frameid
  <2>1. m.room \in Rooms /\ m.unsync_frames[i] \in FrameOpts
    BY DEF TypeOK
  <2>2. f \in 1 .. MaxFrames
    BY <2>1, FrameIs
  <2>3. /\ f = m.unsync_frames[1].frameid + i - 1
        /\ f <= Len(all_frame_list[m.room])
        /\ m.unsync_frames[i] = all_frame_list[m.room][f]
    BY DEF DatagramsOfLog
  <2> HIDE DEF f
  <2>4. f \in 1 .. Len(all_frame_list[m.room]) /\ f <= Len(all_frame_list'[m.room])
    BY <2>1, <2>2, <2>3, LogGrows, FrameBounds
  <2>5. all_frame_list'[m.room][f] = all_frame_list[m.room][f]
    BY <2>1, <2>4, LogGrows
  <2> QED
    BY <2>3, <2>4, <2>5 DEF f
<1>3. ASSUME NEW r \in Rooms, do_logic_frame_sync(r), NEW m \in udp_down', m \notin udp_down,
             NEW i \in 1 .. Len(m.unsync_frames)
      PROVE  LET f == m.unsync_frames[i].frameid IN
             /\ f = m.unsync_frames[1].frameid + i - 1
             /\ f <= Len(all_frame_list'[m.room])
             /\ m.unsync_frames[i] = all_frame_list'[m.room][f]
  <2>1. PICK s \in Seats : FrameSentTo(m, r, s)
    BY <1>3, FrameSentSomewhere
  <2> DEFINE c == cur_sync_frame_id[r][s]
             n == Len(all_frame_list'[r])
  <2>2. c \in Nat /\ n \in Nat
    BY <1>1, FrameBounds DEF TypeOK
  <2>3. m.room = r /\ Len(m.unsync_frames) = n - c
    BY <2>1 DEF FrameSentTo
  <2>4. \A j \in 1 .. n - c : m.unsync_frames[j] = all_frame_list'[r][c + j]
    BY <2>1, <2>3 DEF FrameSentTo
  <2> HIDE DEF c, n
  <2>5. ASSUME NEW j \in 1 .. n - c PROVE c + j \in 1 .. n
    BY <2>2
  <2>6. ASSUME NEW j \in 1 .. n - c PROVE m.unsync_frames[j].frameid = c + j
    BY <1>1, <2>4, <2>5 DEF LogNumbered, n
  <2>7. i \in 1 .. n - c /\ 1 \in 1 .. n - c
    BY <2>2, <2>3
  <2>8. m.unsync_frames[i].frameid = c + i /\ m.unsync_frames[1].frameid = c + 1
    BY <2>6, <2>7
  <2>9. c + i <= n /\ c + i = (c + 1) + i - 1
    BY <2>2, <2>5, <2>7
  <2> QED
    BY <2>3, <2>4, <2>7, <2>8, <2>9 DEF n
<1>4. ASSUME NEW m \in udp_down', m \notin udp_down
      PROVE  \E r \in Rooms : do_logic_frame_sync(r)
  BY <1>4, StepIs DEF GameStep, room_created, game_start, push_next_frame, LogicFrame,
              NextFrameOpts, gameVars, roomVars
<1> QED
  BY <1>2, <1>3, <1>4 DEF DatagramsOfLog

\* A player that has applied a beginning of the log has applied a longer one
\* after a LogicFrame step.
LEMMA MoreLearnt ==
    ASSUME TypeOK, LogNumbered, DatagramsOfLog, NEW m \in udp_down, LogicFrame(m),
           BeginningApplied(m.room)
    PROVE  \E new \in Seq(FrameOpts) :
              /\ frames' = [frames EXCEPT ![m.room][m.seatid] = new]
              /\ Len(new) > Len(frames[m.room][m.seatid])
              /\ Len(new) <= Len(all_frame_list[m.room])
              /\ \A k \in 1 .. Len(new) : new[k] = all_frame_list[m.room][k]
<1> DEFINE u == m.unsync_frames
           old == frames[m.room][m.seatid]
           log == all_frame_list[m.room]
<1>1. /\ m.room \in Rooms /\ m.seatid \in Seats
      /\ u \in Seq(FrameOpts) /\ old \in Seq(FrameOpts) /\ log \in Seq(FrameOpts)
  BY DEF TypeOK
<1>2. PICK i \in 1 .. Len(u), new \in Seq(FrameOpts) :
        /\ u[i].frameid > Len(old)
        /\ \A j \in 1 .. i - 1 : u[j].frameid <= Len(old)
        /\ frames' = [frames EXCEPT ![m.room][m.seatid] = new]
        /\ Len(new) = Len(old) + Len(u) - i + 1
        /\ \A j \in 1 .. Len(old) : new[j] = old[j]
        /\ \A j \in i .. Len(u) : new[Len(old) + j - i + 1] = u[j]
  <2>1. LastFrame(m.room, m.seatid) = Len(old)
    BY <1>1, LastFrameIsLen
  <2>2. PICK i \in 1 .. Len(u) :
          /\ u[i].frameid > LastFrame(m.room, m.seatid)
          /\ \A j \in 1 .. i - 1 : u[j].frameid <= LastFrame(m.room, m.seatid)
          /\ frames' = [frames EXCEPT ![m.room][m.seatid] = frames'[m.room][m.seatid]]
          /\ frames'[m.room][m.seatid] \in Seq(FrameOpts)
          /\ Len(frames'[m.room][m.seatid]) = Len(old) + Len(u) - i + 1
          /\ \A j \in 1 .. Len(old) : frames'[m.room][m.seatid][j] = old[j]
          /\ \A j \in i .. Len(u) : frames'[m.room][m.seatid][Len(old) + j - i + 1] = u[j]
    BY FramesApplied
  <2>3. PICK new : new = frames'[m.room][m.seatid]
    OBVIOUS
  <2> HIDE DEF u, old
  <2> QED
    BY <2>1, <2>2, <2>3
<1>3. \A j \in 1 .. Len(u) : /\ u[j].frameid = u[1].frameid + j - 1
                             /\ u[j].frameid <= Len(log)
                             /\ u[j] = log[u[j].frameid]
  BY DEF DatagramsOfLog
<1>4. u[1].frameid <= Len(old) + 1
  BY DEF BeginningApplied
<1>5. /\ Len(old) <= Len(log)
      /\ \A k \in 1 .. Len(old) : old[k] = log[k]
  BY <1>1 DEF BeginningApplied
<1> HIDE DEF u, old, log
<1>6. Len(old) \in Nat /\ Len(u) \in Nat /\ Len(log) \in Nat
  BY <1>1
<1>7. u[1].frameid \in Nat
  <2>1. 1 \in 1 .. Len(u)
    BY <1>6
  <2>2. u[1] \in FrameOpts
    BY <1>1, <2>1
  <2> QED
    BY <2>2, FrameIs, FrameBounds
<1>8. u[1].frameid + i - 1 = Len(old) + 1
  <2>1. u[1].frameid + i - 1 > Len(old)
    BY <1>2, <1>3
  <2>2. CASE i = 1
    BY <1>4, <1>6, <1>7, <2>1, <2>2
  <2>3. CASE i # 1
    <3>1. i - 1 \in 1 .. i - 1 /\ i - 1 \in 1 .. Len(u)
      BY <1>6, <2>3
    <3>2. u[i - 1].frameid <= Len(old) /\ u[i - 1].frameid = u[1].frameid + (i - 1) - 1
      BY <1>2, <1>3, <3>1
    <3> QED
      BY <1>6, <1>7, <2>1, <3>2
  <2> QED
    BY <2>2, <2>3
<1>9. ASSUME NEW j \in i .. Len(u)
      PROVE  /\ u[j].frameid = Len(old) + j - i + 1
             /\ Len(old) + j - i + 1 <= Len(log)
             /\ new[Len(old) + j - i + 1] = log[Len(old) + j - i + 1]
  <2>1. j \in 1 .. Len(u)
    BY <1>6
  <2>2. u[j].frameid = u[1].frameid + j - 1
    BY <1>3, <2>1
  <2>3. u[1].frameid + j - 1 = Len(old) + j - i + 1
    <3> DEFINE a == u[1].frameid
               n == Len(old)
    <3>1. i \in Nat /\ j \in Nat /\ a \in Nat /\ n \in Nat
      BY <1>6, <1>7
    <3>2. a + i - 1 = n + 1
      BY <1>8
    <3> HIDE DEF a, n
    <3>3. a + j - 1 = n + j - i + 1
      BY <3>1, <3>2, Shift
    <3> QED
      BY <3>3 DEF a, n
  <2> QED
    BY <1>2, <1>3, <2>1, <2>2, <2>3
<1>10. Len(new) > Len(old) /\ Len(new) <= Len(log)
  <2>1. Len(u) \in i .. Len(u)
    BY <1>6
  <2>2. Len(old) + Len(u) - i + 1 <= Len(log)
    BY <1>9, <2>1
  <2> QED
    BY <1>2, <1>6, <2>2
<1>11. ASSUME NEW k \in 1 .. Len(new) PROVE new[k] = log[k]
  <2>1. CASE k <= Len(old)
    <3>1. k \in 1 .. Len(old)
      BY <1>6, <2>1
    <3> QED
      BY <1>2, <1>5, <3>1
  <2>2. CASE ~(k <= Len(old))
    <3>1. /\ Len(old) \in Nat /\ Len(u) \in Nat /\ i \in 1 .. Len(u)
          /\ k \in 1 .. Len(old) + Len(u) - i + 1
      BY <1>2, <1>6
    <3>2. PICK j \in i .. Len(u) : Len(old) + j - i + 1 = k
      BY <2>2, <3>1, FromTail
    <3> QED
      BY <1>9, <3>2
  <2> QED
    BY <2>1, <2>2
<1> QED
  BY <1>2, <1>10, <1>11 DEF u, old, log

\* Rooms are made one after the other, each when the one before plays.
LEMMA OthersStep ==
    ASSUME TypeOK, NEW g \in FirstGames, OthersLater(g), [Next]_vars
    PROVE  OthersLater(g)'
<1>1. g \in Rooms /\ g # 0 /\ \A r \in Rooms \ {g} : g < r
  BY RoomsAssumption DEF FirstGames
<1>2. ASSUME NEW q \in Rooms, room_created(q) PROVE OthersLater(g)'
  <2>1. /\ room_state' = [room_state EXCEPT ![q] = "InView"]
        /\ listed' = q /\ room_state[q] = "new"
        /\ \A p \in Rooms : p < q => room_state[p] = "Playing"
    BY <1>2 DEF room_created
  <2>2. CASE q = g
    BY <1>1, <2>1, <2>2 DEF OthersLater, TypeOK
  <2>3. CASE q # g
    <3>1. room_state[g] = "Playing" /\ q \notin {0, g}
      BY <1>1, <2>1, <2>3, RoomsAssumption
    <3> QED
      BY <2>1, <2>3, <3>1, <1>1 DEF OthersLater, TypeOK
  <2> QED
    BY <2>2, <2>3
<1>3. ASSUME NEW q \in Rooms, game_start(q) PROVE OthersLater(g)'
  <2>1. /\ room_state' = [room_state EXCEPT ![q] = "Playing"]
        /\ listed' = listed /\ room_state[q] = "InView"
    BY <1>3 DEF game_start
  <2> QED
    BY <1>1, <2>1 DEF OthersLater, TypeOK
<1>4. CASE UNCHANGED <<listed, room_state>>
  BY <1>4 DEF OthersLater
<1> QED
  BY <1>2, <1>3, <1>4, StepIs DEF GameStep, do_logic_frame_sync, push_next_frame, LogicFrame,
                          NextFrameOpts, gameVars, roomVars

LEMMA BeginningStep ==
    ASSUME TypeOK, LogNumbered, DatagramsOfLog, NEW g \in FirstGames, OthersLater(g),
           BeginningApplied(g), [Next]_vars
    PROVE  BeginningApplied(g)'
<1>1. TypeOK' /\ LogNumbered' /\ g \in Rooms /\ g # 0
  BY TypeStep, LogStep, RoomsAssumption DEF FirstGames
<1>2. \A s \in Seats : Len(frames[g][s]) \in Nat
  BY <1>1 DEF TypeOK
<1>3. listed' \in {0, g} => listed \in {0, g}
  <2>1. ASSUME NEW q \in Rooms, room_created(q), q = g
        PROVE  listed \in {0, g}
    BY <2>1 DEF room_created, OthersLater, BeginningApplied, TypeOK
  <2>2. ASSUME NEW q \in Rooms, room_created(q) PROVE listed' = q /\ q # 0
    BY <2>2, RoomsAssumption DEF room_created
  <2> QED
    BY <2>1, <2>2, StepIs DEF GameStep, game_start, do_logic_frame_sync, push_next_frame, LogicFrame,
                      NextFrameOpts, gameVars, roomVars
<1>4. CASE frames' = frames
  <2>1. ASSUME NEW s \in Seats
        PROVE  /\ Len(frames[g][s]) <= Len(all_frame_list'[g])
               /\ \A i \in 1 .. Len(frames[g][s]) : frames[g][s][i] = all_frame_list'[g][i]
    <3>1. Len(frames[g][s]) <= Len(all_frame_list[g])
      BY DEF BeginningApplied
    <3>2. Len(frames[g][s]) <= Len(all_frame_list'[g])
      BY <1>1, <1>2, <3>1, LogGrows
    <3>3. ASSUME NEW i \in 1 .. Len(frames[g][s]) PROVE frames[g][s][i] = all_frame_list'[g][i]
      <4>1. i \in 1 .. Len(all_frame_list[g])
        BY <1>1, <1>2, <3>1, LogGrows
      <4>2. all_frame_list'[g][i] = all_frame_list[g][i]
        BY <1>1, <4>1, LogGrows
      <4> QED
        BY <4>2 DEF BeginningApplied
    <3> QED
      BY <3>2, <3>3
  <2>2. ASSUME NEW s \in Seats
        PROVE  cur_sync_frame_id'[g][s] <= Len(frames[g][s])
    <3>1. ASSUME NEW m \in udp_up, push_next_frame(m),
                 cur_sync_frame_id'[g][s] # cur_sync_frame_id[g][s]
          PROVE  cur_sync_frame_id'[g][s] <= Len(frames[g][s])
      <4>1. m.seatid \in Seats /\ listed \in Rooms
        BY <3>1 DEF TypeOK, push_next_frame
      <4>2. listed = g
        BY <1>1, <3>1, <4>1 DEF push_next_frame, TypeOK
      <4>3. cur_sync_frame_id'[g][s] = SyncedBy(m) /\ s = m.seatid
        BY <3>1, <4>1, <4>2 DEF push_next_frame, TypeOK
      <4> QED
        BY <4>2, <4>3 DEF BeginningApplied
    <3>2. (~\E m \in udp_up : push_next_frame(m)) => cur_sync_frame_id' = cur_sync_frame_id
      BY StepIs DEF GameStep, room_created, game_start, do_logic_frame_sync, LogicFrame,
             NextFrameOpts, gameVars, roomVars
    <3> QED
      BY <3>1, <3>2 DEF BeginningApplied
  <2>3. ASSUME NEW m \in udp_down', m.room = g
        PROVE  m.unsync_frames[1].frameid <= Len(frames[g][m.seatid]) + 1
    <3>1. CASE m \in udp_down
      BY <2>3, <3>1 DEF BeginningApplied
    <3>2. CASE m \notin udp_down
      <4>1. PICK r \in Rooms : do_logic_frame_sync(r)
        BY <3>2, StepIs DEF GameStep, room_created, game_start, push_next_frame, LogicFrame,
                    NextFrameOpts, gameVars, roomVars
      <4>2. PICK s \in Seats : FrameSentTo(m, r, s)
        BY <3>2, <4>1, FrameSentSomewhere
      <4>3. r = g
        BY <2>3, <4>2 DEF FrameSentTo
      <4> DEFINE c == cur_sync_frame_id[g][s]
                 n == Len(all_frame_list'[g])
      <4>4. c \in Nat /\ n \in Nat /\ Len(m.unsync_frames) \in Nat \ {0}
        <5>1. m.unsync_frames \in Seq(FrameOpts) /\ m.unsync_frames # <<>>
          BY <4>2 DEF FrameSentTo
        <5>2. Len(m.unsync_frames) \in Nat \ {0}
          BY <5>1, EmptySeq
        <5>3. c \in 0 .. MaxFrames /\ all_frame_list'[g] \in Seq(FrameOpts)
          BY <1>1 DEF TypeOK
        <5> QED
          BY <5>2, <5>3, FrameBounds
      <4>5. m.seatid = s /\ Len(m.unsync_frames) = n - c
        BY <4>2, <4>3 DEF FrameSentTo
      <4>6. 1 \in 1 .. Len(m.unsync_frames)
        BY <4>4
      <4>7. m.unsync_frames[1] = all_frame_list'[g][c + 1]
        BY <4>2, <4>3, <4>6 DEF FrameSentTo
      <4>8. c <= Len(frames[g][s])
        BY DEF BeginningApplied
      <4> HIDE DEF c, n
      <4>9. c + 1 \in 1 .. n
        BY <4>4, <4>5
      <4>10. m.unsync_frames[1].frameid = c + 1
        BY <1>1, <4>7, <4>9 DEF LogNumbered, n
      <4> QED
        BY <1>2, <4>4, <4>5, <4>8, <4>10
    <3> QED
      BY <3>1, <3>2
  <2>4. ASSUME NEW m \in udp_up', listed' \in {0, g}
        PROVE  SyncedBy(m) <= Len(frames[g][m.seatid])
    <3>1. CASE m \in udp_up
      BY <1>3, <2>4, <3>1 DEF BeginningApplied
    <3>2. CASE m \notin udp_up
      <4>1. PICK q \in Rooms, s \in Seats : NextFrameOpts(q, s)
        BY <3>2, StepIs DEF GameStep, room_created, game_start, do_logic_frame_sync, push_next_frame,
                    LogicFrame, gameVars, roomVars
      <4>2. m.seatid = s /\ m.frameid = LastFrame(q, s) + 1 /\ room_state[q] = "Playing"
        BY <3>2, <4>1 DEF NextFrameOpts
      <4>3. q = g
        BY <1>3, <2>4, <4>2 DEF OthersLater
      <4>4. LastFrame(g, s) = Len(frames[g][s])
        BY <1>1, LastFrameIsLen
      <4> QED
        BY <1>2, <4>2, <4>3, <4>4 DEF SyncedBy
    <3> QED
      BY <3>1, <3>2
  <2> QED
    BY <1>4, <2>1, <2>2, <2>3, <2>4 DEF BeginningApplied, SyncedBy
<1>5. CASE frames' # frames
  <2>1. PICK m \in udp_down : LogicFrame(m)
    BY <1>5, StepIs DEF GameStep, room_created, game_start, do_logic_frame_sync, push_next_frame,
                NextFrameOpts, gameVars, roomVars
  <2>2. /\ all_frame_list' = all_frame_list /\ cur_sync_frame_id' = cur_sync_frame_id
        /\ udp_down' = udp_down /\ udp_up' = udp_up /\ listed' = listed
    BY <2>1 DEF LogicFrame, roomVars
  <2>3. m.room \in Rooms /\ m.seatid \in Seats
    BY DEF TypeOK
  <2>4. ASSUME NEW s \in Seats
        PROVE  /\ Len(frames[g][s]) <= Len(frames'[g][s])
               /\ Len(frames'[g][s]) <= Len(all_frame_list[g])
               /\ \A i \in 1 .. Len(frames'[g][s]) : frames'[g][s][i] = all_frame_list[g][i]
               /\ Len(frames'[g][s]) \in Nat
    <3>1. CASE m.room = g
      <4>1. PICK new \in Seq(FrameOpts) :
              /\ frames' = [frames EXCEPT ![g][m.seatid] = new]
              /\ Len(new) > Len(frames[g][m.seatid])
              /\ Len(new) <= Len(all_frame_list[g])
              /\ \A k \in 1 .. Len(new) : new[k] = all_frame_list[g][k]
        BY <2>1, <3>1, MoreLearnt
      <4>2. (s = m.seatid /\ frames'[g][s] = new) \/ frames'[g][s] = frames[g][s]
        BY <1>1, <2>3, <4>1 DEF TypeOK
      <4>3. Len(new) \in Nat
        BY <4>1
      <4> QED
        BY <1>2, <4>1, <4>2, <4>3 DEF BeginningApplied
    <3>2. CASE m.room # g
      <4>1. PICK new \in Seq(FrameOpts) : frames' = [frames EXCEPT ![m.room][m.seatid] = new]
        BY <2>1, FramesApplied
      <4>2. frames'[g][s] = frames[g][s]
        BY <1>1, <2>3, <3>2, <4>1 DEF TypeOK
      <4> QED
        BY <1>2, <4>2 DEF BeginningApplied
    <3> QED
      BY <3>1, <3>2
  <2>5. ASSUME NEW s \in Seats
        PROVE  cur_sync_frame_id[g][s] <= Len(frames'[g][s])
    <3>1. cur_sync_frame_id[g][s] <= Len(frames[g][s]) /\ cur_sync_frame_id[g][s] \in Nat
      BY <1>1, FrameBounds DEF BeginningApplied, TypeOK
    <3> QED
      BY <1>2, <2>4, <3>1
  <2>6. ASSUME NEW d \in udp_down, d.room = g
        PROVE  d.unsync_frames[1].frameid <= Len(frames'[g][d.seatid]) + 1
    <3>1. d.seatid \in Seats /\ Len(d.unsync_frames) \in Nat \ {0}
      BY EmptySeq DEF TypeOK
    <3>2. 1 \in 1 .. Len(d.unsync_frames)
      BY <3>1
    <3>3. d.unsync_frames[1] \in FrameOpts
      BY <3>2 DEF TypeOK
    <3>4. d.unsync_frames[1].frameid \in Nat
      BY <3>3, FrameIs, FrameBounds
    <3>5. d.unsync_frames[1].frameid <= Len(frames[g][d.seatid]) + 1
      BY <2>6 DEF BeginningApplied
    <3> QED
      BY <1>2, <2>4, <3>1, <3>4, <3>5, StillBelow
  <2>7. ASSUME NEW d \in udp_up, listed \in {0, g}
        PROVE  SyncedBy(d) <= Len(frames'[g][d.seatid])
    <3>1. d.seatid \in Seats /\ SyncedBy(d) \in Nat
      <4>1. d.seatid \in Seats /\ d.frameid \in 1 .. MaxFrames + 1
        BY DEF TypeOK
      <4> QED
        BY <4>1, FrameBounds DEF SyncedBy
    <3>2. SyncedBy(d) <= Len(frames[g][d.seatid])
      BY <2>7 DEF BeginningApplied
    <3> QED
      BY <1>2, <2>4, <3>1, <3>2
  <2> QED
    BY <2>2, <2>4, <2>5, <2>6, <2>7 DEF BeginningApplied, SyncedBy
<1> QED
  BY <1>4, <1>5

\* The last frame a player applied is its newest, in every room.
LEMMA LastIsNewest ==
    ASSUME TypeOK, AppliedFromLog, NEW r \in Rooms, NEW s \in Seats,
           NEW i \in 1 .. Len(frames[r][s])
    PROVE  frames[r][s][i].frameid <= LastFrame(r, s)
<1>1. frames[r][s] \in Seq(FrameOpts) /\ frames[r][s] # <<>>
  <2>1. frames[r][s] \in Seq(FrameOpts)
    BY DEF TypeOK
  <2> QED
    BY <2>1, EmptySeq
<1>2. PICK n \in Nat : n = Len(frames[r][s]) /\ i <= n /\ n \in 1 .. Len(frames[r][s])
  BY <1>1
<1>3. LastFrame(r, s) = frames[r][s][n].frameid
  BY <1>1, <1>2 DEF LastFrame, Last
<1>4. LastFrame(r, s) \in Nat
  BY LastFrameType, FrameBounds
<1>5. CASE i = n
  BY <1>3, <1>4, <1>5
<1>6. CASE i # n
  <2>1. i \in 1 .. n - 1
    BY <1>2, <1>6
  <2>2. frames[r][s][i].frameid < frames[r][s][n].frameid
    BY <1>2, <2>1 DEF AppliedFromLog
  <2>3. frames[r][s][i].frameid \in 1 .. Len(all_frame_list[r])
    BY DEF AppliedFromLog
  <2> QED
    BY <1>3, <1>4, <2>2, <2>3
<1> QED
  BY <1>5, <1>6

\* A LogicFrame adds frames of the log, newer than all the player has.
LEMMA AppliedLogicFrame ==
    ASSUME TypeOK, DatagramsOfLog, AppliedFromLog, NEW m \in udp_down, LogicFrame(m)
    PROVE  AppliedFromLog'
<1>1. PICK r \in Rooms, s \in Seats, u \in Seq(FrameOpts) :
        r = m.room /\ s = m.seatid /\ u = m.unsync_frames
  BY DEF TypeOK
<1>2. PICK old \in Seq(FrameOpts), log \in Seq(FrameOpts), last \in Nat :
        old = frames[r][s] /\ log = all_frame_list[r] /\ last = LastFrame(r, s)
  <2>1. frames[r][s] \in Seq(FrameOpts) /\ all_frame_list[r] \in Seq(FrameOpts)
    BY DEF TypeOK
  <2>2. LastFrame(r, s) \in Nat
    BY LastFrameType, FrameBounds
  <2> QED
    BY <2>1, <2>2
<1>3. PICK i \in 1 .. Len(u), new \in Seq(FrameOpts) :
        /\ u[i].frameid > last
        /\ frames' = [frames EXCEPT ![r][s] = new]
        /\ Len(new) = Len(old) + Len(u) - i + 1
        /\ \A j \in 1 .. Len(old) : new[j] = old[j]
        /\ \A j \in i .. Len(u) : new[Len(old) + j - i + 1] = u[j]
  <2>1. PICK i \in 1 .. Len(u) :
          /\ u[i].frameid > last
          /\ frames' = [frames EXCEPT ![r][s] = frames'[r][s]]
          /\ frames'[r][s] \in Seq(FrameOpts)
          /\ Len(frames'[r][s]) = Len(old) + Len(u) - i + 1
          /\ \A j \in 1 .. Len(old) : frames'[r][s][j] = old[j]
          /\ \A j \in i .. Len(u) : frames'[r][s][Len(old) + j - i + 1] = u[j]
    BY <1>1, <1>2, FramesApplied
  <2>2. PICK new : new = frames'[r][s]
    OBVIOUS
  <2> QED
    BY <2>1, <2>2
<1>4. PICK a \in Nat : a = u[1].frameid
  <2>1. 1 \in 1 .. Len(u)
    BY <1>3
  <2>2. u[1] \in FrameOpts
    BY <2>1
  <2> QED
    BY <2>2, FrameIs, FrameBounds
<1>5. \A j \in 1 .. Len(u) : /\ u[j].frameid = a + j - 1
                             /\ u[j].frameid <= Len(log)
                             /\ u[j] = log[u[j].frameid]
  BY <1>1, <1>2, <1>4 DEF DatagramsOfLog
<1>6. Len(old) \in Nat /\ Len(u) \in Nat /\ Len(log) \in Nat /\ Len(new) \in Nat
  OBVIOUS
<1>7. a + i - 1 > last
  BY <1>3, <1>5
<1>8. ASSUME NEW k \in 1 .. Len(old)
      PROVE  /\ new[k] = old[k] /\ old[k].frameid <= last
             /\ old[k].frameid \in 1 .. Len(log)
             /\ old[k] = log[old[k].frameid]
             /\ \A l \in 1 .. k - 1 : old[l].frameid < old[k].frameid
  BY <1>2, <1>3, <1>8, LastIsNewest DEF AppliedFromLog
<1>9. ASSUME NEW k \in 1 .. Len(new), ~(k <= Len(old))
      PROVE  /\ new[k].frameid = a + k - Len(old) + i - 2
             /\ new[k].frameid > last
             /\ new[k].frameid \in 1 .. Len(log)
             /\ new[k] = log[new[k].frameid]
  <2>1. k \in 1 .. Len(old) + Len(u) - i + 1
    BY <1>3
  <2>2. PICK j \in i .. Len(u) : Len(old) + j - i + 1 = k
    BY <1>6, <1>9, <2>1, FromTail
  <2>3. new[Len(old) + j - i + 1] = u[j]
    BY <1>3
  <2>4. new[k] = u[j]
    BY <2>2, <2>3
  <2>5. j \in 1 .. Len(u) /\ a + j - 1 = a + k - Len(old) + i - 2
    <3>1. i \in Nat /\ j \in Nat /\ j \in 1 .. Len(u)
      BY <1>6
    <3>2. j = k - Len(old) + i - 1
      BY <1>6, <2>2, <3>1
    <3>3. a + j - 1 = a + (k - Len(old) + i - 1) - 1
      BY <3>2
    <3> QED
      BY <1>6, <3>1, <3>3
  <2>6. /\ u[j].frameid = a + j - 1 /\ u[j].frameid <= Len(log)
        /\ u[j] = log[u[j].frameid]
    BY <1>5, <2>5
  <2>7. u[j].frameid > last /\ u[j].frameid \in 1 .. Len(log)
    BY <1>6, <1>7, <2>6, NewerId
  <2> QED
    BY <2>4, <2>5, <2>6, <2>7
<1>10. ASSUME NEW k \in 1 .. Len(new)
       PROVE  /\ new[k].frameid \in 1 .. Len(log)
              /\ new[k] = log[new[k].frameid]
              /\ \A l \in 1 .. k - 1 : new[l].frameid < new[k].frameid
  <2>1. CASE k <= Len(old)
    <3>1. k \in 1 .. Len(old) /\ \A l \in 1 .. k - 1 : l \in 1 .. Len(old)
      BY <1>6, <2>1
    <3> QED
      BY <1>8, <3>1
  <2>2. CASE ~(k <= Len(old))
    <3>1. ASSUME NEW l \in 1 .. k - 1
          PROVE  new[l].frameid < new[k].frameid
      <4>1. l \in 1 .. Len(new) /\ Len(new) \in Nat
        BY <1>3, <1>6
      <4>2. CASE l <= Len(old)
        <5>1. l \in 1 .. Len(old)
          BY <1>6, <4>2
        <5>2. new[l].frameid <= last /\ new[l].frameid \in Nat
          BY <1>8, <5>1
        <5>3. new[k].frameid > last /\ new[k].frameid \in Nat
          BY <1>9, <2>2
        <5> QED
          BY <5>2, <5>3
      <4>3. CASE ~(l <= Len(old))
        <5>1. /\ new[l].frameid = a + l - Len(old) + i - 2
              /\ new[k].frameid = a + k - Len(old) + i - 2
          BY <1>9, <2>2, <4>1, <4>3
        <5> QED
          BY <1>6, <4>1, <5>1
      <4> QED
        BY <4>2, <4>3
    <3> QED
      BY <1>9, <2>2, <3>1
  <2> QED
    BY <2>1, <2>2
<1>11. all_frame_list' = all_frame_list
  BY DEF LogicFrame, roomVars
<1> SUFFICES ASSUME NEW q \in Rooms, NEW t \in Seats, NEW k \in 1 .. Len(frames'[q][t])
             PROVE  /\ frames'[q][t][k].frameid \in 1 .. Len(all_frame_list[q])
                    /\ frames'[q][t][k] = all_frame_list[q][frames'[q][t][k].frameid]
                    /\ \A j \in 1 .. k - 1 : frames'[q][t][j].frameid < frames'[q][t][k].frameid
  BY <1>11 DEF AppliedFromLog
<1>12. CASE q = r /\ t = s
  <2>1. frames'[q][t] = new
    BY <1>3, <1>12 DEF TypeOK
  <2> QED
    BY <1>2, <1>10, <1>12, <2>1
<1>13. CASE ~(q = r /\ t = s)
  <2>1. frames'[q][t] = frames[q][t]
    BY <1>3, <1>13 DEF TypeOK
  <2> QED
    BY <2>1 DEF AppliedFromLog
<1> QED
  BY <1>12, <1>13

LEMMA AppliedStep ==
    ASSUME TypeOK, LogNumbered, DatagramsOfLog, AppliedFromLog, [Next]_vars
    PROVE  AppliedFromLog'
<1>1. CASE frames' = frames
  <2> SUFFICES ASSUME NEW r \in Rooms, NEW s \in Seats, NEW i \in 1 .. Len(frames[r][s])
               PROVE  LET f == frames[r][s][i].frameid IN
                      /\ f \in 1 .. Len(all_frame_list'[r])
                      /\ frames[r][s][i] = all_frame_list'[r][f]
                      /\ \A j \in 1 .. i - 1 : frames[r][s][j].frameid < f
    BY <1>1 DEF AppliedFromLog
  <2>1. PICK f : f = frames[r][s][i].frameid
    OBVIOUS
  <2>2. /\ f \in 1 .. Len(all_frame_list[r])
        /\ frames[r][s][i] = all_frame_list[r][f]
        /\ \A j \in 1 .. i - 1 : frames[r][s][j].frameid < f
    BY <2>1 DEF AppliedFromLog
  <2>3. f \in 1 .. Len(all_frame_list'[r]) /\ all_frame_list'[r][f] = all_frame_list[r][f]
    BY <2>2, LogGrows
  <2> QED
    BY <2>1, <2>2, <2>3
<1>2. CASE frames' # frames
  <2>1. PICK m \in udp_down : LogicFrame(m)
    BY <1>2, StepIs DEF GameStep, room_created, game_start, do_logic_frame_sync, push_next_frame,
                NextFrameOpts, gameVars, roomVars
  <2> QED
    BY <2>1, AppliedLogicFrame
<1> QED
  BY <1>1, <1>2

LEMMA InitIInv == Init => IInv
<1> SUFFICES ASSUME Init PROVE IInv
  OBVIOUS
<1>1. <<>> \in Seq(FrameOpts) /\ <<>> \in BoundedSeq(Opts, MaxOpts) /\ Len(<<>>) = 0
  BY EmptySeq, EmptyIsBounded
<1>2. TypeOK
  BY <1>1, FrameBounds DEF Init, TypeOK
<1>3. LogNumbered /\ OpsOnTheWay /\ DatagramsOfLog /\ AppliedFromLog
  BY <1>1 DEF Init, LogNumbered, OpsOnTheWay, DatagramsOfLog, AppliedFromLog
<1>4. ASSUME NEW g \in FirstGames PROVE OthersLater(g) /\ BeginningApplied(g)
  <2>1. g \in Rooms
    BY DEF FirstGames
  <2> QED
    BY <1>1, <2>1 DEF Init, BeginningApplied, OthersLater
<1> QED
  BY <1>2, <1>3, <1>4 DEF IInv

LEMMA IInvStep == IInv /\ [Next]_vars => IInv'
<1> SUFFICES ASSUME IInv, [Next]_vars PROVE IInv'
  OBVIOUS
<1>1. TypeOK' /\ LogNumbered' /\ OpsOnTheWay' /\ DatagramsOfLog' /\ AppliedFromLog'
  BY TypeStep, LogStep, OpsStep, DatagramStep, AppliedStep DEF IInv
<1>2. ASSUME NEW g \in FirstGames PROVE OthersLater(g)' /\ BeginningApplied(g)'
  BY OthersStep, BeginningStep DEF IInv
<1> QED
  BY <1>1, <1>2 DEF IInv, FirstGames, OthersLater, BeginningApplied

THEOREM Inductive == Spec => []IInv
BY InitIInv, IInvStep, PTL DEF Spec

------------------------------------------------------------------------------
(* The properties of FrameSync                                             *)

\* Every variable keeps its type; in particular no frame of a game is numbered
\* beyond the bound, and the players' frames and cursors are what they say.
THEOREM TypeCorrect == Spec => []TypeOK
<1>1. IInv => TypeOK
  BY DEF IInv
<1> QED
  BY <1>1, Inductive, PTL

\* push_next_frame compares the frame of a datagram with the one collected, so
\* an operation is carried out right after what its player had seen, whichever
\* game of the zone its datagram reaches.
THEOREM OpsInTheirFrameCorrect == Spec => []OpsInTheirFrame
<1>1. ASSUME IInv PROVE OpsInTheirFrame
  <2>1. ASSUME NEW r \in Rooms, NEW i \in DOMAIN all_frame_list[r],
               NEW op \in Range(all_frame_list[r][i].opts)
        PROVE  op.after = i - 1
    <3>1. all_frame_list[r] \in Seq(FrameOpts)
      BY <1>1 DEF IInv, TypeOK
    <3>2. i \in 1 .. Len(all_frame_list[r]) /\ all_frame_list[r][i] \in FrameOpts
      BY <3>1
    <3>3. all_frame_list[r][i].opts \in Seq(Opts)
      BY <3>2, FrameIs
    <3>4. PICK k \in 1 .. Len(all_frame_list[r][i].opts) : op = all_frame_list[r][i].opts[k]
      BY <3>3 DEF Range
    <3> QED
      BY <1>1, <3>2, <3>4 DEF IInv, OpsOnTheWay, OpsFor
  <2> QED
    BY <2>1 DEF OpsInTheirFrame
<1> QED
  BY <1>1, Inductive, PTL

\* What a player applies are frames of its own game's log, each once and in their
\* order, however many games share the zone and whatever datagrams are lost, doubled
\* or late: frames may be missing from it, but never wrong or out of turn.
THEOREM AppliedFromLogCorrect == Spec => []AppliedFromLog
<1>1. IInv => AppliedFromLog
  BY DEF IInv
<1> QED
  BY <1>1, Inductive, PTL

\* Two players of a game that both applied a frame applied the same operations in it.
PlayersAgree ==
    \A r \in Rooms, s, t \in Seats :
        \A i \in 1 .. Len(frames[r][s]), j \in 1 .. Len(frames[r][t]) :
            frames[r][s][i].frameid = frames[r][t][j].frameid
                => frames[r][s][i].opts = frames[r][t][j].opts

\* Lockstep: no two players of a game ever disagree on a frame, in any of the games
\* of a zone, though after the first game some may be without it.
THEOREM PlayersAgreeCorrect == Spec => []PlayersAgree
<1>1. ASSUME AppliedFromLog, NEW r \in Rooms, NEW s \in Seats, NEW t \in Seats,
             NEW i \in 1 .. Len(frames[r][s]), NEW j \in 1 .. Len(frames[r][t]),
             frames[r][s][i].frameid = frames[r][t][j].frameid
      PROVE  frames[r][s][i].opts = frames[r][t][j].opts
  <2>1. frames[r][s][i] = all_frame_list[r][frames[r][s][i].frameid]
    BY <1>1 DEF AppliedFromLog
  <2>2. frames[r][t][j] = all_frame_list[r][frames[r][t][j].frameid]
    BY <1>1 DEF AppliedFromLog
  <2> QED
    BY <1>1, <2>1, <2>2
<1>2. AppliedFromLog => PlayersAgree
  BY <1>1 DEF PlayersAgree
<1> QED
  BY <1>2, AppliedFromLogCorrect, PTL

\* In the zone's first game, push_next_frame never moves a player's cursor past a
\* frame the player has not applied, in whatever order datagrams come, those of later
\* games included.
THEOREM NoFrameSkippedCorrect == Spec => []NoFrameSkipped
<1>1. ASSUME IInv, NEW r \in FirstGames, NEW s \in Seats
      PROVE  cur_sync_frame_id[r][s] <= LastFrame(r, s)
  <2>1. r \in Rooms /\ BeginningApplied(r)
    BY <1>1 DEF IInv, FirstGames
  <2>2. LastFrame(r, s) = Len(frames[r][s])
    BY <1>1, <2>1, LastFrameIsLen DEF IInv
  <2> QED
    BY <2>1, <2>2 DEF BeginningApplied
<1>2. IInv => NoFrameSkipped
  BY <1>1 DEF NoFrameSkipped
<1> QED
  BY <1>2, Inductive, PTL

\* In the first game of a zone, do_logic_frame_sync sends each player that has a session
\* and an UDP address a datagram that begins no later than the player's next frame and
\* ends with the newest, also when earlier ticks could not send it anything.
THEOREM EveryTickCatchesUpCorrect == Spec => EveryTickCatchesUp
<1>1. ASSUME IInv, [Next]_vars, NEW r \in FirstGames, NEW s \in Seats, Reachable(r, s),
             Len(all_frame_list'[r]) > Len(all_frame_list[r])
      PROVE  \E m \in udp_down' :
                /\ m.room = r /\ m.seatid = s
                /\ Head(m.unsync_frames).frameid <= LastFrame(r, s) + 1
                /\ Last(m.unsync_frames) = Last(all_frame_list'[r])
  <2>1. TypeOK /\ LogNumbered /\ r \in Rooms /\ BeginningApplied(r)
    BY <1>1 DEF IInv, FirstGames
  <2>2. TypeOK' /\ LogNumbered'
    BY <1>1, <2>1, TypeStep, LogStep
  <2>3. do_logic_frame_sync(r)
    <3>1. ASSUME NEW q \in Rooms, game_start(q) PROVE FALSE
      <4>1. all_frame_list[q] = <<>> /\ all_frame_list' = [all_frame_list EXCEPT ![q] = <<>>]
        BY <2>1, <3>1 DEF game_start, LogNumbered
      <4>2. all_frame_list'[r] = all_frame_list[r]
        BY <2>1, <4>1 DEF TypeOK
      <4>3. Len(all_frame_list[r]) \in Nat
        BY <2>1 DEF TypeOK
      <4> QED
        BY <1>1, <4>2, <4>3
    <3>2. ASSUME all_frame_list' = all_frame_list PROVE FALSE
      <4>1. Len(all_frame_list[r]) \in Nat
        BY <2>1 DEF TypeOK
      <4> QED
        BY <1>1, <3>2, <4>1
    <3>3. PICK q \in Rooms : do_logic_frame_sync(q)
      BY <1>1, <3>1, <3>2, StepIs
         DEF GameStep, room_created, push_next_frame, LogicFrame, NextFrameOpts, gameVars, roomVars
    <3>4. q = r
      <4>1. all_frame_list' = [all_frame_list EXCEPT ![q] = all_frame_list'[q]]
        BY <2>1, <3>3, FrameEnds
      <4>2. Len(all_frame_list[r]) \in Nat
        BY <2>1 DEF TypeOK
      <4> QED
        BY <1>1, <2>1, <4>1, <4>2 DEF TypeOK
    <3> QED
      BY <3>3, <3>4
  <2> DEFINE log == all_frame_list'[r]
             c == cur_sync_frame_id[r][s]
             sent == unsync_frames(Append(all_frame_list[r],
                                          [frameid |-> frameid[r], opts |-> next_frame_list[r]]), c)
             m == [room |-> r, seatid |-> s, frameid |-> frameid[r], unsync_frames |-> sent]
  <2>4. /\ log \in Seq(FrameOpts) /\ Len(log) = Len(all_frame_list[r]) + 1
        /\ log = Append(all_frame_list[r],
                        [frameid |-> frameid[r], opts |-> next_frame_list[r]])
    BY <2>1, <2>3, FrameEnds
  <2>5. Len(all_frame_list[r]) \in Nat /\ Len(frames[r][s]) \in Nat
    BY <2>1 DEF TypeOK
  <2>6. c \in Nat /\ c <= Len(frames[r][s]) /\ Len(frames[r][s]) <= Len(all_frame_list[r])
    BY <2>1, FrameBounds DEF TypeOK, BeginningApplied
  <2>7. sent = SubSeq(log, c + 1, Len(log))
    BY <2>4 DEF unsync_frames
  <2>8. m \in udp_down' \/ sent = <<>>
    BY <1>1, <2>3 DEF do_logic_frame_sync
  <2> HIDE DEF log, c, sent
  <2>9. c + 1 <= Len(log) /\ Len(log) \in Nat /\ \A i \in c + 1 .. Len(log) : log[i] \in FrameOpts
    BY <2>4, <2>5, <2>6
  <2>10. /\ sent \in Seq(FrameOpts)
         /\ Len(sent) = Len(log) - c
         /\ \A i \in 1 .. Len(log) - c : sent[i] = log[c + i]
    <3>1. /\ SubSeq(log, c + 1, Len(log)) \in Seq(FrameOpts)
          /\ Len(SubSeq(log, c + 1, Len(log)))
                = IF c + 1 <= Len(log) THEN Len(log) - (c + 1) + 1 ELSE 0
          /\ \A i \in 1 .. Len(log) - (c + 1) + 1 :
                SubSeq(log, c + 1, Len(log))[i] = log[c + 1 + i - 1]
      BY <2>6, <2>9, SubSeqProperties
    <3> QED
      BY <2>6, <2>7, <2>9, <3>1
  <2>11. 1 \in 1 .. Len(log) - c /\ Len(log) - c \in 1 .. Len(log) - c
    BY <2>6, <2>9
  <2>12. sent # <<>>
    BY <2>10, <2>11, EmptySeq
  <2>13. Head(sent) = sent[1]
    BY <2>10, <2>12
  <2>14. sent[1] = log[c + 1] /\ sent[Len(log) - c] = log[c + (Len(log) - c)]
    BY <2>10, <2>11
  <2>15. c + (Len(log) - c) = Len(log) /\ c + 1 \in 1 .. Len(log)
    BY <2>6, <2>9
  <2>16. log[c + 1].frameid = c + 1
    BY <2>1, <2>2, <2>15 DEF LogNumbered, log
  <2>17. LastFrame(r, s) = Len(frames[r][s])
    BY <2>1, LastFrameIsLen
  <2>18. Head(sent).frameid <= LastFrame(r, s) + 1
    BY <2>5, <2>6, <2>13, <2>14, <2>16, <2>17
  <2>19. Last(sent) = Last(log)
    BY <2>10, <2>14, <2>15 DEF Last
  <2>20. m.room = r /\ m.seatid = s /\ m.unsync_frames = sent /\ m \in udp_down'
    BY <2>8, <2>12
  <2> HIDE DEF m
  <2> QED
    BY <2>18, <2>19, <2>20 DEF log
<1>2. IInv /\ [Next]_vars =>
        \A r \in FirstGames : Len(all_frame_list'[r]) > Len(all_frame_list[r]) =>
          \A s \in {t \in Seats : Reachable(r, t)} : \E m \in udp_down' :
              /\ m.room = r /\ m.seatid = s
              /\ Head(m.unsync_frames).frameid <= LastFrame(r, s) + 1
              /\ Last(m.unsync_frames) = Last(all_frame_list'[r])
  BY <1>1
<1> QED
  BY <1>2, Inductive, PTL DEF Spec, EveryTickCatchesUp

\* FrameSync implements FrameLog: the players of a zone's first game apply one log,
\* in order and without a gap, whatever games follow it.
THEOREM ImplementsFrameLogCorrect == Spec => ImplementsFrameLog
<1>1. Init => Log!Init
  BY DEF Init, Log!Init, FirstGames
<1>2. ASSUME IInv, [Next]_vars PROVE [Log!Next]_Log!vars
  <2>1. TypeOK /\ LogNumbered /\ DatagramsOfLog
    BY <1>2 DEF IInv
  <2>2. FirstGames \subseteq Rooms
    BY DEF FirstGames
  <2>3. ASSUME NEW r \in FirstGames, do_logic_frame_sync(r) PROVE Log!Next
    <3> DEFINE f == [frameid |-> frameid[r], opts |-> next_frame_list[r]]
    <3>1. f \in FrameOpts
      BY <2>1, <2>2, <2>3, FrameEnds
    <3>2. /\ all_frame_list' = [all_frame_list EXCEPT ![r] = Append(@, f)]
          /\ frames' = frames
      BY <2>3 DEF do_logic_frame_sync
    <3> HIDE DEF f
    <3>3. [q \in FirstGames |-> all_frame_list[q]]'
            = [[q \in FirstGames |-> all_frame_list[q]] EXCEPT ![r] = Append(@, f)]
      BY <2>1, <2>2, <3>2 DEF TypeOK
    <3>4. Log!EndFrame(r)
      BY <3>1, <3>2, <3>3 DEF Log!EndFrame
    <3> QED
      BY <3>4 DEF Log!Next
  <2>4. ASSUME NEW r \in Rooms \ FirstGames, do_logic_frame_sync(r) PROVE UNCHANGED Log!vars
    <3>1. \A q \in FirstGames : all_frame_list'[q] = all_frame_list[q]
      BY <2>1, <2>2, <2>4 DEF do_logic_frame_sync, TypeOK
    <3>2. frames' = frames
      BY <2>4 DEF do_logic_frame_sync
    <3> QED
      BY <3>1, <3>2 DEF Log!vars
  <2>5. ASSUME NEW m \in udp_down, LogicFrame(m), m.room \in FirstGames PROVE Log!Next
    <3>1. PICK g \in FirstGames, s \in Seats : g = m.room /\ s = m.seatid
      BY <2>1, <2>5 DEF TypeOK
    <3>2. PICK new \in Seq(FrameOpts) :
            /\ frames' = [frames EXCEPT ![g][s] = new]
            /\ Len(new) > Len(frames[g][s])
            /\ Len(new) <= Len(all_frame_list[g])
            /\ \A k \in 1 .. Len(new) : new[k] = all_frame_list[g][k]
      BY <1>2, <2>1, <2>5, <3>1, MoreLearnt DEF IInv
    <3>3. all_frame_list[g] \in Seq(FrameOpts) /\ Len(frames[g][s]) \in Nat
      BY <2>1, <2>2 DEF TypeOK
    <3> DEFINE log == all_frame_list[g]
               n == Len(new)
    <3>4. n \in Nat /\ Len(log) \in Nat /\ \A i \in 1 .. n : log[i] \in FrameOpts
      BY <3>2, <3>3
    <3>5. /\ SubSeq(log, 1, n) \in Seq(FrameOpts)
          /\ Len(SubSeq(log, 1, n)) = IF 1 <= n THEN n - 1 + 1 ELSE 0
          /\ \A i \in 1 .. n - 1 + 1 : SubSeq(log, 1, n)[i] = log[1 + i - 1]
      BY <3>4, SubSeqProperties
    <3> HIDE DEF log
    <3>6. Len(SubSeq(log, 1, n)) = Len(new) /\ \A i \in 1 .. n : SubSeq(log, 1, n)[i] = log[i]
      BY <3>4, <3>5
    <3>7. new = SubSeq(log, 1, n)
      BY <3>2, <3>5, <3>6, SeqEqual DEF log
    <3>8. n \in Len(frames[g][s]) + 1 .. Len(log)
      BY <3>2, <3>3, <3>4 DEF log
    <3>9. all_frame_list' = all_frame_list
      BY <2>5 DEF LogicFrame, roomVars
    <3> HIDE DEF n
    <3>10. frames' = [frames EXCEPT ![g][s] = SubSeq(all_frame_list[g], 1, n)]
      BY <3>2, <3>7 DEF log
    <3>11. [q \in FirstGames |-> frames[q]]'
             = [[q \in FirstGames |-> frames[q]]
                   EXCEPT ![g][s] = SubSeq([q \in FirstGames |-> all_frame_list[q]][g], 1, n)]
      BY <2>1, <2>2, <3>10 DEF TypeOK
    <3>12. n \in Len([q \in FirstGames |-> frames[q]][g][s]) + 1
                   .. Len([q \in FirstGames |-> all_frame_list[q]][g])
      BY <3>8 DEF log
    <3>13. Log!Learn(g, s)
      BY <3>9, <3>11, <3>12 DEF Log!Learn
    <3> QED
      BY <3>13 DEF Log!Next
  <2>6. ASSUME NEW m \in udp_down, LogicFrame(m), m.room \notin FirstGames
        PROVE  UNCHANGED Log!vars
    <3>1. PICK new \in Seq(FrameOpts) : frames' = [frames EXCEPT ![m.room][m.seatid] = new]
      BY <2>1, <2>6, FramesApplied
    <3>2. \A q \in FirstGames : frames'[q] = frames[q]
      BY <2>1, <2>2, <2>6, <3>1 DEF TypeOK
    <3>3. all_frame_list' = all_frame_list
      BY <2>6 DEF LogicFrame, roomVars
    <3> QED
      BY <3>2, <3>3 DEF Log!vars
  <2>7. ASSUME NEW r \in Rooms, game_start(r) PROVE UNCHANGED Log!vars
    <3>1. /\ all_frame_list[r] = <<>> /\ all_frame_list' = [all_frame_list EXCEPT ![r] = <<>>]
          /\ frames' = frames
      BY <2>1, <2>7 DEF game_start, LogNumbered
    <3>2. all_frame_list' = all_frame_list
      BY <2>1, <3>1 DEF TypeOK
    <3> QED
      BY <3>1, <3>2 DEF Log!vars
  <2> QED
    BY <1>2, <2>3, <2>4, <2>5, <2>6, <2>7, StepIs
       DEF GameStep, room_created, push_next_frame, NextFrameOpts, gameVars, roomVars, Log!vars
<1>3. IInv /\ [Next]_vars => [Log!Next]_Log!vars
  BY <1>2
<1> QED
  BY <1>1, <1>3, Inductive, PTL DEF Spec, ImplementsFrameLog, Log!Spec

=============================================================================
