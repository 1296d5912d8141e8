--------------------------- MODULE RatingSyncGuard --------------------------
(***************************************************************************)
(* Proofs about what keeps sweeps apart and saves them work: the gate, the *)
(* sweep record and the hunt for the file that crashed a sweep.            *)
(***************************************************************************)
EXTENDS RatingSyncSafety

-----------------------------------------------------------------------------
(* The gate *)

(* While Navidrome's scan times are as fine as the clock, the gate closes  *)
(* only on pairs without work that the scan could have seen.               *)
(* (sync.go:102-115; run GateSeconds shows what coarser scan times do.)    *)
THEOREM GateSkipsNothing ==
    ASSUME TicksPerSecond = 1 PROVE Spec => []GateSound
<1>1. IInv => GateSound
  <2> SUFFICES ASSUME IInv, SelectedPair, userConfig.name # None, Gated,
                      NEW i \in 1..Len(listing[libraryConfig.id])
               PROVE  LET s == listing[libraryConfig.id][i] IN
                      \/ Settled(userConfig.name, s, userConfig.settings)
                      \/ mtime[s] > Scanned(libraryConfig.id)
                      \/ created[s] > Scanned(libraryConfig.id)
    BY DEF GateSound
  <2> DEFINE l == libraryConfig.id
             u == userConfig.name
             s == listing[l][i]
             e == last[l][u]
  <2>1. /\ l \in Libraries /\ u \in Users /\ TypeOK
        /\ listing[l] \in Seq(Songs)
    BY SelectedType, NoneAssumption DEF IInv, TypeOK, CallbackOK, SelectedPair, Choosing
  <2>2. /\ e # None /\ e.fingerprint = userConfig.settings
        /\ e.stamp = Threshold
    BY DEF Gated, Threshold, LoadLastSynced
  <2>3. s \in Songs /\ mtime[s] \in Nat /\ created[s] \in Nat
        /\ e.stamp \in Nat /\ Scanned(l) \in Nat
    <3> HIDE DEF l, u, e
    <3>1. s \in Songs
      <4>1. i \in 1..Len(listing[l])
        BY DEF l
      <4> QED
        BY <2>1, <4>1
    <3>2. mtime[s] \in Nat /\ created[s] \in Nat
      BY <2>1, <3>1 DEF TypeOK
    <3>3. e \in LastSynced \union {None}
      BY <2>1 DEF TypeOK, e
    <3>4. e.stamp \in Nat
      BY <2>2, <3>3 DEF LastSynced
    <3>5. Scanned(l) \in Nat
      BY <2>1 DEF TypeOK, Scanned
    <3> QED
      BY <3>1, <3>2, <3>4, <3>5
  <2>4. Accounted([lib |-> l, user |-> u, settings |-> userConfig.settings],
                  e.stamp, s)
    BY <2>1, <2>2 DEF IInv, ThresholdSound
  <2>5. Scanned(l) < e.stamp
    <3>1. LastScanAt(Scanned(l)) = Scanned(l)
      BY <2>3 DEF LastScanAt
    <3> QED
      BY <2>2, <3>1 DEF Gated, GateCloses
  <2> QED
    BY <2>3, <2>4, <2>5 DEF Accounted
<1> QED
  BY <1>1, Invariant, PTL

-----------------------------------------------------------------------------
(* One sweep at a time, and when it hunts for a file *)

\* The KV store can be read and takes heartbeats, and libraries are configured.
Reliable ==
    /\ "lookup" \notin FaultKinds /\ "heartbeat" \notin FaultKinds
    /\ "store" \notin FaultKinds
    /\ \A c \in Configs : Len(c.libraries) > 0

\* A chain, at work or waiting, is the only one and has an active record, of
\* which no refresh was missed.
ChainInv ==
    /\ record # None => ~record.missed
    /\ pc \notin {"idle", "prune"} => Active(record) /\ pending = {}
    /\ pc = "prune" => pending = {}
    /\ pending # {} => Active(record) /\ \E c \in pending : pending = {c}

Hunting(c) == c.logReadsUntil > 0

\* A position is hunted from, or may come to be, only after a crash.
AlarmInv ==
    /\ NoFalseAlarm
    /\ pc = "prune" => (record # None => record.cursor = None)
    /\ pc = "idle" /\ pending = {} /\ record # None =>
          record.interrupted \/ record.cursor = None \/ crash # None

GuardInv == TypeOK /\ ChainInv /\ AlarmInv

LEMMA NoHunt == \A l, u : ~Hunting(At(l, u))
BY DEF Hunting, At

LEMMA EndsCalm ==
    ASSUME EndCallback PROVE pc' = "idle" /\ ~Hunting(cur')
BY NoHunt DEF EndCallback

LEMMA MarkedActive ==
    ASSUME Reliable, NEW c \in SyncCursor, MarkSweepActive(c)
    PROVE  Active(record') /\ record' = Marked(c)
<1>1. record' = Marked(c)
  BY DEF MarkSweepActive, Fault, Reliable
<1>2. Marked(c) # None
  BY RecordTypes, NoneAssumption
<1> QED
  BY <1>1, <1>2 DEF Active, Marked

LEMMA Failures ==
    ASSUME Reliable
    PROVE  /\ ~Fault("lookup") /\ ~Fault("heartbeat") /\ ~Fault("store")
           /\ ~StartSweepUnguarded
           /\ TypeOK => ~NoLibraries
BY DEF Reliable, Fault, StartSweepUnguarded, NoLibraries, TypeOK

\* An interrupted record stays or becomes interrupted, or there is none.
LEMMA InterruptedRecord ==
    ASSUME Reliable, GuardInv, NEW c, MarkSweepInterrupted(c)
    PROVE  record' # None => record'.interrupted /\ ~record'.missed
<1>1. record' = Interrupted(record, c)
  BY DEF MarkSweepInterrupted, Reliable
<1>2. CASE record = None
  BY <1>1, <1>2 DEF Interrupted
<1>3. CASE record # None
  <2>1. record \in SweepRecord /\ ~record.missed
    BY <1>3 DEF GuardInv, ChainInv, TypeOK
  <2> QED
    BY <1>1, <1>3, <2>1 DEF Interrupted, SweepRecord
<1> QED
  BY <1>2, <1>3

\* A step of a callback at work that only moves its position.
Moves ==
    \/ ExhaustedLibrary \/ DeadlineBeforePair \/ SkipBlankUser
    \/ SkipDeniedPair \/ SkipUnscannedPair \/ SkipUnmountedPair
    \/ FetchPage \/ PageFails \/ ReadSong \/ RateSong \/ FinishPair

LEMMA MovesOnly ==
    ASSUME TypeOK, Moves
    PROVE  /\ pc \notin {"idle", "prune"} /\ pc' \notin {"idle", "prune"}
           /\ UNCHANGED <<record, pending, crash>>
           /\ Hunting(cur') => Hunting(cur)
<1>1. /\ pc \notin {"idle", "prune"} /\ pc' \notin {"idle", "prune"}
      /\ UNCHANGED <<record, pending, crash>>
  <2>1. CASE ReadSong \/ RateSong
    BY <2>1, SongStep, SongDoneStep DEF SongRead, AtSong, AfterSong, pairRest
  <2>2. CASE ~ReadSong /\ ~RateSong
    BY <2>2 DEF Moves, ExhaustedLibrary, DeadlineBeforePair, SkipBlankUser,
                SkipDeniedPair, SkipUnscannedPair, SkipUnmountedPair, SkipPair,
                chunkRest, FetchPage, PageFails, fetchRest, pairRest,
                FinishPair, SelectedPair, Choosing
  <2> QED
    BY <2>1, <2>2
<1>2. \/ cur' = cur \/ cur' = NextPair(cur) \/ cur' = NextLibrary(cur)
      \/ cur' = Failed(cur) \/ cur' = NextSong(cur)
  BY SongStep, SongDoneStep
     DEF Moves, ExhaustedLibrary, DeadlineBeforePair, SkipBlankUser,
         SkipDeniedPair, SkipUnscannedPair, SkipUnmountedPair, SkipPair,
         chunkRest, FetchPage, PageFails, SongRead, AfterSong, FinishPair
<1>3. cur \in SyncCursor
  BY DEF TypeOK
<1>4. /\ ~Hunting(NextPair(cur)) /\ ~Hunting(NextLibrary(cur))
      /\ Hunting(Failed(cur)) => Hunting(cur)
      /\ Hunting(NextSong(cur)) => Hunting(cur)
  BY <1>3, NoHunt
     DEF NextPair, NextLibrary, Failed, NextSong, Hunting, SyncCursor
<1> QED
  BY <1>1, <1>2, <1>4

\* The pair of a position changes only where nothing is hunted any more.
LEMMA StartPairAlarm ==
    ASSUME TypeOK, StartPair
    PROVE  /\ pc \notin {"idle", "prune"} /\ pc' \notin {"idle", "prune"}
           /\ UNCHANGED <<record, pending>>
           /\ Hunting(cur') => Hunting(cur) /\ crash' = crash
<1>1. /\ pc \in {"start", "pair"} /\ pc' = "page"
      /\ UNCHANGED <<record, pending>>
  BY DEF StartPair, SelectedPair, Choosing, EnterPair, chunkRest
<1>2. PICK id : EnterPair(ForThisPair(cur, id), id)
  BY DEF StartPair
<1> DEFINE c == ForThisPair(cur, id)
<1>3. c = cur \/ ~Hunting(c)
  BY NoHunt DEF ForThisPair
<1>4. c \in SyncCursor
  BY AtType DEF ForThisPair, TypeOK, SyncCursor
<1>5. Hunting(cur') => Hunting(c)
  BY <1>2, <1>4 DEF EnterPair, Hunting, SyncCursor
<1>6. c = cur => crash' = crash
  BY <1>2 DEF EnterPair
<1> QED
  BY <1>1, <1>3, <1>5, <1>6

LEMMA GuardInit == Init => GuardInv
<1> SUFFICES ASSUME Init PROVE GuardInv
  OBVIOUS
<1>1. TypeOK
  BY TypeInit DEF TypeInv
<1>2. ~Hunting(cur)
  BY NoHunt DEF Init
<1> QED
  BY <1>1, <1>2
     DEF GuardInv, ChainInv, AlarmInv, NoFalseAlarm, Hunting, Init

LEMMA GuardBegins ==
    ASSUME Reliable, GuardInv, TypeOK', StartSweep \/ Continue
    PROVE  ChainInv' /\ AlarmInv'
<1>1. /\ pc = "idle" /\ pc' = "start" /\ crash' = crash
      /\ cur' \in SyncCursor
  BY DEF StartSweep, Continue, BeginCallback, TypeOK
<1>2. Active(record') /\ ~record'.missed
  <2>1. MarkSweepActive(cur')
    BY DEF StartSweep, Continue, BeginCallback
  <2> DEFINE c == cur'
  <2>2. c \in SyncCursor /\ MarkSweepActive(c)
    BY <1>1, <2>1
  <2> HIDE DEF c
  <2> QED
    BY <2>2, MarkedActive DEF Marked
<1>3. pending' = {} /\ (Hunting(cur') => crash # None)
  <2>1. CASE Continue
    <3>1. PICK c \in pending : cur' = c /\ pending' = pending \ {c}
      BY <2>1 DEF Continue, BeginCallback
    <3> QED
      BY <1>1, <3>1
         DEF GuardInv, ChainInv, AlarmInv, NoFalseAlarm, Hunting
  <2>2. CASE StartSweep
    <3>1. ~Active(record) /\ cur' = SweepStart(record) /\ pending' = pending
      BY <2>2 DEF StartSweep, BeginCallback
    <3>2. pending = {}
      BY <3>1 DEF GuardInv, ChainInv
    <3>3. Hunting(cur') => /\ record # None /\ record.cursor # None
                           /\ ~record.interrupted
      <4>1. CASE record = None \/ record.cursor = None
        BY <3>1, <4>1, NoHunt DEF SweepStart
      <4>2. CASE record # None /\ record.cursor # None /\ record.interrupted
        <5>1. record.cursor \in SyncCursor
          BY <4>2 DEF GuardInv, TypeOK, SweepRecord
        <5>2. cur'.logReadsUntil = 0
          BY <3>1, <4>2, <5>1 DEF SweepStart, SyncCursor
        <5> QED
          BY <5>2 DEF Hunting
      <4> QED
        BY <4>1, <4>2
    <3> QED
      BY <1>1, <3>1, <3>2, <3>3 DEF GuardInv, AlarmInv
  <2> QED
    BY <2>1, <2>2
<1> QED
  BY <1>1, <1>2, <1>3
     DEF ChainInv, AlarmInv, NoFalseAlarm, Hunting

LEMMA GuardWorks ==
    ASSUME Reliable, GuardInv, Moves \/ StartPair \/ StorePosition
    PROVE  ChainInv' /\ AlarmInv'
<1>1. CASE Moves
  BY <1>1, MovesOnly
     DEF GuardInv, ChainInv, AlarmInv, NoFalseAlarm, Hunting, Active
<1>2. CASE StartPair
  BY <1>2, StartPairAlarm
     DEF GuardInv, ChainInv, AlarmInv, NoFalseAlarm, Hunting, Active
<1>3. CASE StorePosition
  <2>1. /\ pc = "page" /\ pc' = "fetch"
        /\ UNCHANGED <<pending, cur, crash>> /\ cur \in SyncCursor
    BY <1>3 DEF StorePosition, fetchRest, pairRest, GuardInv, TypeOK
  <2>2. Active(record') /\ ~record'.missed
    BY <1>3, <2>1, MarkedActive DEF StorePosition, Marked
  <2> QED
    BY <2>1, <2>2 DEF GuardInv, ChainInv, AlarmInv, NoFalseAlarm, Hunting
<1> QED
  BY <1>1, <1>2, <1>3

LEMMA GuardEnds ==
    ASSUME Reliable, GuardInv,
           CompleteSweep \/ DeleteStaleThresholds \/ Reschedule
           \/ RescheduleRefused
    PROVE  ChainInv' /\ AlarmInv'
<1>1. CASE CompleteSweep
  <2>1. /\ pc \in {"start", "pair"} /\ pc' = "prune" /\ pending' = pending
        /\ record' = None \/ record' = Cleared
    BY <1>1, Failures DEF CompleteSweep, SweepDone, Choosing, chunkRest
  <2> QED
    BY <2>1 DEF GuardInv, ChainInv, AlarmInv, NoFalseAlarm, Cleared
<1>2. CASE DeleteStaleThresholds
  <2>1. /\ pc = "prune" /\ UNCHANGED <<record, pending, crash>>
    BY <1>2 DEF DeleteStaleThresholds
  <2>2. pc' = "idle" /\ ~Hunting(cur')
    BY <1>2, EndsCalm DEF DeleteStaleThresholds
  <2> QED
    BY <2>1, <2>2 DEF GuardInv, ChainInv, AlarmInv, NoFalseAlarm, Hunting
<1>3. CASE Reschedule
  <2>1. /\ pc = "handover" /\ pending' = pending \union {cur}
        /\ UNCHANGED <<record, crash>>
    BY <1>3 DEF Reschedule
  <2>2. pc' = "idle" /\ ~Hunting(cur')
    BY <1>3, EndsCalm DEF Reschedule
  <2>3. pending' = {cur} /\ Active(record')
    BY <2>1 DEF GuardInv, ChainInv, Active
  <2> QED
    BY <2>1, <2>2, <2>3
       DEF GuardInv, ChainInv, AlarmInv, NoFalseAlarm, Hunting
<1>4. CASE RescheduleRefused
  <2>1. /\ pc = "handover" /\ pending' = pending
        /\ MarkSweepInterrupted(cur)
    BY <1>4 DEF RescheduleRefused
  <2>2. pc' = "idle" /\ ~Hunting(cur')
    BY <1>4, EndsCalm DEF RescheduleRefused
  <2>3. record' # None => record'.interrupted /\ ~record'.missed
    BY <2>1, InterruptedRecord
  <2> QED
    BY <2>1, <2>2, <2>3
       DEF GuardInv, ChainInv, AlarmInv, NoFalseAlarm, Hunting
<1> QED
  BY <1>1, <1>2, <1>3, <1>4

\* A crash in the middle of a song names the song and its place.
LEMMA CrashStands ==
    ASSUME TypeInv, Crashes
    PROVE  /\ crash' # None
           /\ crash'.song # None => /\ pc = "song"
                                    /\ crash'.song = Head(page).song
                                    /\ crash'.pair = cur.pair
                                    /\ crash'.index = cur.offset
<1> DEFINE r == [song |-> IF pc = "song" THEN Head(page).song ELSE None,
                 pair |-> cur.pair, index |-> cur.offset]
<1>1. crash' = r
  BY DEF Crashes
<1>2. cur.pair \in Pairs \union {None} /\ cur.offset \in Nat
  BY DEF TypeInv, TypeOK, SyncCursor
<1>3. pc = "song" => Head(page).song \in Songs
  <2>1. pc = "song" => page \in Seq(Row) /\ page # <<>>
    BY DEF TypeInv, TypeOK, CallbackOK, AtSong
  <2>2. pc = "song" => Head(page) \in Row
    BY <2>1, HeadAndTail
  <2> QED
    BY <2>2 DEF Row
<1>4. r \in Crash
  BY <1>2, <1>3 DEF Crash
<1>5. crash' # None
  BY <1>1, <1>4, NoneAssumption
<1> QED
  BY <1>1, <1>5

LEMMA GuardBreaks ==
    ASSUME Reliable, TypeInv, GuardInv, Crashes \/ Reload \/ Expire
    PROVE  ChainInv' /\ AlarmInv'
<1>1. CASE Crashes
  <2>1. /\ pc # "idle" /\ UNCHANGED <<record, pending>>
    BY <1>1 DEF Crashes
  <2>2. pc' = "idle" /\ ~Hunting(cur')
    BY <1>1, EndsCalm DEF Crashes
  <2>3. crash' # None
    BY <1>1, CrashStands
  <2> QED
    BY <2>1, <2>2, <2>3
       DEF GuardInv, ChainInv, AlarmInv, NoFalseAlarm, Hunting
<1>2. CASE Reload
  <2>1. pending' = {} /\ MarkSweepInterrupted(None)
    BY <1>2 DEF Reload
  <2>2. pc' = "idle" /\ ~Hunting(cur')
    BY <1>2, EndsCalm DEF Reload
  <2>3. record' # None => record'.interrupted /\ ~record'.missed
    BY <2>1, InterruptedRecord
  <2> QED
    BY <2>1, <2>2, <2>3 DEF ChainInv, AlarmInv, NoFalseAlarm, Hunting
<1>3. CASE Expire
  <2>1. /\ pc = "idle" /\ pending = {} /\ record # None
        /\ record' = [record EXCEPT !.fresh = FALSE]
        /\ UNCHANGED <<pending, pc, cur, crash>>
    BY <1>3 DEF Expire, callbackVars, GuardInv, ChainInv
  <2>2. /\ record'.interrupted = record.interrupted
        /\ record'.cursor = record.cursor
        /\ record'.missed = record.missed
    BY <2>1 DEF GuardInv, TypeOK, SweepRecord
  <2> QED
    BY <2>1, <2>2 DEF GuardInv, ChainInv, AlarmInv, NoFalseAlarm, Hunting
<1> QED
  BY <1>1, <1>2, <1>3

LEMMA GuardAround ==
    ASSUME GuardInv,
           UNCHANGED vars \/ Environment \/ \E c \in Configs : SteadyChange(c)
    PROVE  ChainInv' /\ AlarmInv'
<1>1. UNCHANGED <<record, pending, pc, cur, crash>>
  BY DEF Environment, Tick, EditFile, UserRates, Rescan, ImportSong,
         SteadyChange, ChangeConfig, pluginVars, vars, callbackVars
<1> QED
  BY <1>1 DEF GuardInv, ChainInv, AlarmInv, NoFalseAlarm, Active

LEMMA GuardStep ==
    ASSUME Reliable, TypeInv, TypeInv', GuardInv, [Next]_vars PROVE GuardInv'
<1>1. TypeOK /\ TypeOK'
  BY DEF TypeInv, GuardInv
<1>2. \/ StartSweep \/ Continue \/ Moves \/ StartPair \/ StorePosition
      \/ CompleteSweep \/ DeleteStaleThresholds \/ Reschedule
      \/ RescheduleRefused \/ Crashes \/ Reload \/ Expire
      \/ UNCHANGED vars \/ Environment \/ \E c \in Configs : SteadyChange(c)
  BY <1>1, Failures DEF Next, Plugin, Trigger, CallbackStep, Moves
<1> QED
  BY <1>1, <1>2, GuardBegins, GuardWorks, GuardEnds, GuardBreaks, GuardAround
     DEF GuardInv

LEMMA GuardKept == ASSUME Reliable PROVE Spec => []GuardInv
<1>1. TypeInv /\ [Next]_vars => TypeInv'
  BY TypeStep
<1>2. TypeInv /\ TypeInv' /\ GuardInv /\ [Next]_vars => GuardInv'
  BY GuardStep
<1> QED
  BY GuardInit, TypeInit, <1>1, <1>2, PTL DEF Spec

(* While the KV store can be read and takes heartbeats, a callback at work *)
(* is the only chain: no continuation waits beside it.                     *)
(* (types.go:229-235, kv_store.go:145-197.)                                *)
THEOREM OnlyOneSweep == ASSUME Reliable PROVE Spec => []OneSweep
<1>1. GuardInv => OneSweep
  BY DEF GuardInv, ChainInv, OneSweep
<1> QED
  BY <1>1, GuardKept, PTL

(* A sweep names the files it reads in the log only after a crash: never   *)
(* after a reload, a refused continuation or a completed sweep.            *)
(* (types.go:215-228, kv_store.go:183-187,221.)                            *)
THEOREM HuntsAfterCrashOnly == ASSUME Reliable PROVE Spec => []NoFalseAlarm
<1>1. GuardInv => NoFalseAlarm
  BY DEF GuardInv, AlarmInv
<1> QED
  BY <1>1, GuardKept, PTL

-----------------------------------------------------------------------------
(* The hunt names the file *)

\* A saved configuration has p as its j-th user of the i-th library.
Place(p, i, j) ==
    \E c \in Configs :
        /\ i \in 1..Len(c.libraries) /\ j \in 1..Len(c.libraries[i].users)
        /\ p = PairID(c.libraries[i], c.libraries[i].users[j])

(* A pair is configured once, and no change moves it.  Positions are       *)
(* indices: a pair that moves to a place a sweep has yet to come to is     *)
(* read there from its start, with no hunt.                                *)
PairsKeepPlace ==
    \A p \in Pairs : \A i, j, k, m \in Nat :
        Place(p, i, j) /\ Place(p, k, m) => i = k /\ j = m

InPlace(c) == c.pair # None => Place(c.pair, c.lib, c.user) /\ c.pairStart # 0

LeftBehind(c, p) ==
    \A i, j \in Nat : Place(p, i, j) => i < c.lib \/ (i = c.lib /\ j < c.user)

\* A sweep at c goes on from the crash k: it names the songs up to the end of
\* the page that was read, or that page is behind it.
Resumes(c, k) ==
    \/ /\ c.pair = k.pair
       /\ c.offset < PageEnd(k.index) => PageEnd(k.index) <= c.logReadsUntil
    \/ LeftBehind(c, k.pair)

\* While songs of a page are processed, the record is at that page.
PageMarked ==
    /\ pc = "fetch" => record # None /\ record.cursor = cur
    /\ AtSong =>
          /\ record # None /\ record.cursor # None
          /\ record.cursor.pair = cur.pair
          /\ record.cursor.offset <= cur.offset
          /\ cur.offset + Len(page) <= PageEnd(record.cursor.offset)

\* The record a sweep hunts from is at the page of the crash k.
RecordAt(k) ==
    /\ record # None /\ record.cursor # None /\ ~record.interrupted
    /\ record.cursor.pair = k.pair
    /\ record.cursor.offset <= k.index
    /\ k.index < PageEnd(record.cursor.offset)

Tracked ==
    crash # None /\ crash.song # None =>
        /\ crash.pair \in Pairs /\ pc # "prune"
        /\ pc # "idle" => Resumes(cur, crash)
        /\ \A c \in pending : Resumes(c, crash)
        /\ pc = "idle" /\ pending = {} => RecordAt(crash)

HuntInv == (\A c \in Positions : InPlace(c)) /\ PageMarked /\ Tracked

LEMMA CrashType ==
    ASSUME TypeOK, crash # None
    PROVE  crash.index \in Nat /\ PageEnd(crash.index) \in Nat
BY PageEndType DEF TypeOK, Crash

\* From anywhere in a page, the page ends at the same place.
LEMMA SamePage ==
    ASSUME NEW o \in Nat, NEW i \in Nat, o <= i, i < PageEnd(o)
    PROVE  PageEnd(i) = PageEnd(o)
<1>1. PICK q \in Nat : q = o \div PageSize
  BY BoundAssumption
<1>2. q * PageSize <= o /\ i < (q + 1) * PageSize
  BY <1>1, BoundAssumption DEF PageEnd
<1>3. i \div PageSize = q
  BY <1>2, BoundAssumption
<1> QED
  BY <1>1, <1>3 DEF PageEnd

\* A pair that is left is passed.
LEMMA NextPasses ==
    ASSUME PairsKeepPlace, NEW c \in SyncCursor, NEW k, k.pair \in Pairs,
           InPlace(c), Resumes(c, k)
    PROVE  /\ InPlace(NextPair(c)) /\ InPlace(NextLibrary(c))
           /\ Resumes(NextPair(c), k) /\ Resumes(NextLibrary(c), k)
<1>1. c.lib \in Nat /\ c.user \in Nat
  BY DEF SyncCursor
<1>2. InPlace(NextPair(c)) /\ InPlace(NextLibrary(c))
  BY DEF InPlace, NextPair, NextLibrary, At
<1>3. ASSUME NEW i \in Nat, NEW j \in Nat, Place(k.pair, i, j)
      PROVE  i < c.lib \/ (i = c.lib /\ j <= c.user)
  <2>1. CASE LeftBehind(c, k.pair)
    BY <1>1, <1>3, <2>1 DEF LeftBehind
  <2>2. CASE c.pair = k.pair
    <3>1. Place(k.pair, c.lib, c.user)
      BY <2>2, NoneAssumption DEF InPlace
    <3> QED
      BY <1>1, <1>3, <3>1 DEF PairsKeepPlace
  <2> QED
    BY <2>1, <2>2 DEF Resumes
<1>4. /\ NextPair(c).lib = c.lib /\ NextPair(c).user = c.user + 1
      /\ NextLibrary(c).lib = c.lib + 1
  BY DEF NextPair, NextLibrary, At
<1>5. LeftBehind(NextPair(c), k.pair) /\ LeftBehind(NextLibrary(c), k.pair)
  BY <1>1, <1>3, <1>4 DEF LeftBehind
<1> QED
  BY <1>2, <1>5 DEF Resumes

LEMMA BlankInPlace ==
    \A c : InPlace(NextPair(c)) /\ InPlace(NextLibrary(c))
BY DEF InPlace, NextPair, NextLibrary, At

\* A song or a failed page moves a position within its pair.
LEMMA MovesWithin ==
    ASSUME NEW c \in SyncCursor, InPlace(c),
           NEW d \in {Failed(c), NextSong(c)}
    PROVE  /\ InPlace(d)
           /\ \A k : PageEnd(k.index) \in Nat /\ Resumes(c, k) => Resumes(d, k)
<1>1. /\ d.lib = c.lib /\ d.user = c.user /\ d.pair = c.pair
      /\ d.pairStart = c.pairStart
  BY DEF Failed, NextSong, SyncCursor
<1>2. \/ d.offset = c.offset /\ d.logReadsUntil = c.logReadsUntil
      \/ /\ d.offset = c.offset + 1
         /\ d.logReadsUntil = IF c.offset + 1 >= c.logReadsUntil THEN 0
                              ELSE c.logReadsUntil
  BY DEF Failed, NextSong, SyncCursor
<1>3. c.offset \in Nat /\ c.logReadsUntil \in Nat
  BY DEF SyncCursor
<1>4. InPlace(d)
  BY <1>1 DEF InPlace
<1>5. ASSUME NEW k, PageEnd(k.index) \in Nat, Resumes(c, k)
      PROVE  Resumes(d, k)
  <2>1. CASE LeftBehind(c, k.pair)
    <3>1. LeftBehind(d, k.pair)
      BY <1>1, <2>1 DEF LeftBehind
    <3> QED
      BY <3>1 DEF Resumes
  <2>2. CASE /\ c.pair = k.pair
             /\ c.offset < PageEnd(k.index) => PageEnd(k.index) <= c.logReadsUntil
    <3>1. d.offset < PageEnd(k.index) => PageEnd(k.index) <= d.logReadsUntil
      BY <1>2, <1>3, <1>5, <2>2
    <3> QED
      BY <1>1, <2>2, <3>1 DEF Resumes
  <2> QED
    BY <1>5, <2>1, <2>2 DEF Resumes
<1> QED
  BY <1>4, <1>5

LEMMA HuntInit == Init => HuntInv
BY DEF Init, HuntInv, Positions, PageMarked, AtSong, Tracked

\* The last position of a chain is the one in hand; others are kept.
LEMMA CurInPlace ==
    /\ HuntInv /\ pc # "idle" => InPlace(cur)
    /\ HuntInv /\ record # None /\ record.cursor # None => InPlace(record.cursor)
    /\ HuntInv => \A c \in pending : InPlace(c)
BY DEF HuntInv, Positions

LEMMA HuntBegins ==
    ASSUME Reliable, GuardInv, TypeOK', HuntInv, StartSweep \/ Continue
    PROVE  HuntInv'
<1>1. /\ pc = "idle" /\ pc' = "start" /\ crash' = crash
      /\ cur' \in SyncCursor
  BY DEF StartSweep, Continue, BeginCallback, TypeOK
<1>2. record' = Marked(cur')
  <2> DEFINE c == cur'
  <2>1. c \in SyncCursor /\ MarkSweepActive(c)
    BY <1>1 DEF StartSweep, Continue, BeginCallback
  <2> HIDE DEF c
  <2> QED
    BY <2>1, MarkedActive DEF c
<1>3. /\ pending' = {} /\ InPlace(cur')
      /\ crash # None /\ crash.song # None => Resumes(cur', crash)
  <2>1. CASE Continue
    <3>1. PICK c \in pending : cur' = c /\ pending' = pending \ {c}
      BY <2>1 DEF Continue, BeginCallback
    <3>2. pending' = {}
      BY <3>1 DEF GuardInv, ChainInv
    <3> QED
      BY <3>1, <3>2, CurInPlace DEF HuntInv, Tracked
  <2>2. CASE StartSweep
    <3>1. ~Active(record) /\ cur' = SweepStart(record) /\ pending' = pending
      BY <2>2 DEF StartSweep, BeginCallback
    <3>2. pending = {}
      BY <3>1 DEF GuardInv, ChainInv
    <3>3. CASE record = None \/ record.cursor = None
      <4>1. cur' = At(1, 1)
        BY <3>1, <3>3 DEF SweepStart
      <4>2. InPlace(At(1, 1))
        BY DEF InPlace, At
      <4>3. ~(crash # None /\ crash.song # None)
        BY <1>1, <3>2, <3>3 DEF HuntInv, Tracked, RecordAt
      <4> QED
        BY <3>1, <3>2, <4>1, <4>2, <4>3
    <3>4. CASE record # None /\ record.cursor # None
      <4> DEFINE r == record.cursor
      <4>1. r \in SyncCursor /\ InPlace(r)
        BY <3>4, CurInPlace DEF GuardInv, TypeOK, SweepRecord
      <4>2. /\ cur'.lib = r.lib /\ cur'.user = r.user /\ cur'.pair = r.pair
            /\ cur'.pairStart = r.pairStart /\ cur'.offset = r.offset
            /\ ~record.interrupted => cur'.logReadsUntil = PageEnd(r.offset)
        BY <3>1, <3>4, <4>1 DEF SweepStart, SyncCursor
      <4>3. InPlace(cur')
        BY <4>1, <4>2 DEF InPlace
      <4>4. ASSUME crash # None, crash.song # None PROVE Resumes(cur', crash)
        <5>1. RecordAt(crash)
          BY <1>1, <3>2, <4>4 DEF HuntInv, Tracked
        <5>2. PageEnd(crash.index) = PageEnd(r.offset)
          <6>1. r.offset \in Nat /\ crash.index \in Nat
            BY <4>1, <4>4, CrashType DEF SyncCursor, GuardInv
          <6>2. r.offset <= crash.index /\ crash.index < PageEnd(r.offset)
            BY <5>1 DEF RecordAt
          <6> HIDE DEF r
          <6> QED
            BY <6>1, <6>2, SamePage
        <5>3. PageEnd(crash.index) \in Nat
          BY <4>4, CrashType DEF GuardInv
        <5> QED
          BY <4>2, <5>1, <5>2, <5>3 DEF RecordAt, Resumes
      <4> QED
        BY <3>1, <3>2, <4>3, <4>4
    <3> QED
      BY <3>3, <3>4
  <2> QED
    BY <2>1, <2>2
<1>4. Positions' = {cur'}
  BY <1>1, <1>2, <1>3 DEF Positions, Marked
<1>5. PageMarked'
  BY <1>1 DEF PageMarked, AtSong
<1>6. Tracked'
  BY <1>1, <1>3 DEF Tracked, HuntInv
<1> QED
  BY <1>3, <1>4, <1>5, <1>6 DEF HuntInv

\* The page that is fetched ends where the record says.
LEMMA FetchedPage ==
    ASSUME TypeInv, HuntInv, FetchPage
    PROVE  cur' = cur /\ record' = record /\ PageMarked'
<1>1. /\ pc = "fetch" /\ UNCHANGED <<cur, record>>
      /\ page' = PageRows(cur.pair.lib, cur.pair.user, cur.offset)
      /\ pc' = IF page' = <<>> THEN "finish" ELSE "song"
  BY DEF FetchPage
<1>2. /\ cur.pair.lib \in Libraries /\ cur.pair.user \in Users
      /\ cur.offset \in Nat
  BY <1>1 DEF TypeInv, TypeOK, CallbackOK, InPair, Pairs, SyncCursor
<1>3. cur.offset < PageEnd(cur.offset) /\ PageEnd(cur.offset) \in Nat
  BY <1>2, PageEndBeyond, PageEndType
<1>4. cur.offset + Len(page') <= PageEnd(cur.offset)
  <2> DEFINE l == cur.pair.lib
             u == cur.pair.user
             end == IF PageEnd(cur.offset) <= Len(listing[l])
                    THEN PageEnd(cur.offset) ELSE Len(listing[l])
             n == IF cur.offset < end THEN end - cur.offset ELSE 0
             row(k) == [song |-> listing[l][cur.offset + k],
                        userRating |-> rating[u][listing[l][cur.offset + k]]]
  <2>1. listing[l] \in Seq(Songs)
    BY <1>2 DEF TypeInv, TypeOK
  <2>2. n \in Nat /\ cur.offset + n <= PageEnd(cur.offset)
    BY <1>2, <1>3, <2>1
  <2>3. page' = [k \in 1..n |-> row(k)]
    BY <1>1 DEF PageRows
  <2> HIDE DEF row, n
  <2>4. PageRows(l, u, cur.offset) \in Seq(Row)
    BY <1>2, PageRowsType DEF TypeInv
  <2>5. Len(page') = n
    BY <1>1, <2>2, <2>3, <2>4
  <2> QED
    BY <2>2, <2>5
<1>5. record # None /\ record.cursor = cur /\ cur # None
  <2>1. record # None /\ record.cursor = cur
    BY <1>1 DEF HuntInv, PageMarked
  <2>2. cur # None
    BY NoneAssumption DEF TypeInv, TypeOK
  <2> QED
    BY <2>1, <2>2
<1> QED
  BY <1>1, <1>2, <1>4, <1>5 DEF PageMarked, AtSong

LEMMA HuntWorks ==
    ASSUME PairsKeepPlace, TypeInv, GuardInv, HuntInv, Moves
    PROVE  HuntInv'
<1>1. /\ pc \notin {"idle", "prune"} /\ pc' \notin {"idle", "prune"}
      /\ UNCHANGED <<record, pending, crash>>
  BY MovesOnly DEF TypeInv
<1>2. pending = {} /\ cur \in SyncCursor /\ InPlace(cur)
  BY <1>1, CurInPlace DEF TypeInv, TypeOK, GuardInv, ChainInv
<1>3. \/ cur' \in {cur, NextPair(cur), NextLibrary(cur)}
      \/ cur' \in {Failed(cur), NextSong(cur)}
  BY SongStep, SongDoneStep
     DEF Moves, ExhaustedLibrary, DeadlineBeforePair, SkipBlankUser,
         SkipDeniedPair, SkipUnscannedPair, SkipUnmountedPair, SkipPair,
         chunkRest, FetchPage, PageFails, SongRead, AfterSong, FinishPair
<1>4. InPlace(cur')
  BY <1>2, <1>3, BlankInPlace, MovesWithin
<1>5. ASSUME crash # None, crash.song # None
      PROVE  crash.pair \in Pairs /\ Resumes(cur', crash)
  <2>1. /\ crash.pair \in Pairs /\ Resumes(cur, crash)
        /\ PageEnd(crash.index) \in Nat
    BY <1>1, <1>5, CrashType DEF HuntInv, Tracked, TypeInv
  <2>2. CASE cur' \in {cur, NextPair(cur), NextLibrary(cur)}
    BY <1>2, <2>1, <2>2, NextPasses
  <2>3. CASE cur' \in {Failed(cur), NextSong(cur)}
    BY <1>2, <2>1, <2>3, MovesWithin
  <2> QED
    BY <1>3, <2>1, <2>2, <2>3
<1>6. PageMarked'
  <2>1. CASE FetchPage
    BY <2>1, FetchedPage
  <2>2. CASE SongDone
    <3>1. /\ AtSong /\ cur' = NextSong(cur) /\ page' = Tail(page)
          /\ pc' \in {"handover", "song", "page", "finish"}
      BY <2>2, SongDoneStep DEF AfterSong
    <3>2. page \in Seq(Row) /\ page # <<>>
      BY <3>1 DEF TypeInv, TypeOK, CallbackOK
    <3>3. Len(page') = Len(page) - 1 /\ Len(page) \in Nat
      BY <3>1, <3>2
    <3>4. /\ cur'.offset = cur.offset + 1 /\ cur'.pair = cur.pair
          /\ cur.offset \in Nat
      BY <1>2, <3>1 DEF NextSong, SyncCursor
    <3>5. /\ record # None /\ record.cursor # None
          /\ record.cursor.pair = cur.pair
          /\ record.cursor.offset <= cur.offset
          /\ cur.offset + Len(page) <= PageEnd(record.cursor.offset)
      BY <3>1 DEF HuntInv, PageMarked
    <3>6. record.cursor.offset \in Nat
      BY <3>5 DEF TypeInv, TypeOK, SweepRecord, SyncCursor
    <3>7. PageEnd(record.cursor.offset) \in Nat
      BY <3>6, PageEndType
    <3>8. /\ record.cursor.offset <= cur'.offset
          /\ cur'.offset + Len(page') <= PageEnd(record.cursor.offset)
      BY <3>3, <3>4, <3>5, <3>6, <3>7
    <3>9. pc' # "fetch"
      BY <3>1
    <3> QED
      BY <1>1, <3>4, <3>5, <3>8, <3>9 DEF PageMarked, AtSong
  <2>3. CASE SongRead
    <3>1. AtSong /\ pc' = "rate" /\ UNCHANGED <<cur, page, record>>
      BY <2>3 DEF SongRead, AtSong
    <3> QED
      BY <3>1 DEF HuntInv, PageMarked, AtSong
  <2>4. CASE ~FetchPage /\ ~ReadSong /\ ~RateSong
    <3>1. pc' \notin {"fetch", "song", "rate"}
      BY <2>4 DEF Moves, ExhaustedLibrary, DeadlineBeforePair, SkipBlankUser,
         SkipDeniedPair, SkipUnscannedPair, SkipUnmountedPair, SkipPair,
         chunkRest, PageFails, FinishPair, SelectedPair, Choosing
    <3> QED
      BY <3>1 DEF PageMarked, AtSong
  <2> QED
    BY <2>1, <2>2, <2>3, <2>4, SongStep
<1>7. Positions' \subseteq Positions \union {cur'}
  BY <1>1 DEF Positions
<1>8. Tracked'
  BY <1>1, <1>2, <1>5 DEF Tracked
<1> QED
  BY <1>4, <1>6, <1>7, <1>8 DEF HuntInv

\* The pair at work has its place in the configuration that runs.
LEMMA SelectedPlace ==
    ASSUME TypeInv, SelectedPair
    PROVE  Place(PairID(libraryConfig, userConfig), cur.lib, cur.user)
<1>1. run \in Configs
  BY DEF TypeInv, CallbackOK, SelectedPair, Choosing
<1> QED
  BY <1>1 DEF SelectedPair, Place, libraryConfig, userConfig

LEMMA HuntEnters ==
    ASSUME TypeInv, GuardInv, HuntInv, StartPair
    PROVE  HuntInv'
<1> DEFINE id == PairID(libraryConfig, userConfig)
           c == ForThisPair(cur, id)
<1>1. /\ SelectedPair /\ userConfig.name # None
      /\ pc \notin {"idle", "prune"} /\ pc' = "page"
      /\ UNCHANGED <<record, pending, envVars>>
      /\ cur' = IF c.pairStart = 0
                THEN [c EXCEPT !.pairStart = now, !.pair = id] ELSE c
      /\ crash' = IF c # cur THEN None ELSE crash
  BY DEF StartPair, EnterPair, SelectedPair, Choosing, chunkRest
<1>2. id \in Pairs /\ Place(id, cur.lib, cur.user)
  BY <1>1, SelectedType, SelectedPlace DEF TypeInv
<1>3. pending = {} /\ cur \in SyncCursor /\ InPlace(cur) /\ now # 0
  BY <1>1, CurInPlace DEF TypeInv, TypeOK, GuardInv, ChainInv
<1>4. c \in SyncCursor /\ c.lib = cur.lib /\ c.user = cur.user
  BY <1>2, <1>3, ForThisPairType DEF ForThisPair, At
<1>5. c.pairStart # 0 => c.pair = id
  BY <1>2, <1>3, ForThisPairType
<1> HIDE DEF id, c
<1>6. /\ cur'.lib = cur.lib /\ cur'.user = cur.user /\ cur'.pair = id
      /\ cur'.pairStart # 0
  BY <1>1, <1>3, <1>4, <1>5 DEF SyncCursor
<1>7. InPlace(cur')
  BY <1>2, <1>6 DEF InPlace
<1>8. ASSUME crash' # None, crash'.song # None
      PROVE  crash' = crash /\ crash.pair \in Pairs /\ Resumes(cur', crash)
  <2>1. c = cur /\ crash' = crash
    BY <1>1, <1>8
  <2>2. crash.pair \in Pairs /\ Resumes(cur, crash)
    BY <1>1, <1>8, <2>1 DEF HuntInv, Tracked
  <2>3. CASE LeftBehind(cur, crash.pair)
    BY <1>6, <2>1, <2>2, <2>3 DEF LeftBehind, Resumes
  <2>4. CASE cur.pair = crash.pair /\ Resumes(cur, crash)
    <3>1. cur.pairStart # 0
      BY <1>3, <2>2, <2>4, NoneAssumption DEF InPlace
    <3> QED
      BY <1>1, <2>1, <2>2, <3>1
  <2> QED
    BY <2>1, <2>2, <2>3, <2>4 DEF Resumes
<1>9. Positions' \subseteq Positions \union {cur'}
  BY <1>1 DEF Positions
<1>10. Tracked'
  BY <1>1, <1>3, <1>8 DEF Tracked
<1>11. PageMarked'
  BY <1>1 DEF PageMarked, AtSong
<1> QED
  BY <1>7, <1>9, <1>10, <1>11 DEF HuntInv

LEMMA HuntStores ==
    ASSUME Reliable, TypeInv, GuardInv, HuntInv, StorePosition
    PROVE  HuntInv'
<1>1. /\ pc = "page" /\ pc' = "fetch"
      /\ UNCHANGED <<pending, cur, crash>> /\ cur \in SyncCursor
  BY DEF StorePosition, fetchRest, pairRest, TypeInv, TypeOK
<1>2. record' = Marked(cur) /\ Marked(cur) \in SweepRecord
  BY <1>1, MarkedActive, RecordTypes DEF StorePosition
<1>3. record' # None /\ record'.cursor = cur
  BY <1>2, NoneAssumption DEF Marked
<1>4. Positions' \subseteq Positions
  BY <1>1, <1>2 DEF Positions, Marked
<1>5. PageMarked'
  BY <1>1, <1>3 DEF PageMarked, AtSong
<1>6. Tracked'
  BY <1>1 DEF HuntInv, Tracked
<1> QED
  BY <1>4, <1>5, <1>6 DEF HuntInv

LEMMA HuntEnds ==
    ASSUME Reliable, TypeInv, GuardInv, HuntInv,
           CompleteSweep \/ DeleteStaleThresholds \/ Reschedule
           \/ RescheduleRefused
    PROVE  HuntInv'
<1>1. CASE CompleteSweep
  <2>1. /\ pc \in {"start", "pair"} /\ pc' = "prune" /\ crash' = None
        /\ UNCHANGED <<pending, cur>>
        /\ record' = None \/ record' = Cleared
    BY <1>1, Failures DEF CompleteSweep, SweepDone, Choosing, chunkRest
  <2>2. Positions' \subseteq Positions
    BY <2>1 DEF Positions, Cleared
  <2> QED
    BY <2>1, <2>2 DEF HuntInv, PageMarked, AtSong, Tracked
<1>2. CASE DeleteStaleThresholds
  <2>1. pc = "prune" /\ pc' = "idle" /\ UNCHANGED <<record, pending, crash>>
    BY <1>2 DEF DeleteStaleThresholds, EndCallback
  <2>2. Positions' \subseteq Positions
    BY <2>1 DEF Positions
  <2> QED
    BY <2>1, <2>2 DEF HuntInv, PageMarked, AtSong, Tracked
<1>3. CASE Reschedule
  <2>1. /\ pc = "handover" /\ pc' = "idle" /\ pending' = pending \union {cur}
        /\ UNCHANGED <<record, crash>>
    BY <1>3 DEF Reschedule, EndCallback
  <2>2. pending' = {cur}
    BY <2>1 DEF GuardInv, ChainInv
  <2>3. Positions' \subseteq Positions
    BY <2>1 DEF Positions
  <2> QED
    BY <2>1, <2>2, <2>3 DEF HuntInv, PageMarked, AtSong, Tracked
<1>4. CASE RescheduleRefused
  <2>1. /\ pc = "handover" /\ pc' = "idle" /\ pending' = pending
        /\ crash' = None /\ record' = Interrupted(record, cur)
    BY <1>4 DEF RescheduleRefused, EndCallback, MarkSweepInterrupted, Reliable
  <2>2. record' # None => record'.cursor \in {cur}
                          \union (IF record = None THEN {} ELSE {record.cursor})
    <3>1. record \in SweepRecord \union {None}
      BY DEF TypeInv, TypeOK
    <3> QED
      BY <2>1, <3>1 DEF Interrupted, SweepRecord
  <2>3. Positions' \subseteq Positions
    BY <2>1, <2>2 DEF Positions
  <2> QED
    BY <2>1, <2>3 DEF HuntInv, PageMarked, AtSong, Tracked
<1> QED
  BY <1>1, <1>2, <1>3, <1>4

\* The record of a sweep that stopped while it read a file is at that page.
LEMMA HuntBreaks ==
    ASSUME Reliable, TypeInv, GuardInv, HuntInv, Crashes \/ Reload \/ Expire
    PROVE  HuntInv'
<1>1. CASE Crashes
  <2>1. /\ pc # "idle" /\ pc' = "idle" /\ UNCHANGED <<record, pending>>
    BY <1>1 DEF Crashes, EndCallback
  <2>2. Positions' \subseteq Positions
    BY <2>1 DEF Positions
  <2>3. ASSUME crash' # None, crash'.song # None
        PROVE  crash'.pair \in Pairs /\ pending' = {} /\ RecordAt(crash)'
    <3>1. AtSong /\ crash'.pair = cur.pair /\ crash'.index = cur.offset
      BY <1>1, <2>3, CrashStands DEF AtSong
    <3>2. /\ cur.pair \in Pairs /\ cur.offset \in Nat
          /\ page \in Seq(Row) /\ page # <<>>
      BY <3>1 DEF TypeInv, TypeOK, CallbackOK, InPair, SyncCursor
    <3>3. Len(page) \in Nat \ {0}
      BY <3>2
    <3>4. /\ record # None /\ record.cursor # None
          /\ record.cursor.pair = cur.pair
          /\ record.cursor.offset <= cur.offset
          /\ cur.offset + Len(page) <= PageEnd(record.cursor.offset)
      BY <3>1 DEF HuntInv, PageMarked
    <3>5. record.cursor.offset \in Nat
      BY <3>4 DEF TypeInv, TypeOK, SweepRecord, SyncCursor
    <3>6. PageEnd(record.cursor.offset) \in Nat
      BY <3>5, PageEndType
    <3>7. cur.offset < PageEnd(record.cursor.offset)
      BY <3>2, <3>3, <3>4, <3>6
    <3>8. ~record.interrupted /\ pending = {}
      BY <3>1 DEF GuardInv, ChainInv, Active, AtSong
    <3> QED
      BY <2>1, <3>1, <3>2, <3>4, <3>7, <3>8 DEF RecordAt
  <2> QED
    BY <2>1, <2>2, <2>3 DEF HuntInv, PageMarked, AtSong, Tracked
<1>2. CASE Reload
  <2>1. /\ pending' = {} /\ pc' = "idle" /\ crash' = None
        /\ record' = Interrupted(record, None)
    BY <1>2 DEF Reload, EndCallback, MarkSweepInterrupted, Reliable
  <2>2. record' # None => record # None /\ record'.cursor = record.cursor
    <3>1. record \in SweepRecord \union {None}
      BY DEF TypeInv, TypeOK
    <3> QED
      BY <2>1, <3>1 DEF Interrupted, SweepRecord
  <2>3. Positions' \subseteq Positions
    BY <2>1, <2>2 DEF Positions
  <2> QED
    BY <2>1, <2>3 DEF HuntInv, PageMarked, AtSong, Tracked
<1>3. CASE Expire
  <2>1. /\ pc = "idle" /\ pending = {} /\ record # None
        /\ record' = [record EXCEPT !.fresh = FALSE]
        /\ UNCHANGED <<pending, pc, cur, crash>>
    BY <1>3 DEF Expire, callbackVars, GuardInv, ChainInv
  <2>2. /\ record'.interrupted = record.interrupted
        /\ record'.cursor = record.cursor
    BY <2>1 DEF TypeInv, TypeOK, SweepRecord
  <2>3. record' # None
    <3>1. record' \in SweepRecord
      BY <2>1 DEF TypeInv, TypeOK, SweepRecord
    <3> QED
      BY <3>1, NoneAssumption
  <2>4. Positions' \subseteq Positions
    BY <2>1, <2>2 DEF Positions
  <2>5. Tracked'
    BY <2>1, <2>2, <2>3 DEF HuntInv, Tracked, RecordAt
  <2> QED
    BY <2>1, <2>4, <2>5 DEF HuntInv, PageMarked, AtSong
<1> QED
  BY <1>1, <1>2, <1>3

LEMMA HuntAround ==
    ASSUME HuntInv,
           UNCHANGED vars \/ Environment \/ \E c \in Configs : SteadyChange(c)
    PROVE  HuntInv'
<1>1. UNCHANGED <<record, pending, pc, cur, crash, page>>
  BY DEF Environment, Tick, EditFile, UserRates, Rescan, ImportSong,
         SteadyChange, ChangeConfig, pluginVars, vars, callbackVars
<1>2. Positions' = Positions
  BY <1>1 DEF Positions
<1> QED
  BY <1>1, <1>2 DEF HuntInv, PageMarked, AtSong, Tracked, RecordAt

LEMMA HuntStep ==
    ASSUME Reliable, PairsKeepPlace, TypeInv, TypeInv', GuardInv, HuntInv,
           [Next]_vars
    PROVE  HuntInv'
<1>1. TypeOK /\ TypeOK'
  BY DEF TypeInv
<1>2. \/ StartSweep \/ Continue \/ Moves \/ StartPair \/ StorePosition
      \/ CompleteSweep \/ DeleteStaleThresholds \/ Reschedule
      \/ RescheduleRefused \/ Crashes \/ Reload \/ Expire
      \/ UNCHANGED vars \/ Environment \/ \E c \in Configs : SteadyChange(c)
  BY <1>1, Failures DEF Next, Plugin, Trigger, CallbackStep, Moves
<1> QED
  BY <1>1, <1>2, HuntBegins, HuntWorks, HuntEnters, HuntStores, HuntEnds,
     HuntBreaks, HuntAround

(* While the KV store can be read and takes heartbeats, and no pair moves  *)
(* to another place of the configuration: the song whose file was being    *)
(* read when a sweep crashed is read again only with its name in the log   *)
(* first, wherever songs imported since have moved it within its page.     *)
(* (One that they moved to a later page is read there unnamed: the hunt    *)
(* ends with the page.)  (types.go:221-228,250, sync.go:231-240.)          *)
THEOREM CulpritIsNamed ==
    ASSUME Reliable, PairsKeepPlace PROVE Spec => []HuntNamesCulprit
<1>1. TypeInv /\ [Next]_vars => TypeInv'
  BY TypeStep
<1>2. TypeInv /\ TypeInv' /\ GuardInv /\ HuntInv /\ [Next]_vars => HuntInv'
  BY HuntStep
<1>3. IInv /\ HuntInv => HuntNamesCulprit
  <2> SUFFICES ASSUME IInv, HuntInv, pc = "song", crash # None,
                      cur.pair = crash.pair, Head(page).song = crash.song,
                      NEW i \in 1..Len(listing[cur.pair.lib]),
                      i <= PageEnd(crash.index),
                      listing[cur.pair.lib][i] = crash.song
               PROVE  cur.offset < cur.logReadsUntil
    BY DEF HuntNamesCulprit
  <2>1. /\ AtSong /\ cur.pair \in Pairs /\ cur.pair.lib \in Libraries
        /\ crash.song # None /\ TypeOK /\ cur.offset \in Nat
        /\ page \in Seq(Row) /\ 1 \in 1..Len(page) /\ Head(page) = page[1]
    BY InHand, NoneAssumption DEF AtSong, IInv
  <2>2. Resumes(cur, crash) /\ PageEnd(crash.index) \in Nat
    BY <2>1, CrashType DEF HuntInv, Tracked
  <2>3. ~LeftBehind(cur, crash.pair)
    <3>1. Place(crash.pair, cur.lib, cur.user)
      BY <2>1, CurInPlace, NoneAssumption DEF InPlace
    <3>2. cur.lib \in Nat /\ cur.user \in Nat
      BY <2>1 DEF TypeOK, SyncCursor
    <3> QED
      BY <3>1, <3>2 DEF LeftBehind
  <2>4. cur.offset + 1 <= i
    <3>1. PICK k \in 1..Len(pairListing) :
             cur.offset + 1 <= k /\ pairListing[k] = page[1].song
      BY <2>1 DEF IInv, RowsListed
    <3>2. k = i
      BY <2>1, <3>1 DEF pairListing, IInv, ListedOnce
    <3> QED
      BY <3>1, <3>2
  <2>5. cur.logReadsUntil \in Nat /\ i \in Nat
    BY <2>1 DEF TypeOK, SyncCursor
  <2> QED
    BY <2>1, <2>2, <2>3, <2>4, <2>5 DEF Resumes
<1> QED
  BY Invariant, GuardKept, TypeInit, HuntInit, <1>1, <1>2, <1>3, PTL DEF Spec

=============================================================================
