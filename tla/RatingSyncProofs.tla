-------------------------- MODULE RatingSyncProofs --------------------------
(* Proofs about RatingSync for every value of its constants. *)
EXTENDS RatingSyncInv, TLAPS

-----------------------------------------------------------------------------
(* The operators on positions and records *)

LEMMA AtType ==
    ASSUME NEW l \in Nat, NEW u \in Nat
    PROVE  At(l, u) \in SyncCursor
BY BoundAssumption DEF At, SyncCursor

LEMMA ProductType ==
    ASSUME NEW m \in Nat, NEW n \in Nat
    PROVE  m * n \in Nat
OBVIOUS

LEMMA PageEndType ==
    ASSUME NEW n \in Nat
    PROVE  PageEnd(n) \in Nat
<1>1. n \div PageSize + 1 \in Nat
  BY BoundAssumption
<1> DEFINE q == n \div PageSize + 1
<1> HIDE DEF q
<1>2. q * PageSize \in Nat
  BY <1>1, ProductType, BoundAssumption DEF q
<1> QED
  BY <1>2 DEF PageEnd, q

LEMMA SweepStartType ==
    ASSUME NEW r \in SweepRecord \union {None}
    PROVE  SweepStart(r) \in SyncCursor
<1>1. At(1, 1) \in SyncCursor
  BY AtType
<1>2. CASE r # None /\ r.cursor # None
  <2>1. r.cursor \in SyncCursor
    BY <1>2 DEF SweepRecord
  <2>2. PageEnd(r.cursor.offset) \in Nat
    BY <2>1, PageEndType DEF SyncCursor
  <2> QED
    BY <1>2, <2>1, <2>2 DEF SweepStart, SyncCursor
<1> QED
  BY <1>1, <1>2 DEF SweepStart

LEMMA RecordTypes ==
    ASSUME NEW c \in SyncCursor
    PROVE  /\ Marked(c) \in SweepRecord
           /\ Cleared \in SweepRecord
BY DEF Marked, Cleared, SweepRecord

LEMMA MissedType ==
    ASSUME NEW r \in SweepRecord \union {None}
    PROVE  Missed(r) \in SweepRecord \union {None}
BY DEF Missed, SweepRecord

LEMMA InterruptedType ==
    ASSUME NEW r \in SweepRecord \union {None},
           NEW c \in SyncCursor \union {None}
    PROVE  Interrupted(r, c) \in SweepRecord \union {None}
<1>1. CASE r = None
  BY <1>1 DEF Interrupted, SweepRecord
<1>2. CASE r # None
  BY <1>2 DEF Interrupted, SweepRecord
<1> QED
  BY <1>1, <1>2

LEMMA PageEndBeyond ==
    ASSUME NEW n \in Nat
    PROVE  n < PageEnd(n)
<1>1. /\ n = PageSize * (n \div PageSize) + (n % PageSize)
      /\ n % PageSize < PageSize
  BY BoundAssumption
<1> QED
  BY <1>1, BoundAssumption DEF PageEnd

LEMMA FailedType ==
    ASSUME NEW c \in SyncCursor, ~GivesUp(Failed(c).retry)
    PROVE  Failed(c) \in SyncCursor
BY BoundAssumption DEF Failed, GivesUp, SyncCursor

LEMMA NextSongType ==
    ASSUME NEW c \in SyncCursor
    PROVE  NextSong(c) \in SyncCursor
<1> DEFINE log == IF c.offset + 1 >= c.logReadsUntil THEN 0
                  ELSE c.logReadsUntil
<1>1. /\ c.offset + 1 \in Nat /\ log \in Nat
      /\ 0 \in 0..(MaxPairAttempts - 1)
  BY BoundAssumption DEF SyncCursor
<1>2. NextSong(c) = [c EXCEPT !.offset = c.offset + 1, !.retry = 0,
                              !.logReadsUntil = log]
  BY DEF NextSong
<1> HIDE DEF log
<1> QED
  BY <1>1, <1>2 DEF SyncCursor

LEMMA NextPairType ==
    ASSUME NEW c \in SyncCursor
    PROVE  NextPair(c) \in SyncCursor /\ NextLibrary(c) \in SyncCursor
<1>1. c.lib \in Nat /\ c.user \in Nat
  BY DEF SyncCursor
<1> QED
  BY <1>1, AtType DEF NextPair, NextLibrary

LEMMA ForThisPairType ==
    ASSUME NEW c \in SyncCursor, NEW id \in Pairs
    PROVE  /\ ForThisPair(c, id) \in SyncCursor
           /\ ForThisPair(c, id).pairStart # 0 => ForThisPair(c, id).pair = id
<1>1. At(c.lib, c.user) \in SyncCursor
  BY AtType DEF SyncCursor
<1>2. At(c.lib, c.user).pairStart = 0
  BY DEF At
<1> QED
  BY <1>1, <1>2 DEF ForThisPair

\* The pair a callback has selected.
LEMMA SelectedType ==
    ASSUME TypeOK, CallbackOK, SelectedPair
    PROVE  /\ run \in Configs
           /\ libraryConfig.id \in Libraries
           /\ userConfig.name # None =>
                 /\ userConfig.name \in Users
                 /\ PairID(libraryConfig, userConfig) \in Pairs
           /\ userConfig.settings \in Settings
<1>1. run \in Configs
  BY DEF CallbackOK, SelectedPair, Choosing
<1>2. run.libraries \in Seq(LibraryConfig)
  BY <1>1, ConfigAssumption DEF PluginConfig
<1>3. libraryConfig \in LibraryConfig
  BY <1>2 DEF SelectedPair, libraryConfig
<1>4. /\ libraryConfig.id \in Libraries
      /\ libraryConfig.users \in Seq(UserConfig)
  BY <1>3 DEF LibraryConfig
<1>5. userConfig \in UserConfig
  BY <1>4 DEF SelectedPair, userConfig
<1>6. userConfig.name \in Users \union {None} /\ userConfig.settings \in Settings
  BY <1>5 DEF UserConfig
<1> QED
  BY <1>1, <1>4, <1>6 DEF PairID, Pairs

LEMMA ThresholdType ==
    ASSUME TypeOK, CallbackOK, SelectedPair, userConfig.name # None
    PROVE  Threshold \in Nat
<1>1. /\ libraryConfig.id \in Libraries /\ userConfig.name \in Users
  BY SelectedType
<1>2. last[libraryConfig.id][userConfig.name] \in LastSynced \union {None}
  BY <1>1 DEF TypeOK
<1>3. CASE last[libraryConfig.id][userConfig.name] # None
  <2>1. last[libraryConfig.id][userConfig.name].stamp \in Nat
    BY <1>2, <1>3 DEF LastSynced
  <2> QED
    BY <2>1 DEF Threshold, LoadLastSynced
<1> QED
  BY <1>3 DEF Threshold, LoadLastSynced

\* The rows of a page are songs of the listing, in its order.
LEMMA PageRowsType ==
    ASSUME TypeOK, NEW l \in Libraries, NEW u \in Users, NEW o \in Nat
    PROVE  /\ PageRows(l, u, o) \in Seq(Row)
           /\ \A k \in 1..Len(PageRows(l, u, o)) :
                 /\ o + k \in 1..Len(listing[l])
                 /\ PageRows(l, u, o)[k].song = listing[l][o + k]
                 /\ PageRows(l, u, o)[k].userRating =
                        rating[u][listing[l][o + k]]
           /\ PageEnd(o) > Len(listing[l]) =>
                 o + Len(PageRows(l, u, o)) >= Len(listing[l])
           /\ PageRows(l, u, o) = <<>> => o >= Len(listing[l])
<1> DEFINE list == listing[l]
           end == IF PageEnd(o) <= Len(list) THEN PageEnd(o) ELSE Len(list)
           n == IF o < end THEN end - o ELSE 0
           row(k) == [song |-> list[o + k], userRating |-> rating[u][list[o + k]]]
<1>1. list \in Seq(Songs) /\ rating[u] \in [Songs -> Stars]
  BY DEF TypeOK
<1>2. PageEnd(o) \in Nat /\ o < PageEnd(o) /\ Len(list) \in Nat
  <2>1. Len(list) \in Nat
    BY <1>1
  <2> QED
    BY <2>1, PageEndType, PageEndBeyond
<1>3. n \in Nat /\ (o + n <= end \/ n = 0)
  BY <1>2
<1>4. PageRows(l, u, o) = [k \in 1..n |-> row(k)]
  BY DEF PageRows
<1>5. \A k \in 1..n : o + k \in 1..Len(list) /\ row(k) \in Row
  <2> TAKE k \in 1..n
  <2>1. o + k \in 1..Len(list)
    BY <1>2
  <2>2. list[o + k] \in Songs
    BY <1>1, <2>1
  <2> QED
    BY <1>1, <2>1, <2>2 DEF Row
<1>6. n \in Nat
  BY <1>2
<1> HIDE DEF row, n
<1>7. PageRows(l, u, o) \in Seq(Row) /\ Len(PageRows(l, u, o)) = n
  BY <1>4, <1>5, <1>6
<1>8. n = 0 \/ o + n = end
  BY <1>2 DEF n
<1>9. PageRows(l, u, o) = <<>> => n = 0
  BY <1>7
<1>10. \A k \in 1..n :
          /\ o + k \in 1..Len(list)
          /\ PageRows(l, u, o)[k].song = list[o + k]
          /\ PageRows(l, u, o)[k].userRating = rating[u][list[o + k]]
  BY <1>4, <1>5 DEF row
<1>11. /\ PageEnd(o) > Len(list) => o + n >= Len(list)
       /\ n = 0 => o >= Len(list)
  BY <1>2 DEF n
<1> QED
  BY <1>7, <1>9, <1>10, <1>11

-----------------------------------------------------------------------------
(* Type correctness.  TypeOK needs CallbackOK: what a running callback     *)
(* reads of its configuration and its pair exists.                         *)

TypeInv == TypeOK /\ CallbackOK

LEMMA TypeInit == Init => TypeInv
<1> SUFFICES ASSUME Init PROVE TypeInv
  OBVIOUS
<1>1. At(1, 1) \in SyncCursor
  BY AtType
<1>2. CallbackOK
  BY DEF Init, CallbackOK, InPair, AtSong
<1>3. <<>> \in Seq(Row) /\ 0 \in Stars
  BY DEF Stars
<1>7. rating \in [Users -> [Songs -> Stars]]
  BY ConfigAssumption DEF Init
<1>4. /\ excused \in [Users -> [Songs -> BOOLEAN]]
      /\ last \in [Libraries -> [Users -> LastSynced \union {None}]]
      /\ seen \in [Libraries -> Nat \union {None}]
  BY <1>3 DEF Init
<1>5. /\ now \in Nat \ {0} /\ changes \in Nat /\ faults \in Nat
      /\ cfg \in Configs /\ listing \in [Libraries -> Seq(Songs)]
      /\ mtime \in [Songs -> Nat] /\ created \in [Songs -> Nat]
      /\ content \in [Songs -> Contents] /\ scan \in [Libraries -> Nat]
  BY ListingAssumption DEF Init
<1>6. TypeOK
  BY <1>1, <1>3, <1>4, <1>5, <1>7 DEF Init, TypeOK
<1> QED
  BY <1>2, <1>6 DEF TypeInv

\* What the steps of the environment leave alone.
LEMMA TypeEnvironment == TypeInv /\ Environment => TypeInv'
<1> SUFFICES ASSUME TypeInv, Environment PROVE TypeInv'
  OBVIOUS
<1> USE DEF TypeInv
<1>1. CASE Tick
  BY <1>1 DEF Tick, TypeOK, CallbackOK, InPair, AtSong, pluginVars, callbackVars
<1>2. CASE \E s \in Songs : EditFile(s)
  BY <1>2 DEF EditFile, Change, TypeOK, CallbackOK, InPair, AtSong, pluginVars, callbackVars
<1>3. CASE \E u \in Users, s \in Songs : UserRates(u, s)
  BY <1>3, ConfigAssumption
     DEF UserRates, Change, TypeOK, CallbackOK, InPair, AtSong, pluginVars, callbackVars
<1>4. CASE \E l \in Libraries : Rescan(l)
  BY <1>4 DEF Rescan, TypeOK, CallbackOK, InPair, AtSong, pluginVars, callbackVars
<1>5. CASE \E l \in Libraries, s \in Songs : ImportSong(l, s)
  <2>1. PICK l \in Libraries, s \in Songs : ImportSong(l, s)
    BY <1>5
  <2>2. PICK p \in 1..(Len(listing[l]) + 1) :
           listing' = [listing EXCEPT ![l] = InsertSong(listing[l], p, s)]
    BY <2>1 DEF ImportSong
  <2>3. InsertSong(listing[l], p, s) \in Seq(Songs)
    <3>1. listing[l] \in Seq(Songs)
      BY DEF TypeOK
    <3>2. InsertSong(listing[l], p, s) \in [1..(Len(listing[l]) + 1) -> Songs]
      BY <3>1 DEF InsertSong
    <3> QED
      BY <3>1, <3>2
  <2>4. listing' \in [Libraries -> Seq(Songs)]
    BY <2>2, <2>3 DEF TypeOK
  <2>5. CallbackOK'
    BY <2>1 DEF ImportSong, CallbackOK, InPair, AtSong, pluginVars, callbackVars
  <2>6. created' \in [Songs -> Nat] /\ scan' \in [Libraries -> Nat]
        /\ changes' \in Nat
    BY <2>1 DEF ImportSong, Change, TypeOK
  <2> QED
    BY <2>1, <2>4, <2>5, <2>6
       DEF ImportSong, TypeOK, pluginVars, callbackVars
<1> QED
  BY <1>1, <1>2, <1>3, <1>4, <1>5 DEF Environment

LEMMA TypeConfig ==
    TypeInv /\ (\E c \in Configs : ChangeConfig(c)) => TypeInv'
BY DEF TypeInv, ChangeConfig, Change, TypeOK, CallbackOK, InPair, AtSong, pluginVars,
       callbackVars

\* A callback that ends leaves nothing to be typed.
LEMMA TypeEndCallback ==
    ASSUME EndCallback
    PROVE  /\ pc' = "idle" /\ cur' \in SyncCursor /\ run' = None
           /\ threshold' \in Nat /\ page' \in Seq(Row) /\ more' \in BOOLEAN
           /\ decided' \in Stars \union {None}
           /\ seen' \in [Libraries -> Nat \union {None}]
           /\ CallbackOK'
<1>1. At(1, 1) \in SyncCursor
  BY AtType
<1>2. <<>> \in Seq(Row)
  OBVIOUS
<1>3. [l \in Libraries |-> None] \in [Libraries -> Nat \union {None}]
  OBVIOUS
<1>4. CallbackOK'
  BY DEF EndCallback, CallbackOK, InPair, AtSong
<1> QED
  BY <1>1, <1>2, <1>3, <1>4 DEF EndCallback

LEMMA MarkType ==
    ASSUME TypeOK, NEW c \in SyncCursor, MarkSweepActive(c)
    PROVE  record' \in SweepRecord \union {None} /\ faults' \in Nat
BY RecordTypes, MissedType DEF MarkSweepActive, Fault, TypeOK

LEMMA MarkInterruptedType ==
    ASSUME TypeOK, NEW c \in SyncCursor \union {None}, MarkSweepInterrupted(c)
    PROVE  record' \in SweepRecord \union {None}
BY InterruptedType DEF MarkSweepInterrupted, TypeOK

LEMMA FaultType ==
    ASSUME TypeOK, NEW kind, Fault(kind)
    PROVE  faults' \in Nat
BY DEF Fault, TypeOK

LEMMA TypeBegin ==
    ASSUME TypeInv, NEW c \in SyncCursor, BeginCallback(c),
           record' \in SweepRecord \union {None}, faults' \in Nat,
           pending' \subseteq pending
    PROVE  TypeInv'
BY DEF BeginCallback, TypeInv, TypeOK, CallbackOK, InPair, AtSong, envVars

LEMMA TypeStart == TypeInv /\ (Trigger \/ Continue) => TypeInv'
<1> SUFFICES ASSUME TypeInv, Trigger \/ Continue PROVE TypeInv'
  OBVIOUS
<1>1. CASE StartSweep
  <2>1. SweepStart(record) \in SyncCursor
    BY SweepStartType DEF TypeInv, TypeOK
  <2>2. cur' = SweepStart(record) /\ pending' = pending
    BY <1>1 DEF StartSweep, BeginCallback
  <2> QED
    BY <1>1, <2>1, <2>2, MarkType, TypeBegin DEF StartSweep, TypeInv
<1>2. CASE StartSweepUnguarded
  <2>1. At(1, 1) \in SyncCursor /\ Marked(At(1, 1)) \in SweepRecord
    BY AtType, RecordTypes
  <2>2. /\ BeginCallback(At(1, 1)) /\ pending' = pending
        /\ record' \in {Marked(cur'), Missed(record)} /\ cur' = At(1, 1)
    BY <1>2 DEF StartSweepUnguarded, BeginCallback
  <2>3. faults' \in Nat
    BY <1>2, FaultType DEF StartSweepUnguarded, TypeInv
  <2>4. record' \in SweepRecord \union {None}
    BY <2>1, <2>2, MissedType DEF TypeInv, TypeOK
  <2> QED
    BY <2>1, <2>2, <2>3, <2>4, TypeBegin
<1>3. CASE Continue
  <2>1. PICK c \in pending : /\ BeginCallback(c) /\ MarkSweepActive(c)
                             /\ pending' = pending \ {c}
    BY <1>3 DEF Continue
  <2>2. c \in SyncCursor
    BY DEF TypeInv, TypeOK
  <2> QED
    BY <2>1, <2>2, MarkType, TypeBegin DEF TypeInv
<1>4. CASE NoLibraries
  <2>1. record' \in SweepRecord \union {None}
    BY <1>4, MarkInterruptedType DEF NoLibraries, TypeInv
  <2>2. pending' \subseteq pending
    BY <1>4 DEF NoLibraries
  <2> QED
    BY <1>4, <2>1, <2>2
       DEF NoLibraries, TypeInv, TypeOK, CallbackOK, InPair, AtSong, envVars, callbackVars
<1> QED
  BY <1>1, <1>2, <1>3, <1>4 DEF Trigger

\* A step of the loop of runSyncChunk stays outside of a pair.
LEMMA TypeChoosing ==
    ASSUME TypeInv, Choosing,
           ExhaustedLibrary \/ DeadlineBeforePair \/ SkipBlankUser
           \/ SkipDeniedPair \/ SkipUnscannedPair \/ SkipUnmountedPair
    PROVE  TypeInv'
<1>1. cur' \in SyncCursor
  BY NextPairType
     DEF ExhaustedLibrary, DeadlineBeforePair, SkipBlankUser, SkipDeniedPair,
         SkipUnscannedPair, SkipUnmountedPair, SkipPair, TypeInv, TypeOK
<1>2. faults' \in Nat
  BY FaultType
     DEF ExhaustedLibrary, DeadlineBeforePair, SkipBlankUser, SkipDeniedPair,
         SkipUnscannedPair, SkipUnmountedPair, TypeInv, TypeOK
<1>3. seen' \in [Libraries -> Nat \union {None}]
  BY DEF ExhaustedLibrary, DeadlineBeforePair, SkipBlankUser, SkipDeniedPair,
         SkipUnscannedPair, SkipUnmountedPair, TypeInv, TypeOK, LookUp, Scanned
<1>4. /\ UNCHANGED <<envVars, rating, excused, last, pending, run, page, more,
                     decided, record, threshold, crash>>
      /\ pc' \in {"start", "pair", "handover"} /\ pc # "idle"
  BY DEF Choosing, ExhaustedLibrary, DeadlineBeforePair, SkipBlankUser,
         SkipDeniedPair, SkipUnscannedPair, SkipUnmountedPair, SkipPair,
         chunkRest
<1> QED
  BY <1>1, <1>2, <1>3, <1>4 DEF TypeInv, TypeOK, CallbackOK, InPair, AtSong, envVars

LEMMA TypeStartPair == TypeInv /\ StartPair => TypeInv'
<1> SUFFICES ASSUME TypeInv, StartPair PROVE TypeInv'
  OBVIOUS
<1> DEFINE id == PairID(libraryConfig, userConfig)
           c == ForThisPair(cur, id)
<1>1. SelectedPair /\ userConfig.name # None
  BY DEF StartPair
<1>2. id \in Pairs /\ libraryConfig.id \in Libraries /\ run \in Configs
  BY <1>1, SelectedType DEF TypeInv
<1>3. c \in SyncCursor /\ (c.pairStart # 0 => c.pair = id)
  BY <1>2, ForThisPairType DEF TypeInv, TypeOK
<1>4. EnterPair(c, id) /\ LookUp(libraryConfig.id) /\ threshold' \in Nat
  BY <1>1, ThresholdType DEF StartPair, TypeInv
<1>5. faults' \in Nat
  BY FaultType DEF StartPair, TypeInv, TypeOK
<1>6. cur' \in SyncCursor /\ cur'.pair \in Pairs /\ cur'.pairStart # 0
  <2> HIDE DEF c, id
  <2>1. now \in Nat \ {0}
    BY DEF TypeInv, TypeOK
  <2>2. CASE c.pairStart = 0
    BY <1>2, <1>3, <1>4, <2>1, <2>2 DEF EnterPair, SyncCursor
  <2>3. CASE c.pairStart # 0
    BY <1>2, <1>3, <1>4, <2>3 DEF EnterPair
  <2> QED
    BY <2>2, <2>3
<1>7. seen' \in [Libraries -> Nat \union {None}]
  BY <1>4 DEF LookUp, Scanned, TypeInv, TypeOK
<1>8. crash' \in Crash \union {None} /\ pc' = "page"
  BY <1>4 DEF EnterPair, TypeInv, TypeOK
<1> QED
  BY <1>2, <1>4, <1>5, <1>6, <1>7, <1>8
     DEF EnterPair, chunkRest, envVars, TypeInv, TypeOK, CallbackOK, InPair, AtSong

LEMMA TypeStorePosition == TypeInv /\ StorePosition => TypeInv'
<1> SUFFICES ASSUME TypeInv, StorePosition PROVE TypeInv'
  OBVIOUS
<1>1. record' \in SweepRecord \union {None} /\ faults' \in Nat
  BY MarkType DEF StorePosition, TypeInv, TypeOK
<1> QED
  BY <1>1 DEF StorePosition, fetchRest, pairRest, envVars, TypeInv, TypeOK, CallbackOK, InPair, AtSong

LEMMA TypeFetchPage == TypeInv /\ FetchPage => TypeInv'
<1> SUFFICES ASSUME TypeInv, FetchPage PROVE TypeInv'
  OBVIOUS
<1>1. cur.pair.lib \in Libraries /\ cur.pair.user \in Users /\ cur.offset \in Nat
  BY DEF FetchPage, TypeInv, TypeOK, CallbackOK, InPair, AtSong, Pairs, SyncCursor
<1>2. page' \in Seq(Row)
  BY <1>1, PageRowsType DEF FetchPage, TypeInv
<1>3. pc' \in {"finish", "song"} /\ (pc' = "song" => page' # <<>>) /\ more' \in BOOLEAN
  BY DEF FetchPage
<1> QED
  BY <1>2, <1>3
     DEF FetchPage, fetchRest, pairRest, envVars, TypeInv, TypeOK, CallbackOK, InPair, AtSong

LEMMA TypePageFails == TypeInv /\ PageFails => TypeInv'
<1> SUFFICES ASSUME TypeInv, PageFails PROVE TypeInv'
  OBVIOUS
<1>1. cur' \in SyncCursor /\ pc' \in {"pair", "handover"}
  BY NextPairType, FailedType DEF PageFails, TypeInv, TypeOK
<1>2. faults' \in Nat
  BY FaultType DEF PageFails, TypeInv, TypeOK
<1> QED
  BY <1>1, <1>2
     DEF PageFails, fetchRest, pairRest, envVars, TypeInv, TypeOK, CallbackOK, InPair, AtSong

LEMMA DecisionType ==
    ASSUME TypeOK, NEW st \in Settings, NEW row \in Row, NEW t \in Nat
    PROVE  Decision(st, row, t) \in Stars \union {None}
<1>1. content[row.song][st.order] \in Reading
  BY ConfigAssumption DEF TypeOK, Row, Settings
<1> QED
  BY <1>1 DEF Decision, Reading, Stars

\* The parts of a sequence that is not empty.
LEMMA HeadAndTail ==
    ASSUME NEW S, NEW q \in Seq(S), q # <<>>
    PROVE  Head(q) \in S /\ Tail(q) \in Seq(S)
OBVIOUS

\* A table of tables with one entry replaced.
LEMMA ExceptType ==
    ASSUME NEW A, NEW B, NEW C, NEW f \in [A -> [B -> C]],
           NEW a \in A, NEW b \in B, NEW c \in C
    PROVE  [f EXCEPT ![a][b] = c] \in [A -> [B -> C]]
OBVIOUS

\* The song in hand, and the pair it is looked at for.
LEMMA SongType ==
    ASSUME TypeInv, AtSong
    PROVE  /\ cur.pair \in Pairs /\ cur.pairStart # 0
           /\ cur.pair.user \in Users /\ cur.pair.settings \in Settings
           /\ Head(page).song \in Songs /\ Tail(page) \in Seq(Row)
           /\ verdict \in Stars \union {None}
<1>1. /\ cur.pair \in Pairs /\ cur.pairStart # 0
      /\ page \in Seq(Row) /\ page # <<>>
  BY DEF TypeInv, TypeOK, CallbackOK, InPair
<1>2. cur.pair.user \in Users /\ cur.pair.settings \in Settings
  BY <1>1 DEF Pairs
<1>3. Head(page) \in Row /\ Tail(page) \in Seq(Row)
  BY <1>1, HeadAndTail
<1>4. verdict \in Stars \union {None}
  BY <1>2, <1>3, DecisionType DEF verdict, TypeInv, TypeOK
<1> QED
  BY <1>1, <1>2, <1>3, <1>4 DEF Row

\* A song is done with, whatever it got.
LEMMA TypeAfterSong ==
    ASSUME TypeInv, AtSong, AfterSong, UNCHANGED envVars, faults' \in Nat,
           rating' \in [Users -> [Songs -> Stars]],
           excused' \in [Users -> [Songs -> BOOLEAN]]
    PROVE  TypeInv'
<1>1. /\ cur.pair \in Pairs /\ cur.pairStart # 0
      /\ Tail(page) \in Seq(Row) /\ run \in Configs
  BY SongType DEF AtSong, TypeInv, CallbackOK
<1>2. cur' \in SyncCursor /\ cur'.pair = cur.pair /\ cur'.pairStart = cur.pairStart
  BY NextSongType DEF AfterSong, TypeInv, TypeOK, NextSong, SyncCursor
<1>3. /\ pc' \in {"handover", "song", "page", "finish"}
      /\ pc' = "song" => page' # <<>>
      /\ page' \in Seq(Row) /\ decided' = None
  BY <1>1 DEF AfterSong
<1> QED
  BY <1>1, <1>2, <1>3
     DEF AfterSong, pairRest, envVars, TypeInv, TypeOK, CallbackOK, InPair,
         AtSong

LEMMA TypeSongFails == TypeInv /\ AtSong /\ SongFails => TypeInv'
<1> SUFFICES ASSUME TypeInv, AtSong, SongFails PROVE TypeInv'
  OBVIOUS
<1> DEFINE u == cur.pair.user
           s == Head(page).song
           b == excused[u][s] \/ mtime[s] < cur.pairStart
<1>1. u \in Users /\ s \in Songs
  BY SongType
<1>2. excused \in [Users -> [Songs -> BOOLEAN]] /\ b \in BOOLEAN
  BY <1>1 DEF TypeInv, TypeOK
<1>3. excused' = [excused EXCEPT ![u][s] = b]
  BY <1>1, <1>2 DEF SongFails
<1> HIDE DEF u, s, b
<1>4. excused' \in [Users -> [Songs -> BOOLEAN]]
  BY <1>1, <1>2, <1>3, ExceptType, Zenon
<1>5. faults' \in Nat /\ rating' \in [Users -> [Songs -> Stars]]
  BY FaultType DEF SongFails, TypeInv, TypeOK
<1>6. AfterSong /\ UNCHANGED envVars
  BY DEF SongFails, AfterSong, pairRest
<1> QED
  BY <1>4, <1>5, <1>6, TypeAfterSong

LEMMA TypeReadSong == TypeInv /\ ReadSong => TypeInv'
<1> SUFFICES ASSUME TypeInv, ReadSong PROVE TypeInv'
  OBVIOUS
<1>1. AtSong /\ pc = "song"
  BY DEF ReadSong, AtSong
<1>2. CASE pc' = "rate" /\ decided' = verdict /\ verdict # None /\ ~run.dryRun
           /\ UNCHANGED <<pairRest, faults, rating, excused, record, cur,
                          page, more, crash>>
  <2>1. decided' \in Stars /\ decided' # None
    BY <1>1, <1>2, SongType
  <2> QED
    BY <1>1, <1>2, <2>1
       DEF pairRest, envVars, TypeInv, TypeOK, CallbackOK, InPair, AtSong
<1>3. CASE UNCHANGED <<faults, rating, excused>> /\ AfterSong
  <2>1. UNCHANGED envVars
    BY <1>3 DEF AfterSong, pairRest
  <2> QED
    BY <1>1, <1>3, <2>1, TypeAfterSong DEF TypeInv, TypeOK
<1> QED
  BY <1>1, <1>2, <1>3, TypeSongFails DEF ReadSong

LEMMA TypeRateSong == TypeInv /\ RateSong => TypeInv'
<1> SUFFICES ASSUME TypeInv, RateSong PROVE TypeInv'
  OBVIOUS
<1> DEFINE u == cur.pair.user
           s == Head(page).song
<1>1. AtSong /\ decided \in Stars
  BY DEF RateSong, AtSong, TypeInv, TypeOK, CallbackOK
<1>2. u \in Users /\ s \in Songs
  BY <1>1, SongType
<1>3. CASE /\ rating' = [rating EXCEPT ![u][s] = decided]
           /\ excused' = [excused EXCEPT ![u][s] = FALSE]
           /\ UNCHANGED faults /\ AfterSong
  <2> HIDE DEF u, s
  <2>1. rating' \in [Users -> [Songs -> Stars]]
    BY <1>1, <1>2, <1>3, ExceptType DEF TypeInv, TypeOK
  <2>2. excused' \in [Users -> [Songs -> BOOLEAN]]
    <3>1. excused \in [Users -> [Songs -> BOOLEAN]] /\ FALSE \in BOOLEAN
      BY DEF TypeInv, TypeOK
    <3> QED
      BY <1>2, <1>3, <3>1, ExceptType, Zenon
  <2>3. UNCHANGED envVars /\ faults' \in Nat
    BY <1>3 DEF AfterSong, pairRest, TypeInv, TypeOK
  <2> QED
    BY <1>1, <1>3, <2>1, <2>2, <2>3, TypeAfterSong
<1> QED
  BY <1>1, <1>3, TypeSongFails DEF RateSong

LEMMA TypeFinishPair == TypeInv /\ FinishPair => TypeInv'
<1> SUFFICES ASSUME TypeInv, FinishPair PROVE TypeInv'
  OBVIOUS
<1>1. /\ cur.pair \in Pairs /\ cur.pairStart \in Nat
      /\ cur' \in SyncCursor
  BY NextPairType
     DEF FinishPair, TypeInv, TypeOK, CallbackOK, InPair, AtSong, SyncCursor
<1>2. [stamp |-> SavedStamp, fingerprint |-> cur.pair.settings] \in LastSynced
  BY <1>1 DEF SavedStamp, LastSynced, Pairs
<1>3. last' \in [Libraries -> [Users -> LastSynced \union {None}]]
  <2> DEFINE saved == [stamp |-> SavedStamp,
                       fingerprint |-> cur.pair.settings]
  <2>1. last' = last \/ last' = [last EXCEPT ![cur.pair.lib][cur.pair.user] = saved]
    BY DEF FinishPair
  <2>2. saved \in LastSynced \union {None}
    BY <1>2
  <2>3. cur.pair.lib \in Libraries /\ cur.pair.user \in Users
    BY <1>1 DEF Pairs
  <2>4. last \in [Libraries -> [Users -> LastSynced \union {None}]]
    BY DEF TypeInv, TypeOK
  <2> HIDE DEF saved
  <2>5. [last EXCEPT ![cur.pair.lib][cur.pair.user] = saved]
           \in [Libraries -> [Users -> LastSynced \union {None}]]
    BY <2>2, <2>3, <2>4, ExceptType
  <2> QED
    BY <2>1, <2>4, <2>5
<1>4. faults' \in Nat
  BY FaultType DEF FinishPair, TypeInv, TypeOK
<1>5. <<>> \in Seq(Row)
  OBVIOUS
<1> QED
  BY <1>1, <1>3, <1>4, <1>5
     DEF FinishPair, envVars, TypeInv, TypeOK, CallbackOK, InPair, AtSong

LEMMA TypeCompleteSweep == TypeInv /\ CompleteSweep => TypeInv'
<1> SUFFICES ASSUME TypeInv, CompleteSweep PROVE TypeInv'
  OBVIOUS
<1>1. record' \in SweepRecord \union {None}
  <2>1. Cleared \in SweepRecord
    BY DEF Cleared, SweepRecord
  <2>2. record' = None \/ record' = Cleared \/ record' = record
    BY DEF CompleteSweep
  <2> QED
    BY <2>1, <2>2 DEF TypeInv, TypeOK
<1>2. faults' \in Nat
  BY FaultType DEF CompleteSweep, TypeInv, TypeOK
<1> QED
  BY <1>1, <1>2
     DEF CompleteSweep, SweepDone, Choosing, chunkRest, envVars, TypeInv,
         TypeOK, CallbackOK, InPair, AtSong

LEMMA TypeEnd ==
    TypeInv /\ (\/ DeleteStaleThresholds \/ Reschedule \/ RescheduleRefused
                \/ Crashes \/ Reload) => TypeInv'
<1> SUFFICES ASSUME TypeInv,
                    \/ DeleteStaleThresholds \/ Reschedule
                    \/ RescheduleRefused \/ Crashes \/ Reload
             PROVE  TypeInv'
  OBVIOUS
<1>1. EndCallback
  BY DEF DeleteStaleThresholds, Reschedule, RescheduleRefused, Crashes, Reload
<1>2. faults' \in Nat
  BY FaultType DEF DeleteStaleThresholds, Reschedule, RescheduleRefused,
                   Crashes, Reload, TypeInv, TypeOK
<1>3. record' \in SweepRecord \union {None}
  BY MarkInterruptedType
     DEF DeleteStaleThresholds, Reschedule, RescheduleRefused, Crashes,
         Reload, TypeInv, TypeOK
<1>4. last' \in [Libraries -> [Users -> LastSynced \union {None}]]
  <2>1. last \in [Libraries -> [Users -> LastSynced \union {None}]]
    BY DEF TypeInv, TypeOK
  <2>2. CASE DeleteStaleThresholds
    <3>2. \A gone : [l \in Libraries |-> [u \in Users |->
                       IF <<l, u>> \in gone THEN None ELSE last[l][u]]]
             \in [Libraries -> [Users -> LastSynced \union {None}]]
      BY <2>1
    <3>3. [l \in Libraries |-> [u \in Users |->
              IF Configured(run, l, u) THEN last[l][u] ELSE None]]
             \in [Libraries -> [Users -> LastSynced \union {None}]]
      BY <2>1
    <3>4. \/ last' = [l \in Libraries |-> [u \in Users |->
                        IF Configured(run, l, u) THEN last[l][u] ELSE None]]
          \/ \E gone : last' = [l \in Libraries |-> [u \in Users |->
                        IF <<l, u>> \in gone THEN None ELSE last[l][u]]]
      BY <2>2, Zenon DEF DeleteStaleThresholds
    <3>5. CASE \E gone : last' = [l \in Libraries |-> [u \in Users |->
                        IF <<l, u>> \in gone THEN None ELSE last[l][u]]]
      BY <3>2, <3>5
    <3> QED
      BY <3>3, <3>4, <3>5
  <2>3. CASE ~DeleteStaleThresholds
    BY <2>1, <2>3 DEF Reschedule, RescheduleRefused, Crashes, Reload
  <2> QED
    BY <2>2, <2>3
<1>5. crash' \in Crash \union {None}
  <2>1. [song |-> IF pc = "song" THEN Head(page).song ELSE None,
         pair |-> cur.pair, index |-> cur.offset] \in Crash
    <3>1. cur.pair \in Pairs \union {None} /\ cur.offset \in Nat
      BY DEF TypeInv, TypeOK, SyncCursor
    <3>2. (IF pc = "song" THEN Head(page).song ELSE None)
             \in Songs \union {None}
      BY SongType DEF AtSong
    <3> QED
      BY <3>1, <3>2 DEF Crash
  <2>2. crash' = None \/ crash' = crash
        \/ crash' = [song |-> IF pc = "song" THEN Head(page).song ELSE None,
                     pair |-> cur.pair, index |-> cur.offset]
    BY DEF DeleteStaleThresholds, Reschedule, RescheduleRefused, Crashes,
           Reload
  <2> QED
    BY <2>1, <2>2 DEF TypeInv, TypeOK
<1>6. pending' \in SUBSET SyncCursor
  BY DEF DeleteStaleThresholds, Reschedule, RescheduleRefused, Crashes,
         Reload, TypeInv, TypeOK
<1>7. UNCHANGED <<envVars, rating, excused>>
  BY DEF DeleteStaleThresholds, Reschedule, RescheduleRefused, Crashes, Reload
<1> QED
  BY <1>1, <1>2, <1>3, <1>4, <1>5, <1>6, <1>7, TypeEndCallback
     DEF TypeInv, TypeOK, envVars

LEMMA TypeExpire == TypeInv /\ Expire => TypeInv'
BY DEF Expire, TypeInv, TypeOK, CallbackOK, InPair, AtSong, envVars, callbackVars,
       SweepRecord

LEMMA TypeStep == TypeInv /\ [Next]_vars => TypeInv'
<1> SUFFICES ASSUME TypeInv, [Next]_vars PROVE TypeInv'
  OBVIOUS
<1>1. CASE UNCHANGED vars
  BY <1>1 DEF vars, envVars, callbackVars, TypeInv, TypeOK, CallbackOK, InPair, AtSong
<1>2. CASE CallbackStep
  BY <1>2, TypeChoosing, TypeStartPair, TypeStorePosition, TypeFetchPage,
     TypePageFails, TypeReadSong, TypeRateSong, TypeFinishPair, TypeCompleteSweep, TypeEnd
     DEF CallbackStep, ExhaustedLibrary, DeadlineBeforePair, SkipBlankUser,
         SkipDeniedPair, SkipUnscannedPair, SkipUnmountedPair, SelectedPair
<1>3. CASE Plugin
  BY <1>2, <1>3, TypeStart, TypeEnd, TypeExpire DEF Plugin
<1>4. CASE \E c \in Configs : SteadyChange(c)
  BY <1>4, TypeConfig DEF SteadyChange
<1> QED
  BY <1>1, <1>3, <1>4, TypeEnvironment DEF Next

(* Every variable keeps its type: in particular an attempt counter never   *)
(* reaches maxPairAttempts, and a callback inside a pair always has one.   *)
THEOREM Typing == Spec => []TypeOK
<1>1. TypeInv => TypeOK
  BY DEF TypeInv
<1> QED
  BY <1>1, TypeInit, TypeStep, PTL DEF Spec

=============================================================================
