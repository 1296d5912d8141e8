-------------------------- MODULE RatingSyncSafety --------------------------
(***************************************************************************)
(* The proof that no saved threshold hides work (ThresholdSound) and that  *)
(* a sweep may resume at every position it keeps (PositionSound), for      *)
(* every value of the constants.  The inductive invariant is IInv.         *)
(***************************************************************************)
EXTENDS RatingSyncProofs

-----------------------------------------------------------------------------
(* What a written rating agrees with *)

\* A rating the plugin decides on is what every settings with the same tag
\* order ask for, or do not contradict.
LEMMA WriteAgrees ==
    ASSUME TypeOK, NEW st \in Settings, NEW mine \in Settings,
           st.order = mine.order, NEW row \in Row, NEW t \in Nat,
           Decision(mine, row, t) # None
    PROVE  Agrees(st, content[row.song][st.order], Decision(mine, row, t))
<1>1. content[row.song][st.order] \in Reading
  BY ConfigAssumption DEF TypeOK, Row, Settings
<1> QED
  BY <1>1 DEF Decision, Agrees, Reading

\* A song that is read and not written has the rating in its row.
LEMMA NothingToWrite ==
    ASSUME TypeOK, NEW st \in Settings, NEW row \in Row, NEW t \in Nat,
           Decision(st, row, t) = None, ~Unchanged(row.song, t)
    PROVE  Agrees(st, content[row.song][st.order], row.userRating)
<1> DEFINE r == content[row.song][st.order]
<1>1. r \in Reading
  BY ConfigAssumption DEF TypeOK, Row, Settings
<1>2. /\ r.stars \in Stars /\ row.userRating \in Stars
      /\ r.result \in {"TagFound", "TagAbsent", "FileUnreadable",
                       "TagNotWholeStar"}
      /\ None \notin Stars /\ 0 \in Stars
  BY <1>1, NoneAssumption DEF Reading, Row, Stars
<1>3. CASE Skipped(st, row)
  BY <1>3 DEF Skipped, Agrees
<1>4. CASE ~Skipped(st, row)
  <2> HIDE DEF r
  <2>1. /\ ~(r.result = "TagFound" /\ r.stars # row.userRating)
        /\ ~(r.result = "TagAbsent" /\ st.clear /\ row.userRating # 0)
    BY <1>2, <1>4 DEF Decision, r
  <2> QED
    BY <1>2, <2>1 DEF Agrees, r
<1> QED
  BY <1>3, <1>4

(* What becomes of the song in hand: it is read and its rating is on its   *)
(* way, it is passed over, it is rated, or the plugin fails on it.         *)

SongRead ==
    /\ pc = "song" /\ pc' = "rate" /\ decided' = verdict
    /\ verdict # None /\ ~run.dryRun
    /\ UNCHANGED <<pairRest, faults, rating, excused, record, cur, page, more,
                   crash>>

Passed ==
    /\ pc = "song" /\ AfterSong
    /\ verdict = None \/ run.dryRun
    /\ UNCHANGED <<rating, excused>>

Rated ==
    /\ pc = "rate" /\ AfterSong
    /\ rating' = [rating EXCEPT ![cur.pair.user][Head(page).song] = decided]
    /\ excused' = [excused EXCEPT ![cur.pair.user][Head(page).song] = FALSE]

SongLost == AtSong /\ SongFails

SongDone == Passed \/ Rated \/ SongLost

LEMMA SongStep ==
    ASSUME ReadSong \/ RateSong
    PROVE  SongRead \/ SongDone
BY DEF ReadSong, RateSong, SongRead, SongDone, Passed, Rated, SongLost, AtSong

\* A song that is done with: the callback goes on behind it.
LEMMA SongDoneStep ==
    ASSUME SongDone
    PROVE  AtSong /\ AfterSong /\ UNCHANGED envVars
BY DEF SongDone, Passed, Rated, SongLost, SongFails, AtSong, AfterSong, pairRest

\* A failure excuses a song whose file is older than the pair.
LEMMA LostExcuses ==
    ASSUME TypeOK, SongLost, cur.pair.user \in Users, Head(page).song \in Songs,
           NEW b, b = (excused[cur.pair.user][Head(page).song]
                       \/ mtime[Head(page).song] < cur.pairStart)
    PROVE  /\ rating' = rating /\ b \in BOOLEAN
           /\ excused' = [excused EXCEPT ![cur.pair.user][Head(page).song] = b]
<1>1. excused \in [Users -> [Songs -> BOOLEAN]]
  BY DEF TypeOK
<1> QED
  BY <1>1 DEF SongLost, SongFails

\* A step leaves everything Accounted looks at alone, or is one of five.
LEMMA StepKinds ==
    ASSUME [Next]_vars
    PROVE  \/ UNCHANGED <<mtime, created, content, rating, excused>>
           \/ \E s \in Songs : EditFile(s)
           \/ \E u \in Users, s \in Songs : UserRates(u, s)
           \/ \E l \in Libraries, s \in Songs : ImportSong(l, s)
           \/ Rated \/ SongLost
<1>1. CASE UNCHANGED vars
  BY <1>1 DEF vars, envVars
<1>2. CASE Environment
  BY <1>2 DEF Environment, Tick, Rescan
<1>3. CASE \E c \in Configs : SteadyChange(c)
  BY <1>3 DEF SteadyChange, ChangeConfig
<1>4. CASE Trigger \/ Continue
  BY <1>4 DEF Trigger, Continue, StartSweep, StartSweepUnguarded,
              BeginCallback, NoLibraries, envVars
<1>5. CASE Crashes \/ Reload \/ Expire
  BY <1>5 DEF Crashes, Reload, Expire, envVars
<1>6. CASE CallbackStep /\ ~ReadSong /\ ~RateSong
  BY <1>6 DEF CallbackStep, ExhaustedLibrary, DeadlineBeforePair, SkipPair,
              SkipBlankUser, SkipDeniedPair, SkipUnscannedPair,
              SkipUnmountedPair, StartPair, EnterPair, chunkRest,
              StorePosition, FetchPage, PageFails, fetchRest, pairRest, FinishPair,
              CompleteSweep, DeleteStaleThresholds, Reschedule,
              RescheduleRefused, envVars
<1>7. CASE ReadSong \/ RateSong
  BY <1>7, SongStep DEF SongRead, SongDone, Passed, AfterSong, pairRest, envVars
<1> QED
  BY <1>1, <1>2, <1>3, <1>4, <1>5, <1>6, <1>7 DEF Next, Plugin, CallbackStep

\* What the invariant says of the song in hand.
LEMMA InHand ==
    ASSUME IInv, AtSong
    PROVE  /\ cur.pair \in Pairs /\ InHomeOrder(cur.pair)
           /\ cur.pairStart \in Nat /\ cur.pairStart # 0
           /\ cur.pairStart <= now
           /\ cur.offset \in Nat /\ page \in Seq(Row) /\ page # <<>>
           /\ Head(page) \in Row /\ Head(page) = page[1]
           /\ Len(page) \in Nat /\ Len(page) >= 1
           /\ cur.pair.user \in Users /\ cur.pair.settings \in Settings
           /\ cur.pair.lib \in Libraries /\ Head(page).song \in Songs
<1>1. /\ cur.pair \in Pairs /\ cur.pairStart # 0
      /\ page \in Seq(Row) /\ page # <<>>
      /\ cur.pairStart \in Nat /\ cur.offset \in Nat
  BY DEF IInv, TypeOK, CallbackOK, InPair, AtSong, SyncCursor
<1>2. cur \in Positions
  BY DEF Positions, AtSong
<1>3. cur.pair # None
  BY <1>1, NoneAssumption
<1>4. InHomeOrder(cur.pair) /\ cur.pairStart <= now
  BY <1>2, <1>3 DEF IInv, HomeOrderKept, StampsPast
<1>5. Head(page) = page[1] /\ Len(page) \in Nat /\ Len(page) >= 1
  BY <1>1
<1>6. Head(page) \in Row
  BY <1>1, HeadAndTail
<1> QED
  BY <1>1, <1>4, <1>5, <1>6 DEF Pairs, Row

LEMMA HeadListed ==
    ASSUME IInv, AtSong
    PROVE  Contains(cur.pair.lib, Head(page).song)
<1>1. 1 \in 1..Len(page) /\ Head(page) = page[1]
  BY InHand
<1> QED
  BY <1>1 DEF IInv, RowsListed, pairListing, Contains

\* A rating that a save of the file has overtaken comes after time t.
TimeKept(t) == Overtaken => t <= mtime[Head(page).song]

\* It comes after every start and threshold the plugin keeps.
LEMMA TimesKept ==
    ASSUME IInv
    PROVE  /\ \A c \in Positions : TimeKept(c.pairStart)
           /\ \A l \in Libraries : \A u \in Users :
                 last[l][u] # None => TimeKept(last[l][u].stamp)
BY DEF IInv, OvertakenIsNew, TimeKept

\* A song that is accounted for stays so: a file that changes or a song that
\* is imported is as new as the clock, and no write disagrees.
LEMMA AccountedStable ==
    ASSUME IInv, [Next]_vars, NEW p \in Pairs, InHomeOrder(p),
           NEW t \in Nat, t <= now, Rated => TimeKept(t),
           NEW s \in Songs, Contains(p.lib, s), Accounted(p, t, s)
    PROVE  Accounted(p, t, s)'
<1>1. /\ p.user \in Users /\ p.settings \in Settings /\ TypeOK
  BY DEF Pairs, IInv
<1>2. CASE UNCHANGED <<mtime, created, content, rating, excused>>
  BY <1>2 DEF Accounted, Settled
<1>3. ASSUME NEW e \in Songs, EditFile(e) PROVE Accounted(p, t, s)'
  <2>1. CASE e = s
    BY <1>1, <1>3, <2>1 DEF EditFile, Accounted, TypeOK
  <2>2. CASE e # s
    BY <1>1, <1>3, <2>2 DEF EditFile, Accounted, Settled, TypeOK
  <2> QED
    BY <2>1, <2>2
<1>4. ASSUME NEW u \in Users, NEW e \in Songs, UserRates(u, e)
      PROVE  Accounted(p, t, s)'
  <2>1. CASE u = p.user /\ e = s
    BY <1>1, <1>4, <2>1 DEF UserRates, Accounted, Settled, TypeOK
  <2>2. CASE ~(u = p.user /\ e = s)
    BY <1>1, <1>4, <2>2 DEF UserRates, Accounted, Settled, TypeOK
  <2> QED
    BY <2>1, <2>2
<1>5. ASSUME NEW l \in Libraries, NEW e \in Songs, ImportSong(l, e)
      PROVE  Accounted(p, t, s)'
  BY <1>1, <1>5 DEF ImportSong, Accounted, Settled, TypeOK
<1>6. CASE Rated
  <2> DEFINE u == cur.pair.user
             e == Head(page).song
  <2>1. AtSong /\ UNCHANGED <<mtime, created, content>>
    BY <1>6, SongDoneStep DEF SongDone, envVars
  <2>2. /\ Head(page) \in Row /\ cur.pair.settings \in Settings
        /\ u \in Users /\ e \in Songs /\ InHomeOrder(cur.pair)
        /\ cur.pair \in Pairs /\ threshold \in Nat
    BY <2>1, <1>1, InHand DEF TypeOK
  <2>3. decided \in Stars
    BY <1>1, <1>6 DEF Rated, IInv, CallbackOK, TypeOK
  <2>4. /\ rating' = [rating EXCEPT ![u][e] = decided]
        /\ excused' = [excused EXCEPT ![u][e] = FALSE]
        /\ rating \in [Users -> [Songs -> Stars]]
        /\ excused \in [Users -> [Songs -> BOOLEAN]]
    BY <1>1, <1>6 DEF Rated, TypeOK
  <2>5. CASE ~(u = p.user /\ e = s)
    <3>1. rating'[p.user][s] = rating[p.user][s]
          /\ excused'[p.user][s] = excused[p.user][s]
      <4> HIDE DEF u, e
      <4> QED
        BY <1>1, <2>2, <2>4, <2>5
    <3> QED
      BY <2>1, <3>1 DEF Accounted, Settled
  <2>6. CASE u = p.user /\ e = s /\ Overtaken
    BY <1>6, <2>1, <2>6 DEF TimeKept, Accounted, IInv, TypeOK
  <2>7. CASE u = p.user /\ e = s /\ ~Overtaken
    <3>1. decided = verdict /\ verdict # None
      BY <1>6, <2>3, <2>7, NoneAssumption DEF Overtaken, Rated
    <3>2. p.lib = cur.pair.lib
      BY <2>1, <2>2, <2>7, HeadListed DEF Contains, IInv, ListedOnce, Pairs
    <3>3. p.settings.order = cur.pair.settings.order
      BY <2>2, <2>7, <3>2 DEF InHomeOrder
    <3>4. Agrees(p.settings, content[e][p.settings.order], verdict)
      BY <1>1, <2>2, <3>1, <3>3, WriteAgrees DEF verdict
    <3>5. rating'[p.user][s] = decided
      <4> HIDE DEF u, e
      <4> QED
        BY <1>1, <2>2, <2>4, <2>7
    <3> QED
      BY <2>1, <2>7, <3>1, <3>4, <3>5 DEF Accounted, Settled
  <2> QED
    BY <2>5, <2>6, <2>7
<1>7. CASE SongLost
  <2>1. UNCHANGED <<mtime, created, content>> /\ AtSong
    BY <1>7, SongDoneStep DEF SongDone, envVars
  <2>2. cur.pair.user \in Users /\ Head(page).song \in Songs
    BY <2>1, InHand
  <2> DEFINE u == cur.pair.user
             e == Head(page).song
             b == excused[u][e] \/ mtime[e] < cur.pairStart
  <2>3. rating' = rating /\ excused' = [excused EXCEPT ![u][e] = b]
    BY <1>1, <1>7, <2>2, LostExcuses
  <2>4. excused \in [Users -> [Songs -> BOOLEAN]]
    BY <1>1 DEF TypeOK
  <2>5. excused[p.user][s] => excused'[p.user][s]
    BY <1>1, <2>2, <2>3, <2>4
  <2> QED
    BY <2>1, <2>3, <2>5 DEF Accounted, Settled
<1> QED
  BY <1>2, <1>3, <1>4, <1>5, <1>6, <1>7, StepKinds

-----------------------------------------------------------------------------
(* Where positions come from *)

SamePlace(c, d) ==
    c.pair = d.pair /\ c.pairStart = d.pairStart /\ c.offset = d.offset

\* A position the plugin already had, or one outside every pair.
Kept(c) ==
    \/ \E d \in Positions : SamePlace(c, d)
    \/ c.pair = None /\ c.pairStart = 0 /\ c.offset = 0

LEMMA OldPositions ==
    /\ pending \subseteq Positions
    /\ pc # "idle" => cur \in Positions
    /\ record # None /\ record.cursor # None => record.cursor \in Positions
BY DEF Positions

LEMMA PositionKept == ASSUME NEW c \in Positions PROVE Kept(c)
BY DEF Kept, SamePlace

LEMMA BlankKept == ASSUME NEW l, NEW u PROVE Kept(At(l, u))
BY DEF Kept, At

LEMMA SweepStartKept ==
    ASSUME TypeOK
    PROVE  Kept(SweepStart(record))
<1>1. CASE record = None \/ record.cursor = None
  BY <1>1, BlankKept DEF SweepStart
<1>2. CASE record # None /\ record.cursor # None
  <2>1. record.cursor \in Positions /\ record.cursor \in SyncCursor
    BY <1>2, OldPositions DEF TypeOK, SweepRecord
  <2>2. SamePlace(SweepStart(record), record.cursor)
    BY <1>2, <2>1 DEF SweepStart, SamePlace, SyncCursor
  <2> QED
    BY <2>1, <2>2 DEF Kept
<1> QED
  BY <1>1, <1>2

LEMMA FailedKept ==
    ASSUME TypeOK, pc # "idle"
    PROVE  Kept(Failed(cur))
<1>1. cur \in SyncCursor /\ cur \in Positions
  BY OldPositions DEF TypeOK
<1>2. SamePlace(Failed(cur), cur)
  BY <1>1 DEF Failed, SamePlace, SyncCursor
<1> QED
  BY <1>1, <1>2 DEF Kept

\* The position of the running callback after a step of the plugin.
LEMMA CurKept ==
    ASSUME TypeOK, Plugin, pc' # "idle", ~StartPair, ~SongDone
    PROVE  Kept(cur')
<1>1. CASE StartSweep
  BY <1>1, SweepStartKept DEF StartSweep, BeginCallback
<1>2. CASE StartSweepUnguarded
  BY <1>2, BlankKept DEF StartSweepUnguarded, BeginCallback
<1>3. CASE Continue
  BY <1>3, OldPositions, PositionKept DEF Continue, BeginCallback
<1>4. CASE NoLibraries \/ Crashes \/ Reload
  BY <1>4 DEF NoLibraries, Crashes, Reload, EndCallback, callbackVars
<1>5. CASE \/ ExhaustedLibrary \/ SkipBlankUser \/ SkipDeniedPair
           \/ SkipUnscannedPair \/ SkipUnmountedPair \/ FinishPair
  BY <1>5, BlankKept
     DEF ExhaustedLibrary, SkipBlankUser, SkipDeniedPair, SkipUnscannedPair,
         SkipUnmountedPair, SkipPair, FinishPair, NextPair, NextLibrary
<1>6. CASE \/ DeadlineBeforePair \/ StorePosition \/ FetchPage
           \/ ReadSong \/ RateSong \/ CompleteSweep \/ Expire
  <2>1. cur' = cur /\ pc # "idle"
    BY <1>6, SongStep
       DEF DeadlineBeforePair, StorePosition, FetchPage, CompleteSweep,
           SelectedPair, SweepDone, Choosing, SongRead, Expire, callbackVars
  <2> QED
    BY <2>1, OldPositions, PositionKept
<1>7. CASE PageFails
  BY <1>7, BlankKept, FailedKept DEF PageFails, NextPair
<1>8. CASE DeleteStaleThresholds \/ Reschedule \/ RescheduleRefused
  BY <1>8 DEF DeleteStaleThresholds, Reschedule, RescheduleRefused,
              EndCallback
<1> QED
  BY <1>1, <1>2, <1>3, <1>4, <1>5, <1>6, <1>7, <1>8
     DEF Plugin, CallbackStep, Trigger

LEMMA PendingKept ==
    ASSUME Plugin
    PROVE  pending' \subseteq pending \union (IF pc = "idle" THEN {} ELSE {cur})
<1>1. CASE Trigger \/ Continue
  BY <1>1 DEF Trigger, Continue, StartSweep, StartSweepUnguarded, NoLibraries
<1>2. CASE Crashes \/ Reload \/ Expire
  BY <1>2 DEF Crashes, Reload, Expire
<1>3. CASE Reschedule
  BY <1>3 DEF Reschedule
<1>4. CASE CallbackStep /\ ~Reschedule
  BY <1>4 DEF CallbackStep, ExhaustedLibrary, DeadlineBeforePair, SkipPair,
              SkipBlankUser, SkipDeniedPair, SkipUnscannedPair,
              SkipUnmountedPair, StartPair, EnterPair, chunkRest,
              StorePosition, FetchPage, PageFails, ReadSong, RateSong, SongFails,
              AfterSong, fetchRest, pairRest, FinishPair, CompleteSweep, DeleteStaleThresholds,
              RescheduleRefused
<1> QED
  BY <1>1, <1>2, <1>3, <1>4 DEF Plugin

\* The position in the sweep record after a step of the plugin.
LEMMA RecordKept ==
    ASSUME TypeOK, Plugin, record' # None, record'.cursor # None
    PROVE  Kept(record'.cursor)
<1> DEFINE Same(r) == r = None \/ r.cursor = None \/ Kept(r.cursor)
<1>1. Same(record) /\ Same(None)
  BY OldPositions, PositionKept
<1>2. \A c : Kept(c) => Same(Marked(c))
  BY DEF Marked
<1>3. Same(Cleared) /\ \A f : record # None =>
                          Same([record EXCEPT !.fresh = f])
  BY <1>1 DEF Cleared, TypeOK, SweepRecord
<1>15. Same(Missed(record))
  BY <1>1 DEF Missed, TypeOK, SweepRecord
<1>4. Same(Interrupted(record, None))
  BY <1>1 DEF Interrupted, TypeOK, SweepRecord
<1>5. pc # "idle" => /\ Same(Interrupted(record, cur))
                     /\ Same(Interrupted(None, cur))
  <2>1. pc # "idle" => Kept(cur)
    BY OldPositions, PositionKept
  <2> QED
    BY <1>1, <2>1 DEF Interrupted, TypeOK, SweepRecord
<1>6. CASE StartSweep \/ StartSweepUnguarded
  <2>1. Kept(cur')
    BY <1>6, SweepStartKept, BlankKept
       DEF StartSweep, StartSweepUnguarded, BeginCallback
  <2>2. record' \in {Marked(cur'), Missed(record)}
    BY <1>6 DEF StartSweep, StartSweepUnguarded, MarkSweepActive
  <2> QED
    BY <1>2, <1>15, <2>1, <2>2
<1>7. CASE Continue
  <2>1. PICK c \in pending : MarkSweepActive(c)
    BY <1>7 DEF Continue
  <2>2. Kept(c)
    BY OldPositions, PositionKept
  <2> QED
    BY <1>2, <1>15, <2>1, <2>2 DEF MarkSweepActive
<1>8. CASE NoLibraries \/ Reload
  BY <1>1, <1>4, <1>8 DEF NoLibraries, Reload, MarkSweepInterrupted
<1>9. CASE RescheduleRefused
  BY <1>1, <1>5, <1>9 DEF RescheduleRefused, MarkSweepInterrupted
<1>10. CASE StorePosition
  BY <1>2, <1>10, <1>15, OldPositions, PositionKept
     DEF StorePosition, MarkSweepActive
<1>11. CASE CompleteSweep
  BY <1>1, <1>3, <1>11 DEF CompleteSweep
<1>12. CASE Expire
  BY <1>3, <1>12 DEF Expire
<1>13. CASE Crashes
  BY <1>1, <1>13 DEF Crashes
<1>14. CASE CallbackStep /\ ~RescheduleRefused /\ ~StorePosition
            /\ ~CompleteSweep
  <2>1. record' = record
    BY <1>14
       DEF CallbackStep, ExhaustedLibrary, DeadlineBeforePair, SkipPair,
           SkipBlankUser, SkipDeniedPair, SkipUnscannedPair,
           SkipUnmountedPair, StartPair, EnterPair, chunkRest, FetchPage,
           PageFails, ReadSong, RateSong, SongFails,
           AfterSong, fetchRest, pairRest, FinishPair,
           DeleteStaleThresholds, Reschedule
  <2> QED
    BY <1>1, <2>1
<1> QED
  BY <1>6, <1>7, <1>8, <1>9, <1>10, <1>11, <1>12, <1>13, <1>14
     DEF Plugin, Trigger

-----------------------------------------------------------------------------
(* A processed song is accounted for *)

\* The three ways a row can be out of date still leave the song accounted for.
LEMMA RowInHand ==
    ASSUME IInv, AtSong
    PROVE  LET s == Head(page).song IN
           \/ Head(page).userRating = rating[cur.pair.user][s]
           \/ excused[cur.pair.user][s]
           \/ mtime[s] >= cur.pairStart
<1>1. 1 \in 1..Len(page) /\ Head(page) = page[1]
  BY InHand
<1> QED
  BY <1>1 DEF IInv, RowsCurrent

\* A song passed over as unchanged was settled when the threshold was saved.
LEMMA UnchangedSettled ==
    ASSUME IInv, AtSong, Unchanged(Head(page).song, threshold)
    PROVE  Settled(cur.pair.user, Head(page).song, cur.pair.settings)
<1> DEFINE p == cur.pair
           s == Head(page).song
<1>1. /\ threshold # 0 /\ threshold \in Nat
      /\ mtime[s] < threshold /\ created[s] < threshold
  BY DEF Unchanged, IInv, TypeOK
<1>2. /\ last[p.lib][p.user] # None
      /\ last[p.lib][p.user].stamp = threshold
      /\ last[p.lib][p.user].fingerprint = p.settings
  BY <1>1 DEF IInv, ThresholdLoaded, InPair, AtSong
<1>3. p \in Pairs /\ p.lib \in Libraries /\ p.user \in Users
  BY InHand DEF Pairs
<1>4. s \in Songs
  BY InHand DEF Row
<1>5. PICK i \in 1..Len(listing[p.lib]) : listing[p.lib][i] = s
  <2>1. 1 \in 1..Len(page) /\ Head(page) = page[1]
    BY InHand
  <2> QED
    BY <2>1 DEF IInv, RowsListed, pairListing
<1>6. Accounted([lib |-> p.lib, user |-> p.user, settings |-> p.settings],
                threshold, s)
  BY <1>2, <1>3, <1>5 DEF IInv, ThresholdSound
<1>7. mtime[s] \in Nat /\ created[s] \in Nat
  BY <1>4 DEF IInv, TypeOK
<1> QED
  BY <1>1, <1>6, <1>7 DEF Accounted

LEMMA Processed ==
    ASSUME IInv, SongDone, ~run.dryRun,
           NEW p, p = cur.pair, NEW t, t = cur.pairStart,
           NEW s, s = Head(page).song
    PROVE  Accounted(p, t, s)'
<1> DEFINE row == Head(page)
           r == content[s][p.settings.order]
<1>1. AtSong /\ UNCHANGED <<mtime, created, content>>
  BY SongDoneStep DEF envVars
<1>2. /\ p \in Pairs /\ p.user \in Users /\ p.settings \in Settings
      /\ row \in Row /\ s \in Songs /\ row.userRating \in Stars
      /\ TypeOK /\ threshold \in Nat /\ t \in Nat /\ mtime[s] \in Nat
  BY <1>1, InHand DEF Row, IInv, TypeOK
<1>3. CASE SongLost
  <2> DEFINE b == excused[p.user][s] \/ mtime[s] < t
  <2>1. excused' = [excused EXCEPT ![p.user][s] = b]
        /\ excused \in [Users -> [Songs -> BOOLEAN]]
    BY <1>2, <1>3, LostExcuses DEF TypeOK
  <2>2. excused'[p.user][s] = b
    <3> HIDE DEF b
    <3> QED
      BY <1>2, <2>1
  <2>3. CASE mtime[s] < t
    <3>1. excused'[p.user][s]
      BY <2>2, <2>3
    <3> QED
      BY <3>1 DEF Accounted, Settled
  <2>4. CASE ~(mtime[s] < t)
    BY <1>1, <1>2, <2>4 DEF Accounted
  <2> QED
    BY <2>3, <2>4
<1>4. CASE Rated
  <2>1. rating'[p.user][s] = decided /\ decided # None
    BY <1>2, <1>4 DEF Rated, TypeOK, IInv, CallbackOK
  <2>2. CASE Overtaken
    <3>1. cur \in Positions
      BY <1>1 DEF AtSong, Positions
    <3>2. t <= mtime[s]
      BY <2>2, <3>1, TimesKept DEF TimeKept
    <3> QED
      BY <1>1, <1>2, <3>2 DEF Accounted
  <2>3. CASE ~Overtaken
    <3>1. decided = verdict
      BY <1>4, <2>3 DEF Overtaken, Rated
    <3>2. Agrees(p.settings, r, verdict)
      BY <1>2, <2>1, <3>1, WriteAgrees DEF verdict
    <3> QED
      BY <1>1, <2>1, <3>1, <3>2 DEF Accounted, Settled
  <2> QED
    BY <2>2, <2>3
<1>5. CASE Passed
  <2>1. UNCHANGED <<rating, excused>> /\ verdict = None
    BY <1>5 DEF Passed
  <2>2. \/ row.userRating = rating[p.user][s]
        \/ excused[p.user][s] \/ mtime[s] >= t
    BY <1>1, RowInHand
  <2>3. CASE Unchanged(s, threshold)
    <3>1. Settled(p.user, s, p.settings)
      BY <1>1, <2>3, UnchangedSettled
    <3> QED
      BY <1>1, <2>1, <3>1 DEF Accounted, Settled
  <2>4. CASE ~Unchanged(s, threshold)
    <3>1. Agrees(p.settings, r, row.userRating)
      BY <1>2, <2>1, <2>4, NothingToWrite DEF verdict
    <3> QED
      BY <1>1, <2>1, <2>2, <3>1 DEF Accounted, Settled
  <2> QED
    BY <2>3, <2>4
<1> QED
  BY <1>3, <1>4, <1>5 DEF SongDone

-----------------------------------------------------------------------------
(* Every position stays one to resume at *)

Fits(c) ==
    /\ c.pairStart <= now /\ (c.pairStart = 0 => c.offset = 0)
    /\ c.pair # None => InHomeOrder(c.pair)
    /\ ~cfg.dryRun => CoveredBy(c)

LEMMA PositionType ==
    ASSUME TypeOK
    PROVE  \A c \in Positions :
              /\ c \in SyncCursor /\ c.pairStart \in Nat /\ c.offset \in Nat
              /\ c.pair # None => c.pair \in Pairs
BY DEF Positions, TypeOK, SweepRecord, SyncCursor

LEMMA AllFit == IInv => \A c \in Positions : Fits(c)
BY DEF IInv, Fits, StampsPast, HomeOrderKept, PositionSound

LEMMA PluginLeaves == Plugin => UNCHANGED envVars
BY DEF Plugin, Trigger, Continue, StartSweep, StartSweepUnguarded,
       BeginCallback, NoLibraries, Crashes, Reload, Expire, CallbackStep,
       ExhaustedLibrary, DeadlineBeforePair, SkipPair, SkipBlankUser,
       SkipDeniedPair, SkipUnscannedPair, SkipUnmountedPair, StartPair,
       EnterPair, chunkRest, StorePosition, FetchPage, PageFails,
       ReadSong, RateSong, SongFails,
           AfterSong, fetchRest, pairRest, FinishPair, CompleteSweep,
       DeleteStaleThresholds, Reschedule, RescheduleRefused

\* What was accounted for in the listing of c stays so.
LEMMA ListedStable ==
    ASSUME IInv, Plugin, NEW c \in SyncCursor, c.pair \in Pairs,
           InHomeOrder(c.pair), c.pairStart <= now, TimeKept(c.pairStart),
           NEW i \in 1..Len(listing[c.pair.lib]),
           Accounted(c.pair, c.pairStart, listing[c.pair.lib][i])
    PROVE  Accounted(c.pair, c.pairStart, listing[c.pair.lib][i])'
<1>1. /\ listing[c.pair.lib][i] \in Songs /\ c.pairStart \in Nat
      /\ listing' = listing
  <2>1. c.pair.lib \in Libraries /\ c.pairStart \in Nat
    BY DEF Pairs, SyncCursor
  <2>2. listing \in [Libraries -> Seq(Songs)]
    BY DEF IInv, TypeOK
  <2>3. listing' = listing
    BY PluginLeaves DEF envVars
  <2> QED
    BY <2>1, <2>2, <2>3
<1>2. [Next]_vars
  BY DEF Next
<1> DEFINE s == listing[c.pair.lib][i]
<1>4. Contains(c.pair.lib, s)
  BY DEF Contains
<1> HIDE DEF s
<1>3. Accounted(c.pair, c.pairStart, s)'
  BY <1>1, <1>2, <1>4, AccountedStable DEF s
<1> QED
  BY <1>1, <1>3 DEF s

LEMMA KeptFits ==
    ASSUME IInv, Plugin, NEW c \in SyncCursor, Kept(c)
    PROVE  Fits(c)'
<1>1. /\ now' = now /\ cfg' = cfg /\ listing' = listing
  BY PluginLeaves DEF envVars
<1>2. CASE c.pair = None /\ c.pairStart = 0 /\ c.offset = 0
  BY <1>1, <1>2 DEF Fits, CoveredBy, IInv, TypeOK
<1>3. ASSUME NEW d \in Positions, SamePlace(c, d) PROVE Fits(c)'
  <2>1. Fits(d)
    BY AllFit
  <2>2. /\ c.pairStart <= now /\ (c.pairStart = 0 => c.offset = 0)
        /\ c.pair # None => InHomeOrder(c.pair) /\ c.pair \in Pairs
        /\ TimeKept(c.pairStart)
    BY <1>3, <2>1, PositionType, TimesKept DEF Fits, SamePlace, IInv
  <2>3. ASSUME ~cfg.dryRun, c.pair # None,
               NEW i \in 1..Len(listing[c.pair.lib]), i <= c.offset
        PROVE  Accounted(c.pair, c.pairStart, listing[c.pair.lib][i])'
    <3>1. Accounted(c.pair, c.pairStart, listing[c.pair.lib][i])
      BY <1>3, <2>1, <2>3 DEF Fits, CoveredBy, SamePlace
    <3> QED
      BY <2>2, <2>3, <3>1, ListedStable
  <2>4. CoveredBy(c)' \/ cfg.dryRun
    BY <1>1, <2>3 DEF CoveredBy
  <2>5. InHomeOrder(c.pair)' <=> InHomeOrder(c.pair)
    BY DEF InHomeOrder
  <2> QED
    BY <1>1, <2>2, <2>4, <2>5 DEF Fits
<1> QED
  BY <1>2, <1>3 DEF Kept

\* The pair a callback selects is in its user's tag order.
LEMMA SelectedHome ==
    ASSUME IInv, SelectedPair, userConfig.name # None
    PROVE  /\ PairID(libraryConfig, userConfig) \in Pairs
           /\ InHomeOrder(PairID(libraryConfig, userConfig))
<1>1. /\ userConfig.name \in Users
      /\ PairID(libraryConfig, userConfig) \in Pairs
  BY SelectedType DEF IInv
<1>2. Steady(run)
  BY DEF IInv, HomeOrderKept, SelectedPair, Choosing
<1>3. /\ cur.lib \in 1..Len(run.libraries)
      /\ cur.user \in 1..Len(run.libraries[cur.lib].users)
  BY DEF SelectedPair, libraryConfig
<1>4. userConfig.settings.order = HomeOrder[libraryConfig.id][userConfig.name]
  BY <1>1, <1>2, <1>3 DEF Steady, userConfig, libraryConfig
<1> QED
  BY <1>1, <1>4 DEF InHomeOrder, PairID

LEMMA StartPairFits ==
    ASSUME IInv, StartPair, NEW c \in SyncCursor, c = cur'
    PROVE  Fits(c)'
<1> DEFINE id == PairID(libraryConfig, userConfig)
           f == ForThisPair(cur, id)
<1>1. /\ SelectedPair /\ userConfig.name # None /\ EnterPair(f, id)
      /\ pc # "idle"
  BY DEF StartPair, SelectedPair, Choosing
<1>2. id \in Pairs /\ InHomeOrder(id)
  BY <1>1, SelectedHome
<1>3. Plugin
  BY DEF Plugin, CallbackStep
<1>4. cur \in SyncCursor /\ cur \in Positions /\ Fits(cur) /\ TypeOK
  BY <1>1, OldPositions, AllFit DEF IInv, TypeOK
<1>5. f = cur \/ f = At(cur.lib, cur.user)
  BY DEF ForThisPair
<1>6. CASE f.pairStart # 0
  <2>1. c = cur
    BY <1>1, <1>5, <1>6 DEF EnterPair, At
  <2> QED
    BY <1>3, <1>4, <2>1, KeptFits, PositionKept
<1>7. CASE f.pairStart = 0
  <2>1. f.offset = 0
    BY <1>4, <1>5, <1>7 DEF Fits, At
  <2>2. f \in SyncCursor
    BY <1>2, <1>4, ForThisPairType
  <2> HIDE DEF f, id
  <2>3. c.offset = 0 /\ c.pairStart = now /\ c.pair = id
    BY <1>1, <1>7, <2>1, <2>2 DEF EnterPair, SyncCursor
  <2>4. now' = now /\ listing' = listing /\ cfg' = cfg
    BY <1>3, PluginLeaves DEF envVars
  <2>5. now \in Nat \ {0}
    BY <1>4 DEF TypeOK
  <2>7. InHomeOrder(c.pair)'
    BY <1>2, <2>3 DEF InHomeOrder
  <2>6. CoveredBy(c)'
    BY <2>3 DEF CoveredBy
  <2> QED
    BY <2>3, <2>4, <2>5, <2>6, <2>7 DEF Fits
<1> QED
  BY <1>6, <1>7

\* The first song behind the position is in hand or accounted for.
LEMMA NextSongFits ==
    ASSUME IInv, Plugin, SongDone, NEW c \in SyncCursor, c = NextSong(cur)
    PROVE  Fits(c)'
<1>1. /\ AtSong /\ pc # "idle" /\ cur \in SyncCursor
      /\ cur \in Positions /\ TimeKept(cur.pairStart)
  BY SongDoneStep, TimesKept DEF AtSong, Positions, IInv, TypeOK
<1>2. /\ cur.pair \in Pairs /\ InHomeOrder(cur.pair)
      /\ cur.pairStart \in Nat /\ cur.pairStart # 0 /\ cur.pairStart <= now
      /\ cur.offset \in Nat /\ Head(page) = page[1] /\ Len(page) >= 1
      /\ Len(page) \in Nat
  BY <1>1, InHand
<1>3. /\ c.pair = cur.pair /\ c.pairStart = cur.pairStart
      /\ c.offset = cur.offset + 1
  BY <1>1 DEF NextSong, SyncCursor
<1>4. /\ now' = now /\ cfg' = cfg /\ listing' = listing
  BY <1>1, PluginLeaves DEF envVars
<1>5. InHomeOrder(c.pair)'
  BY <1>2, <1>3 DEF InHomeOrder
<1>6. ASSUME ~cfg.dryRun, NEW i \in 1..Len(listing[c.pair.lib]),
             i <= c.offset
      PROVE  Accounted(c.pair, c.pairStart, listing[c.pair.lib][i])'
  <2> DEFINE s == listing[c.pair.lib][i]
  <2>1. CASE Accounted(c.pair, c.pairStart, s)
    BY <1>1, <1>2, <1>3, <2>1, ListedStable
  <2>2. CASE ~Accounted(c.pair, c.pairStart, s)
    <3>1. ~run.dryRun
      BY <1>1, <1>6 DEF IInv, DryRunKept
    <3>2. cur \in Positions /\ cur.pair # None
      BY <1>1, <1>2, OldPositions, NoneAssumption
    <3>3. CoveredBy(cur)
      BY <1>6, <3>2, AllFit DEF Fits
    <3>4. i = cur.offset + 1
      BY <1>2, <1>3, <1>6, <2>2, <3>2, <3>3 DEF CoveredBy
    <3>5. PICK j \in 1..Len(page) :
              cur.offset + j <= i /\ page[j].song = s
      <4>1. RowsComplete /\ i \in 1..Len(pairListing)
            /\ s = pairListing[i]
        BY <1>3 DEF IInv, pairListing
      <4>2. i > cur.offset /\ i <= cur.offset + Len(page)
        BY <1>2, <3>4
      <4>3. ~Accounted(cur.pair, cur.pairStart, pairListing[i])
        BY <1>3, <2>2 DEF pairListing
      <4> QED
        BY <1>1, <3>1, <4>1, <4>2, <4>3 DEF RowsComplete
    <3>6. j = 1
      BY <1>2, <3>4, <3>5
    <3>7. s = Head(page).song
      BY <1>2, <3>5, <3>6
    <3> HIDE DEF s
    <3>8. \A e : e = Head(page).song
                 => Accounted(c.pair, c.pairStart, e)'
      BY <1>3, <3>1, Processed
    <3> QED
      BY <1>4, <3>7, <3>8 DEF s
  <2> QED
    BY <2>1, <2>2
<1> QED
  BY <1>2, <1>3, <1>4, <1>5, <1>6 DEF Fits, CoveredBy

LEMMA PositionsFit ==
    ASSUME IInv, Plugin
    PROVE  \A c \in Positions' : Fits(c)'
<1>1. TypeOK'
  BY TypeStep DEF IInv, TypeInv, Next
<1>2. TAKE c \in Positions'
<1>3. c \in SyncCursor
  BY <1>1, <1>2 DEF Positions, TypeOK, SweepRecord
<1>4. CASE c \in pending'
  BY <1>3, <1>4, PendingKept, OldPositions, PositionKept, KeptFits
<1>5. CASE pc' # "idle" /\ c = cur'
  <2>1. CASE StartPair
    BY <1>3, <1>5, <2>1, StartPairFits
  <2>2. CASE SongDone
    BY <1>3, <1>5, <2>2, NextSongFits, SongDoneStep DEF AfterSong
  <2>3. CASE ~StartPair /\ ~SongDone
    BY <1>3, <1>5, <2>3, CurKept, KeptFits DEF IInv
  <2> QED
    BY <2>1, <2>2, <2>3
<1>6. CASE record' # None /\ record'.cursor # None /\ c = record'.cursor
  BY <1>3, <1>6, RecordKept, KeptFits DEF IInv
<1> QED
  BY <1>2, <1>4, <1>5, <1>6 DEF Positions

-----------------------------------------------------------------------------
(* Saved thresholds *)

\* A threshold after a step is an old one or that of the finished pair.
LEMMA SavedOrOld ==
    ASSUME IInv, Plugin, NEW l \in Libraries, NEW u \in Users,
           last'[l][u] # None
    PROVE  \/ last'[l][u] = last[l][u]
           \/ /\ FinishPair /\ ~run.dryRun
              /\ l = cur.pair.lib /\ u = cur.pair.user
              /\ last'[l][u] = [stamp |-> cur.pairStart,
                                fingerprint |-> cur.pair.settings]
<1>1. last \in [Libraries -> [Users -> LastSynced \union {None}]]
  BY DEF IInv, TypeOK
<1>2. CASE DeleteStaleThresholds
  <2>1. \/ last' = [m \in Libraries |-> [v \in Users |->
                      IF Configured(run, m, v) THEN last[m][v] ELSE None]]
        \/ \E gone : last' = [m \in Libraries |-> [v \in Users |->
                      IF <<m, v>> \in gone THEN None ELSE last[m][v]]]
    BY <1>2, Zenon DEF DeleteStaleThresholds
  <2>2. last'[l][u] \in {last[l][u], None}
    <3>1. CASE last' = [m \in Libraries |-> [v \in Users |->
                      IF Configured(run, m, v) THEN last[m][v] ELSE None]]
      BY <3>1
    <3>2. ASSUME NEW gone,
                 last' = [m \in Libraries |-> [v \in Users |->
                      IF <<m, v>> \in gone THEN None ELSE last[m][v]]]
          PROVE  last'[l][u] \in {last[l][u], None}
      BY <3>2
    <3> QED
      BY <2>1, <3>1, <3>2
  <2> QED
    BY <2>2
<1>3. CASE FinishPair
  <2>1. cur.pair.lib \in Libraries /\ cur.pair.user \in Users
    BY <1>3 DEF FinishPair, IInv, CallbackOK, InPair, AtSong, Pairs
  <2> QED
    BY <1>1, <1>3, <2>1 DEF FinishPair, SavedStamp
<1>4. CASE Trigger \/ Continue \/ Crashes \/ Reload \/ Expire
  BY <1>4 DEF Trigger, Continue, StartSweep, StartSweepUnguarded,
              BeginCallback, NoLibraries, Crashes, Reload, Expire
<1>5. CASE CallbackStep /\ ~DeleteStaleThresholds /\ ~FinishPair
  BY <1>5 DEF CallbackStep, ExhaustedLibrary, DeadlineBeforePair, SkipPair,
              SkipBlankUser, SkipDeniedPair, SkipUnscannedPair,
              SkipUnmountedPair, StartPair, EnterPair, chunkRest,
              StorePosition, FetchPage, PageFails, ReadSong, RateSong, SongFails,
              AfterSong, fetchRest, pairRest, CompleteSweep, Reschedule, RescheduleRefused
<1> QED
  BY <1>2, <1>3, <1>4, <1>5 DEF Plugin

LEMMA SavedFits ==
    ASSUME IInv, Plugin, NEW l \in Libraries, NEW u \in Users,
           NEW e, e = last'[l][u], e # None
    PROVE  /\ e.stamp <= now /\ e.fingerprint.order = HomeOrder[l][u]
           /\ \A i \in 1..Len(listing[l]) : \A s : s = listing[l][i] =>
                 Accounted([lib |-> l, user |-> u,
                            settings |-> e.fingerprint], e.stamp, s)'
<1> DEFINE p == [lib |-> l, user |-> u, settings |-> e.fingerprint]
<1>1. \/ e = last[l][u]
      \/ /\ FinishPair /\ ~run.dryRun
         /\ l = cur.pair.lib /\ u = cur.pair.user
         /\ e = [stamp |-> cur.pairStart, fingerprint |-> cur.pair.settings]
  BY SavedOrOld
<1>2. /\ e.stamp <= now /\ e.fingerprint.order = HomeOrder[l][u]
      /\ e.stamp \in Nat /\ e.fingerprint \in Settings
      /\ TimeKept(e.stamp)
      /\ \A i \in 1..Len(listing[l]) : Accounted(p, e.stamp, listing[l][i])
  <2>1. CASE e = last[l][u]
    <3>1. TimeKept(e.stamp)
      BY <2>1, TimesKept
    <3> QED
      BY <2>1, <3>1 DEF IInv, StampsPast, HomeOrderKept, ThresholdSound,
                        TypeOK, LastSynced
  <2>2. CASE /\ FinishPair /\ ~run.dryRun
             /\ l = cur.pair.lib /\ u = cur.pair.user
             /\ e = [stamp |-> cur.pairStart,
                     fingerprint |-> cur.pair.settings]
    <3>1. /\ pc = "finish" /\ cur \in Positions
          /\ cur.pair \in Pairs /\ cur.pair # None
      BY <2>2, OldPositions, NoneAssumption
         DEF FinishPair, IInv, CallbackOK, InPair, AtSong
    <3>2. /\ cur.pairStart <= now /\ InHomeOrder(cur.pair)
          /\ TimeKept(cur.pairStart)
      BY <3>1, AllFit, TimesKept DEF Fits
    <3>3. cur.pairStart \in Nat /\ cur.pair.settings \in Settings
      BY <3>1 DEF Pairs, IInv, TypeOK, SyncCursor
    <3>4. p = cur.pair
      BY <2>2, <3>1 DEF Pairs
    <3>5. \A i \in 1..Len(listing[l]) :
             Accounted(cur.pair, cur.pairStart, listing[l][i])
      BY <2>2, <3>1 DEF IInv, FinishedPair, pairListing
    <3> QED
      <4>1. e.stamp = cur.pairStart /\ e.fingerprint = cur.pair.settings
        BY <2>2
      <4>2. cur.pair.settings.order = HomeOrder[l][u]
        BY <2>2, <3>2 DEF InHomeOrder
      <4> HIDE DEF p
      <4> QED
        BY <3>2, <3>3, <3>4, <3>5, <4>1, <4>2
  <2> QED
    BY <1>1, <2>1, <2>2
<1>3. p \in Pairs /\ InHomeOrder(p) /\ [Next]_vars
  BY <1>2 DEF Pairs, InHomeOrder, Next
<1>4. \A i \in 1..Len(listing[l]) :
         listing[l][i] \in Songs /\ Contains(p.lib, listing[l][i])
  BY DEF IInv, TypeOK, Contains
<1> HIDE DEF p
<1>5. \A i \in 1..Len(listing[l]) : \A s : s = listing[l][i] =>
         Accounted(p, e.stamp, s)'
  BY <1>2, <1>3, <1>4, AccountedStable
<1> QED
  BY <1>2, <1>5 DEF p

\* A loaded threshold is the one saved for the pair and its settings.
LEMMA ThresholdStays ==
    ASSUME IInv, Plugin
    PROVE  ThresholdLoaded'
<1> SUFFICES ASSUME InPair', threshold' # 0
             PROVE  /\ last'[cur'.pair.lib][cur'.pair.user] # None
                    /\ last'[cur'.pair.lib][cur'.pair.user] =
                          [stamp |-> threshold',
                           fingerprint |-> cur'.pair.settings]
  BY DEF ThresholdLoaded
<1>1. CASE StartPair
  <2> DEFINE id == PairID(libraryConfig, userConfig)
             f == ForThisPair(cur, id)
  <2>1. /\ SelectedPair /\ userConfig.name # None /\ EnterPair(f, id)
        /\ threshold' = Threshold
    BY <1>1 DEF StartPair
  <2>2. id \in Pairs /\ cur \in SyncCursor
    BY <2>1, SelectedHome DEF IInv, TypeOK
  <2>3. f \in SyncCursor /\ (f.pairStart # 0 => f.pair = id)
    BY <2>2, ForThisPairType
  <2>4. cur'.pair = id
    <3> HIDE DEF f, id
    <3> QED
      BY <2>1, <2>3 DEF EnterPair, SyncCursor
  <2>5. id.lib = libraryConfig.id /\ id.user = userConfig.name
        /\ id.settings = userConfig.settings
        /\ id.lib \in Libraries /\ id.user \in Users
    BY <2>2 DEF PairID, Pairs
  <2>6. last' = last
    BY <2>1 DEF EnterPair, chunkRest
  <2>7. last[id.lib][id.user] \in LastSynced \union {None}
    BY <2>5 DEF IInv, TypeOK
  <2> HIDE DEF id, f
  <2>8. /\ last[id.lib][id.user] # None
        /\ last[id.lib][id.user].fingerprint = id.settings
        /\ last[id.lib][id.user].stamp = threshold'
    BY <2>1, <2>5 DEF Threshold, LoadLastSynced
  <2> QED
    BY <2>4, <2>6, <2>7, <2>8 DEF LastSynced
<1>2. CASE StorePosition \/ FetchPage \/ ReadSong \/ RateSong \/ Expire
  <2>1. /\ InPair /\ threshold' = threshold /\ last' = last
        /\ cur'.pair = cur.pair
    BY <1>2, SongStep, SongDoneStep
       DEF StorePosition, FetchPage, SongRead, AfterSong, fetchRest, pairRest,
           Expire, callbackVars, InPair, AtSong, NextSong, IInv, TypeOK, SyncCursor
  <2> QED
    BY <2>1 DEF IInv, ThresholdLoaded
<1>3. CASE ~(\/ StartPair \/ StorePosition \/ FetchPage \/ ReadSong
             \/ RateSong \/ Expire)
  BY <1>3 DEF InPair, AtSong, Plugin, Trigger, Continue, StartSweep,
       StartSweepUnguarded, BeginCallback, NoLibraries, Crashes, Reload,
       Expire, EndCallback, CallbackStep, ExhaustedLibrary,
       DeadlineBeforePair, SkipPair, SkipBlankUser, SkipDeniedPair,
       SkipUnscannedPair, SkipUnmountedPair, PageFails, FinishPair,
       CompleteSweep, DeleteStaleThresholds, Reschedule, RescheduleRefused,
       Choosing, SelectedPair, SweepDone, callbackVars
<1> QED
  BY <1>1, <1>2, <1>3

-----------------------------------------------------------------------------
(* The page in hand *)

\* Only two steps lead to a song in hand or to a finished pair.
LEMMA SongSteps ==
    ASSUME Plugin, pc' \in {"song", "rate", "finish"}
    PROVE  \/ FetchPage \/ SongRead \/ SongDone
           \/ Expire /\ UNCHANGED <<envVars, rating, excused, callbackVars>>
BY SongStep
   DEF Plugin, Trigger, Continue, StartSweep, StartSweepUnguarded,
       BeginCallback, NoLibraries, Crashes, Reload, Expire, EndCallback,
       CallbackStep, ExhaustedLibrary, DeadlineBeforePair, SkipPair,
       SkipBlankUser, SkipDeniedPair, SkipUnscannedPair, SkipUnmountedPair,
       StartPair, EnterPair, StorePosition, PageFails, FinishPair,
       CompleteSweep, DeleteStaleThresholds, Reschedule, RescheduleRefused,
       Choosing, SelectedPair, SweepDone, callbackVars

LEMMA Fetched ==
    ASSUME IInv, FetchPage
    PROVE  /\ cur' = cur /\ run' = run /\ rating' = rating
           /\ listing' = listing
           /\ cur.pair \in Pairs /\ cur.pair # None /\ cur.offset \in Nat
           /\ cur \in Positions
           /\ page' \in Seq(Row) /\ pairListing \in Seq(Songs)
           /\ \A k \in 1..Len(page') :
                 /\ cur.offset + k \in 1..Len(pairListing)
                 /\ page'[k].song = pairListing[cur.offset + k]
                 /\ page'[k].userRating =
                        rating[cur.pair.user][page'[k].song]
           /\ ~more' => cur.offset + Len(page') >= Len(pairListing)
           /\ pc' = "finish" => cur.offset >= Len(pairListing)
<1>1. /\ cur' = cur /\ run' = run /\ rating' = rating /\ listing' = listing
      /\ page' = PageRows(cur.pair.lib, cur.pair.user, cur.offset)
      /\ more' = (PageEnd(cur.offset) <= Len(pairListing))
      /\ pc' = IF page' = <<>> THEN "finish" ELSE "song"
      /\ pc = "fetch"
  BY DEF FetchPage, fetchRest, pairRest, envVars, pairListing
<1>2. /\ cur.pair \in Pairs /\ cur.offset \in Nat /\ TypeOK
  BY <1>1 DEF IInv, CallbackOK, InPair, AtSong, TypeOK, SyncCursor
<1>3. cur \in Positions /\ cur.pair # None
  BY <1>1, <1>2, OldPositions, NoneAssumption
<1>4. cur.pair.lib \in Libraries /\ cur.pair.user \in Users
  BY <1>2 DEF Pairs
<1>5. pairListing \in Seq(Songs) /\ Len(pairListing) \in Nat
  BY <1>2, <1>4 DEF pairListing, TypeOK
<1>6. PageEnd(cur.offset) \in Nat
  BY <1>2, PageEndType
<1>7. pc' = "finish" => page' = <<>>
  BY <1>1
<1> DEFINE q == PageRows(cur.pair.lib, cur.pair.user, cur.offset)
<1>8. /\ q \in Seq(Row)
      /\ \A k \in 1..Len(q) :
            /\ cur.offset + k \in 1..Len(pairListing)
            /\ q[k].song = pairListing[cur.offset + k]
            /\ q[k].userRating = rating[cur.pair.user][q[k].song]
      /\ PageEnd(cur.offset) > Len(pairListing) =>
            cur.offset + Len(q) >= Len(pairListing)
      /\ q = <<>> => cur.offset >= Len(pairListing)
  <2>1. \A l \in Libraries, u \in Users, o \in Nat :
           LET rows == PageRows(l, u, o) IN
           /\ rows \in Seq(Row)
           /\ \A k \in 1..Len(rows) :
                 /\ o + k \in 1..Len(listing[l])
                 /\ rows[k].song = listing[l][o + k]
                 /\ rows[k].userRating = rating[u][listing[l][o + k]]
           /\ PageEnd(o) > Len(listing[l]) =>
                 o + Len(rows) >= Len(listing[l])
           /\ rows = <<>> => o >= Len(listing[l])
    BY <1>2, PageRowsType
  <2> HIDE DEF q
  <2>2. /\ q \in Seq(Row)
        /\ \A k \in 1..Len(q) :
              /\ cur.offset + k \in 1..Len(pairListing)
              /\ q[k].song = pairListing[cur.offset + k]
              /\ q[k].userRating =
                     rating[cur.pair.user][pairListing[cur.offset + k]]
        /\ PageEnd(cur.offset) > Len(pairListing) =>
              cur.offset + Len(q) >= Len(pairListing)
        /\ q = <<>> => cur.offset >= Len(pairListing)
    BY <1>2, <1>4, <2>1 DEF pairListing, q
  <2> QED
    BY <2>2
<1>9. ~more' => PageEnd(cur.offset) > Len(pairListing)
  <2>1. ~more' => ~(PageEnd(cur.offset) <= Len(pairListing))
    BY <1>1, Zenon
  <2> QED
    BY <1>5, <1>6, <2>1
<1>10. page' = q
  BY <1>1
<1> HIDE DEF q
<1>11. /\ ~more' => cur.offset + Len(page') >= Len(pairListing)
       /\ pc' = "finish" => cur.offset >= Len(pairListing)
  BY <1>7, <1>8, <1>9, <1>10
<1> QED
  BY <1>1, <1>2, <1>3, <1>5, <1>8, <1>10, <1>11

\* The conjuncts about the page in hand.
RowsOK ==
    RowsCurrent /\ RowsDistinct /\ RowsListed /\ RowsComplete /\ FinishedPair

LEMMA FetchRows == ASSUME IInv, FetchPage PROVE RowsOK'
<1>1. /\ cur' = cur /\ run' = run /\ rating' = rating /\ listing' = listing
      /\ cur.pair \in Pairs /\ cur.pair # None /\ cur.offset \in Nat
      /\ cur \in Positions
      /\ page' \in Seq(Row) /\ pairListing \in Seq(Songs)
      /\ \A k \in 1..Len(page') :
            /\ cur.offset + k \in 1..Len(pairListing)
            /\ page'[k].song = pairListing[cur.offset + k]
            /\ page'[k].userRating = rating[cur.pair.user][page'[k].song]
      /\ ~more' => cur.offset + Len(page') >= Len(pairListing)
      /\ pc' = "finish" => cur.offset >= Len(pairListing)
  BY Fetched
<1>2. pairListing' = pairListing
  BY <1>1 DEF pairListing
<1>3. Len(page') \in Nat /\ Len(pairListing) \in Nat
  BY <1>1
<1>4. RowsCurrent'
  BY <1>1 DEF RowsCurrent
<1>9. TimeKept(cur.pairStart)
  BY <1>1, TimesKept
<1>5. RowsDistinct'
  <2>1. \A i, j \in 1..Len(pairListing) :
           pairListing[i] = pairListing[j] => i = j
    BY <1>1 DEF IInv, ListedOnce, pairListing, Pairs
  <2>2. \A j, k \in 1..Len(page') :
           page'[j].song = page'[k].song => cur.offset + j = cur.offset + k
    <3> TAKE j, k \in 1..Len(page')
    <3>1. /\ cur.offset + j \in 1..Len(pairListing)
          /\ page'[j].song = pairListing[cur.offset + j]
          /\ cur.offset + k \in 1..Len(pairListing)
          /\ page'[k].song = pairListing[cur.offset + k]
      BY <1>1
    <3> QED
      BY <2>1, <3>1
  <2> QED
    BY <1>1, <1>3, <2>2 DEF RowsDistinct, AtSong
<1>6. RowsListed'
  <2>1. \A k \in 1..Len(page') : \E i \in 1..Len(pairListing) :
           cur.offset + k <= i /\ pairListing[i] = page'[k].song
    <3> TAKE k \in 1..Len(page')
    <3>1. /\ cur.offset + k \in 1..Len(pairListing)
          /\ page'[k].song = pairListing[cur.offset + k]
          /\ cur.offset + k <= cur.offset + k
      BY <1>1
    <3> QED
      BY <3>1
  <2> QED
    BY <1>1, <1>2, <2>1 DEF RowsListed, AtSong
<1>7. RowsComplete'
  <2>1. ASSUME NEW i \in 1..Len(pairListing), i > cur.offset,
               i <= cur.offset + Len(page') \/ ~more'
        PROVE  \E j \in 1..Len(page') :
                  cur.offset + j <= i /\ page'[j].song = pairListing[i]
    <3>1. /\ i - cur.offset \in 1..Len(page')
          /\ cur.offset + (i - cur.offset) = i
      BY <1>1, <1>3, <2>1
    <3> DEFINE j == i - cur.offset
    <3>2. j \in 1..Len(page') /\ cur.offset + j = i /\ i <= i
      BY <1>3, <3>1
    <3> HIDE DEF j
    <3>3. page'[j].song = pairListing[i] /\ cur.offset + j <= i
      BY <1>1, <3>2
    <3> QED
      BY <3>2, <3>3
  <2> QED
    BY <1>1, <1>2, <2>1 DEF RowsComplete
<1>8. FinishedPair'
  <2>1. ASSUME pc' = "finish", ~run.dryRun, NEW i \in 1..Len(pairListing)
        PROVE  Accounted(cur.pair, cur.pairStart, pairListing[i])'
    <3>1. ~cfg.dryRun /\ Plugin /\ cur \in SyncCursor
      BY <2>1 DEF IInv, DryRunKept, FetchPage, Plugin, CallbackStep, TypeOK
    <3>2. CoveredBy(cur) /\ InHomeOrder(cur.pair) /\ cur.pairStart <= now
      BY <1>1, <3>1, AllFit DEF Fits
    <3>3. Accounted(cur.pair, cur.pairStart, pairListing[i])
      BY <1>1, <1>3, <2>1, <3>2 DEF CoveredBy, pairListing
    <3> QED
      BY <1>1, <1>9, <2>1, <3>1, <3>2, <3>3, ListedStable DEF pairListing
  <2> QED
    BY <1>1, <1>2, <2>1 DEF FinishedPair
<1> QED
  BY <1>4, <1>5, <1>6, <1>7, <1>8 DEF RowsOK

\* The rows behind the one processed.
LEMMA TailRows ==
    ASSUME NEW S, NEW q \in Seq(S), q # <<>>
    PROVE  /\ Len(Tail(q)) = Len(q) - 1 /\ Len(q) \in Nat
           /\ \A k \in 1..Len(Tail(q)) :
                 k + 1 \in 1..Len(q) /\ Tail(q)[k] = q[k + 1]
OBVIOUS

LEMMA SongRows == ASSUME IInv, Plugin, SongDone PROVE RowsOK'
<1>14. AtSong /\ AfterSong /\ UNCHANGED envVars
  BY SongDoneStep
<1>1. /\ AtSong /\ cur' = NextSong(cur) /\ page' = Tail(page)
      /\ run' = run /\ listing' = listing /\ more' = more
      /\ mtime' = mtime /\ cur \in SyncCursor
      /\ pc' # "rate"
      /\ pc' = "song" => page' # <<>>
      /\ pc' = "finish" => page' = <<>> /\ ~more
      /\ Plugin /\ [Next]_vars
  BY <1>14 DEF AfterSong, pairRest, envVars, Next, IInv, TypeOK
<1>2. /\ cur.pair \in Pairs /\ InHomeOrder(cur.pair)
      /\ cur.pairStart \in Nat /\ cur.pairStart # 0 /\ cur.pairStart <= now
      /\ cur.offset \in Nat /\ page \in Seq(Row) /\ page # <<>>
      /\ Head(page) \in Row /\ Head(page) = page[1]
      /\ TimeKept(cur.pairStart)
  BY <1>1, InHand, TimesKept DEF AtSong, Positions
<1>3. /\ cur'.pair = cur.pair /\ cur'.pairStart = cur.pairStart
      /\ cur'.offset = cur.offset + 1
  BY <1>1 DEF NextSong, SyncCursor
<1>4. /\ Len(page') = Len(page) - 1 /\ Len(page) \in Nat
      /\ \A k \in 1..Len(page') :
            k + 1 \in 1..Len(page) /\ page'[k] = page[k + 1]
  BY <1>1, <1>2, TailRows
<1>5. pairListing' = pairListing /\ pairListing \in Seq(Songs)
  BY <1>1, <1>2, <1>3 DEF pairListing, IInv, TypeOK, Pairs
<1>6. 1 \in 1..Len(page)
  BY <1>2
<1>7. \A k \in 1..Len(page') : page'[k].song # Head(page).song
  <2> TAKE k \in 1..Len(page')
  <2>1. k + 1 # 1 /\ k + 1 \in 1..Len(page)
    BY <1>4
  <2> QED
    BY <1>1, <1>2, <1>4, <1>6, <2>1 DEF IInv, RowsDistinct
<1>8. RowsCurrent'
  <2>1. ASSUME NEW k \in 1..Len(page')
        PROVE  LET s == page'[k].song IN
               \/ page'[k].userRating = rating'[cur.pair.user][s]
               \/ excused'[cur.pair.user][s]
               \/ mtime[s] >= cur.pairStart
    <3> DEFINE s == page'[k].song
    <3>1. /\ page'[k] = page[k + 1] /\ k + 1 \in 1..Len(page)
          /\ s # Head(page).song /\ s \in Songs
          /\ cur.pair.user \in Users /\ Head(page).song \in Songs
      <4>1. page'[k] = page[k + 1] /\ k + 1 \in 1..Len(page)
        BY <1>4
      <4>2. page[k + 1] \in Row
        BY <1>2, <4>1
      <4>3. cur.pair.user \in Users /\ Head(page).song \in Songs
        BY <1>2 DEF Row, Pairs
      <4> QED
        BY <1>7, <4>1, <4>2, <4>3 DEF Row
    <3>2. \/ page[k + 1].userRating = rating[cur.pair.user][page[k + 1].song]
          \/ excused[cur.pair.user][page[k + 1].song]
          \/ mtime[page[k + 1].song] >= cur.pairStart
      BY <1>1, <3>1 DEF IInv, RowsCurrent
    <3>4. /\ rating'[cur.pair.user][s] = rating[cur.pair.user][s]
          /\ excused'[cur.pair.user][s] = excused[cur.pair.user][s]
      <4>1. /\ rating \in [Users -> [Songs -> Stars]]
            /\ excused \in [Users -> [Songs -> BOOLEAN]] /\ TypeOK
        BY DEF IInv, TypeOK
      <4>2. CASE Passed
        BY <4>2 DEF Passed
      <4>3. CASE Rated
        <5> HIDE DEF s
        <5> QED
          BY <3>1, <4>1, <4>3 DEF Rated
      <4>4. CASE SongLost
        <5> DEFINE e == Head(page).song
                   u == cur.pair.user
                   b == excused[u][e] \/ mtime[e] < cur.pairStart
        <5>1. rating' = rating /\ excused' = [excused EXCEPT ![u][e] = b]
          BY <3>1, <4>1, <4>4, LostExcuses
        <5> HIDE DEF s, b
        <5> QED
          BY <3>1, <4>1, <5>1
      <4> QED
        BY <4>2, <4>3, <4>4 DEF SongDone
    <3> QED
      BY <3>1, <3>2, <3>4
  <2> QED
    BY <1>1, <1>3, <2>1 DEF RowsCurrent, AtSong
<1>9. RowsDistinct'
  BY <1>1, <1>4 DEF RowsDistinct, IInv
<1>10. RowsListed'
  <2>1. \A k \in 1..Len(page) : \E i \in 1..Len(pairListing) :
           cur.offset + k <= i /\ pairListing[i] = page[k].song
    BY <1>1 DEF IInv, RowsListed
  <2>2. \A k \in 1..Len(page') : \E i \in 1..Len(pairListing) :
           cur'.offset + k <= i /\ pairListing[i] = page'[k].song
    <3> TAKE k \in 1..Len(page')
    <3>1. k + 1 \in 1..Len(page) /\ page'[k] = page[k + 1] /\ k \in Nat
      BY <1>4
    <3>2. \A n \in Nat : (n + 1) + k = n + (k + 1)
      BY <3>1
    <3> DEFINE j == k + 1
    <3>3. j \in 1..Len(page) /\ page'[k] = page[j]
          /\ cur'.offset + k = cur.offset + j
      BY <1>2, <1>3, <3>1, <3>2
    <3> HIDE DEF j
    <3> QED
      BY <2>1, <3>3
  <2> QED
    BY <1>5, <2>2 DEF RowsListed
<1>11. ASSUME ~run.dryRun, NEW i \in 1..Len(pairListing), i > cur.offset,
              i <= cur.offset + Len(page) \/ ~more
       PROVE  \/ Accounted(cur.pair, cur.pairStart, pairListing[i])'
              \/ \E j \in 1..Len(page') :
                    /\ cur.offset + 1 + j <= i
                    /\ page'[j].song = pairListing[i]
  <2>1. CASE Accounted(cur.pair, cur.pairStart, pairListing[i])
    BY <1>1, <1>2, <1>3, <1>5, <2>1, ListedStable DEF pairListing
  <2>2. CASE \E j \in 1..Len(page) :
                cur.offset + j <= i /\ page[j].song = pairListing[i]
    <3>1. PICK j \in 1..Len(page) :
             cur.offset + j <= i /\ page[j].song = pairListing[i]
      BY <2>2
    <3>2. CASE j = 1
      <4>1. \A e : e = Head(page).song
                 => Accounted(cur.pair, cur.pairStart, e)'
        <5>1. \A p, t : p = cur.pair /\ t = cur.pairStart =>
                 \A e : e = Head(page).song => Accounted(p, t, e)'
          BY <1>11, Processed
        <5> QED
          BY <1>3, <5>1
      <4> QED
        BY <1>2, <1>5, <3>1, <3>2, <4>1
    <3>3. CASE j # 1
      <4>1. /\ j - 1 \in 1..Len(page') /\ (j - 1) + 1 = j
            /\ cur.offset + 1 + (j - 1) <= i
        BY <1>2, <1>4, <3>1, <3>3
      <4> QED
        BY <1>4, <3>1, <4>1
    <3> QED
      BY <3>2, <3>3
  <2> QED
    BY <1>1, <1>11, <2>1, <2>2 DEF IInv, RowsComplete
<1>12. RowsComplete'
  <2> SUFFICES ASSUME AtSong', ~run'.dryRun,
                      NEW i \in 1..Len(pairListing'), i > cur'.offset,
                      i <= cur'.offset + Len(page') \/ ~more'
               PROVE  \/ Accounted(cur.pair, cur.pairStart, pairListing[i])'
                      \/ \E j \in 1..Len(page') :
                            /\ cur'.offset + j <= i
                            /\ page'[j].song = pairListing'[i]
    BY DEF RowsComplete
  <2>1. /\ i \in 1..Len(pairListing) /\ i > cur.offset /\ ~run.dryRun
        /\ i <= cur.offset + Len(page) \/ ~more
    BY <1>1, <1>2, <1>3, <1>4, <1>5
  <2> QED
    BY <1>3, <1>5, <1>11, <2>1
<1>13. FinishedPair'
  <2> SUFFICES ASSUME pc' = "finish", ~run'.dryRun,
                      NEW i \in 1..Len(pairListing')
               PROVE  Accounted(cur.pair, cur.pairStart, pairListing[i])'
    BY DEF FinishedPair
  <2>1. ~run.dryRun /\ ~cfg.dryRun /\ i \in 1..Len(pairListing)
    BY <1>1, <1>5 DEF IInv, DryRunKept, AtSong
  <2>2. CASE i <= cur.offset
    <3>1. cur \in Positions /\ cur.pair # None
      BY <1>1, <1>2, OldPositions, NoneAssumption DEF AtSong
    <3>2. Accounted(cur.pair, cur.pairStart, pairListing[i])
      BY <2>1, <2>2, <3>1, AllFit DEF Fits, CoveredBy, pairListing
    <3> QED
      BY <1>1, <1>2, <1>3, <1>5, <2>1, <3>2, ListedStable DEF pairListing
  <2>3. CASE i > cur.offset
    <3>1. Len(page') = 0 /\ ~more
      BY <1>1
    <3> QED
      BY <1>3, <1>11, <2>1, <2>3, <3>1
  <2> QED
    BY <1>2, <2>1, <2>2, <2>3
<1> QED
  BY <1>8, <1>9, <1>10, <1>12, <1>13 DEF RowsOK

LEMMA PluginRows == ASSUME IInv, Plugin PROVE RowsOK'
<1>1. CASE FetchPage \/ SongDone
  BY <1>1, FetchRows, SongRows
<1>2. CASE pc' \notin {"song", "rate", "finish"}
  BY <1>2 DEF RowsOK, RowsCurrent, RowsDistinct, RowsListed, RowsComplete,
              FinishedPair, AtSong
<1>3. CASE \/ SongRead
           \/ UNCHANGED <<envVars, rating, excused, callbackVars>>
  <2>1. /\ UNCHANGED <<mtime, created, content, rating, excused, listing,
                       cur, run, page, more>>
        /\ AtSong' => AtSong
        /\ pc' = "finish" => pc = "finish"
    BY <1>3 DEF SongRead, pairRest, envVars, callbackVars, AtSong
  <2>2. RowsCurrent' /\ RowsDistinct' /\ RowsListed'
    BY <2>1 DEF IInv, RowsCurrent, RowsDistinct, RowsListed, pairListing
  <2>3. RowsComplete' /\ FinishedPair'
    BY <2>1 DEF IInv, RowsComplete, FinishedPair, pairListing, Accounted,
                Settled
  <2> QED
    BY <2>2, <2>3 DEF RowsOK
<1> QED
  BY <1>1, <1>2, <1>3, SongSteps

\* A reading is new when it is made, and the songs saved before it was made
\* stay as they are.
LEMMA PluginOvertaken == ASSUME IInv, Plugin PROVE OvertakenIsNew'
<1> SUFFICES ASSUME Overtaken' PROVE OvertakenIsNew'
  BY DEF OvertakenIsNew
<1>1. pc' = "rate"
  BY DEF Overtaken
<1>2. CASE SongRead
  <2>1. verdict' = verdict /\ decided' = verdict
    BY <1>2 DEF SongRead, pairRest, envVars, verdict, Decision, Skipped,
                Unchanged
  <2> QED
    BY <2>1 DEF Overtaken
<1>3. CASE Expire /\ UNCHANGED <<envVars, rating, excused, callbackVars>>
  <2>1. Overtaken /\ mtime' = mtime /\ page' = page /\ last' = last
    BY <1>3 DEF Overtaken, verdict, Decision, Skipped, Unchanged, envVars,
                callbackVars, Expire
  <2>2. Positions' \subseteq Positions
    BY <1>3 DEF Expire, callbackVars, Positions, IInv, TypeOK, SweepRecord
  <2> QED
    BY <2>1, <2>2 DEF IInv, OvertakenIsNew
<1>4. CASE FetchPage \/ SongDone
  BY <1>1, <1>4, SongDoneStep DEF FetchPage, AfterSong
<1> QED
  BY <1>1, <1>2, <1>3, <1>4, SongSteps

-----------------------------------------------------------------------------
(* A step of the plugin preserves the invariant *)

\* A callback starts with the configuration then saved.
LEMMA RunKept ==
    ASSUME IInv, Plugin
    PROVE  DryRunKept' /\ (pc' # "idle" => Steady(run'))
<1>1. cfg' = cfg
  BY PluginLeaves DEF envVars
<1>2. pc' # "idle" => run' = cfg \/ (pc # "idle" /\ run' = run)
  BY DEF Plugin, Trigger, Continue, StartSweep, StartSweepUnguarded,
       BeginCallback, NoLibraries, Crashes, Reload, Expire, EndCallback,
       CallbackStep, ExhaustedLibrary, DeadlineBeforePair, SkipPair,
       SkipBlankUser, SkipDeniedPair, SkipUnscannedPair, SkipUnmountedPair,
       StartPair, EnterPair, chunkRest, StorePosition, FetchPage, PageFails,
       ReadSong, RateSong, SongFails,
           AfterSong, fetchRest, pairRest, FinishPair, CompleteSweep,
       DeleteStaleThresholds, Reschedule, RescheduleRefused, Choosing,
       SelectedPair, SweepDone, callbackVars
<1> QED
  BY <1>1, <1>2 DEF IInv, DryRunKept, HomeOrderKept

LEMMA PluginInv == ASSUME IInv, Plugin PROVE IInv'
<1>1. /\ now' = now /\ cfg' = cfg /\ listing' = listing
  BY PluginLeaves DEF envVars
<1>2. TypeOK' /\ CallbackOK'
  BY TypeStep DEF IInv, TypeInv, Next
<1>3. \A c \in Positions' : Fits(c)'
  BY PositionsFit
<1>4. \A c \in Positions' :
         /\ c.pairStart <= now /\ (c.pairStart = 0 => c.offset = 0)
         /\ c.pair # None => InHomeOrder(c.pair)
         /\ ~cfg.dryRun => CoveredBy(c)'
  BY <1>1, <1>3 DEF Fits, InHomeOrder
<1>5. StampsPast'
  <2>1. \A l \in Libraries, u \in Users :
           last'[l][u] # None => last'[l][u].stamp <= now
    BY SavedFits
  <2> QED
    BY <1>1, <1>4, <2>1 DEF StampsPast
<1>6. HomeOrderKept'
  <2>1. \A l \in Libraries, u \in Users :
           last'[l][u] # None
           => last'[l][u].fingerprint.order = HomeOrder[l][u]
    BY SavedFits
  <2>2. Steady(cfg') /\ (pc' # "idle" => Steady(run'))
    BY <1>1, RunKept DEF IInv, HomeOrderKept
  <2> QED
    BY <1>4, <2>1, <2>2 DEF HomeOrderKept, InHomeOrder, Steady
<1>7. ThresholdSound'
  <2> SUFFICES ASSUME NEW l \in Libraries, NEW u \in Users,
                      last'[l][u] # None, NEW i \in 1..Len(listing'[l])
               PROVE  Accounted([lib |-> l, user |-> u,
                                 settings |-> last[l][u].fingerprint],
                                last[l][u].stamp, listing[l][i])'
    BY DEF ThresholdSound
  <2>1. \A e, s : e = last'[l][u] /\ s = listing[l][i] =>
           Accounted([lib |-> l, user |-> u, settings |-> e.fingerprint],
                     e.stamp, s)'
    BY <1>1, SavedFits
  <2> QED
    BY <1>1, <2>1
<1>8. PositionSound'
  BY <1>1, <1>4 DEF PositionSound
<1>9. ListedOnce'
  BY <1>1 DEF IInv, ListedOnce
<1>10. RowsOK' /\ ThresholdLoaded' /\ DryRunKept' /\ OvertakenIsNew'
  BY PluginRows, ThresholdStays, RunKept, PluginOvertaken
<1> QED
  BY <1>2, <1>5, <1>6, <1>7, <1>8, <1>9, <1>10 DEF IInv, RowsOK

-----------------------------------------------------------------------------
(* A step of the environment preserves the invariant *)

Around == Environment \/ \E c \in Configs : SteadyChange(c)

LEMMA AroundLeaves ==
    ASSUME IInv, Around
    PROVE  /\ UNCHANGED pluginVars /\ Positions' = Positions
           /\ now <= now' /\ [Next]_vars
           /\ IF \E l \in Libraries, s \in Songs : ImportSong(l, s)
              THEN cfg' = cfg /\ rating' = rating
              ELSE listing' = listing
<1>1. UNCHANGED pluginVars
  BY DEF Around, Environment, Tick, EditFile, UserRates, Rescan, ImportSong,
         SteadyChange, ChangeConfig
<1>2. Positions' = Positions
  BY <1>1 DEF pluginVars, callbackVars, Positions
<1>3. now \in Nat
  BY DEF IInv, TypeOK
<1>4. now <= now'
  BY <1>3 DEF Around, Environment, Tick, EditFile, UserRates, Rescan,
              ImportSong, SteadyChange, ChangeConfig
<1>5. IF \E l \in Libraries, s \in Songs : ImportSong(l, s)
      THEN cfg' = cfg /\ rating' = rating ELSE listing' = listing
  BY DEF Around, Environment, Tick, EditFile, UserRates, Rescan, ImportSong,
         SteadyChange, ChangeConfig
<1> QED
  BY <1>1, <1>2, <1>4, <1>5 DEF Around, Next

\* What is where after a song entered a listing.
LEMMA Inserted ==
    ASSUME NEW list \in Seq(Songs), NEW p \in 1..(Len(list) + 1),
           NEW s \in Songs
    PROVE  LET q == InsertSong(list, p, s) IN
           /\ Len(q) = Len(list) + 1 /\ Len(list) \in Nat
           /\ \A i \in 1..Len(q) :
                 \/ i = p /\ q[i] = s
                 \/ i < p /\ i \in 1..Len(list) /\ q[i] = list[i]
                 \/ i > p /\ i - 1 \in 1..Len(list) /\ q[i] = list[i - 1]
           /\ \A k \in 1..Len(list) :
                 \E i \in 1..Len(q) : k <= i /\ q[i] = list[k]
<1> DEFINE n == Len(list)
           q == InsertSong(list, p, s)
<1>1. n \in Nat
  OBVIOUS
<1>2. q = [i \in 1..(n + 1) |->
             IF i < p THEN list[i] ELSE IF i = p THEN s ELSE list[i - 1]]
  BY DEF InsertSong
<1>3. \A i \in 1..(n + 1) :
         (IF i < p THEN list[i] ELSE IF i = p THEN s ELSE list[i - 1]) \in Songs
  <2> TAKE i \in 1..(n + 1)
  <2>1. CASE i < p
    <3>1. i \in 1..n
      BY <1>1, <2>1
    <3> QED
      BY <2>1, <3>1
  <2>2. CASE i = p
    BY <2>2
  <2>3. CASE i > p
    <3>1. i - 1 \in 1..n
      BY <1>1, <2>3
    <3> QED
      BY <2>3, <3>1
  <2> QED
    BY <1>1, <2>1, <2>2, <2>3
<1> HIDE DEF n, q
<1>4. q \in Seq(Songs) /\ Len(q) = n + 1
  BY <1>1, <1>2, <1>3
<1>5. \A i \in 1..(n + 1) :
         \/ i = p /\ q[i] = s
         \/ i < p /\ i \in 1..n /\ q[i] = list[i]
         \/ i > p /\ i - 1 \in 1..n /\ q[i] = list[i - 1]
  BY <1>1, <1>2 DEF n
<1>6. \A k \in 1..n : \E i \in 1..(n + 1) : k <= i /\ q[i] = list[k]
  <2> TAKE k \in 1..n
  <2>1. CASE k < p
    <3>1. k \in 1..(n + 1) /\ k <= k /\ q[k] = list[k]
      BY <1>1, <1>2, <2>1
    <3> QED
      BY <3>1
  <2>2. CASE k >= p
    <3>1. /\ k + 1 \in 1..(n + 1) /\ k + 1 > p /\ (k + 1) - 1 = k
          /\ k <= k + 1
      BY <1>1, <2>2
    <3>2. q[k + 1] = list[k]
      BY <1>2, <3>1
    <3> QED
      BY <3>1, <3>2
  <2> QED
    BY <1>1, <2>1, <2>2
<1> QED
  BY <1>1, <1>4, <1>5, <1>6 DEF n, q

\* A listed song keeps its place or moves back by one; another one is new.
LEMMA ListingGrows ==
    ASSUME IInv, Around, NEW l \in Libraries
    PROVE  /\ \A i \in 1..Len(listing'[l]) :
                 \/ \E k \in 1..Len(listing[l]) :
                       (i = k \/ i = k + 1) /\ listing'[l][i] = listing[l][k]
                 \/ /\ listing'[l][i] \in Songs
                    /\ created'[listing'[l][i]] = now'
           /\ \A k \in 1..Len(listing[l]) : \E i \in 1..Len(listing'[l]) :
                 k <= i /\ listing'[l][i] = listing[l][k]
           /\ \A i, j \in 1..Len(listing'[l]) :
                 listing'[l][i] = listing'[l][j] => i = j
<1>1. /\ listing \in [Libraries -> Seq(Songs)] /\ listing[l] \in Seq(Songs)
      /\ created \in [Songs -> Nat]
      /\ \A i, j \in 1..Len(listing[l]) :
            listing[l][i] = listing[l][j] => i = j
  BY DEF IInv, TypeOK, ListedOnce
<1>2. CASE listing'[l] = listing[l]
  <2>1. \A k \in 1..Len(listing[l]) : k <= k
    BY <1>1
  <2> QED
    BY <1>1, <1>2, <2>1
<1>3. CASE listing'[l] # listing[l]
  <2>1. PICK m \in Libraries, s \in Songs : ImportSong(m, s)
    BY <1>3, AroundLeaves
  <2>2. PICK p \in 1..(Len(listing[m]) + 1) :
           listing' = [listing EXCEPT ![m] = InsertSong(@, p, s)]
    BY <2>1 DEF ImportSong
  <2>3. m = l /\ listing'[l] = InsertSong(listing[l], p, s)
    BY <1>1, <1>3, <2>2
  <2>4. created'[s] = now' /\ \A k \in 1..Len(listing[l]) : listing[l][k] # s
    BY <1>1, <2>1 DEF ImportSong, Listed, Contains
  <2> DEFINE q == listing'[l]
  <2>5. p \in 1..(Len(listing[l]) + 1)
    BY <2>2, <2>3
  <2>6. /\ Len(q) = Len(listing[l]) + 1 /\ Len(listing[l]) \in Nat
        /\ \A i \in 1..Len(q) :
              \/ i = p /\ q[i] = s
              \/ i < p /\ i \in 1..Len(listing[l]) /\ q[i] = listing[l][i]
              \/ /\ i > p /\ i - 1 \in 1..Len(listing[l])
                 /\ q[i] = listing[l][i - 1]
        /\ \A k \in 1..Len(listing[l]) :
              \E i \in 1..Len(q) : k <= i /\ q[i] = listing[l][k]
    BY <1>1, <2>3, <2>5, Inserted
  <2> HIDE DEF q
  <2>7. \A i, j \in 1..Len(q) : q[i] = q[j] => i = j
    <3> SUFFICES ASSUME NEW i \in 1..Len(q), NEW j \in 1..Len(q),
                        q[i] = q[j]
                 PROVE  i = j
      OBVIOUS
    <3>1. \A k \in 1..Len(q) : k = p <=> q[k] = s
      <4> TAKE k \in 1..Len(q)
      <4>1. k \in Nat /\ p \in Nat
        BY <2>5, <2>6
      <4>2. k = p => q[k] = s
        BY <2>6, <4>1
      <4>3. k # p => \E m1 \in 1..Len(listing[l]) : q[k] = listing[l][m1]
        BY <2>6, <4>1
      <4> QED
        BY <2>4, <4>2, <4>3
    <3>2. CASE i = p \/ j = p
      BY <3>1, <3>2
    <3>3. CASE i # p /\ j # p
      <4> DEFINE old(k) == IF k < p THEN k ELSE k - 1
      <4>1. \A k \in 1..Len(q) : k # p =>
               old(k) \in 1..Len(listing[l]) /\ q[k] = listing[l][old(k)]
        BY <2>5, <2>6
      <4>2. old(i) \in 1..Len(listing[l]) /\ q[i] = listing[l][old(i)]
        BY <3>3, <4>1
      <4>3. old(j) \in 1..Len(listing[l]) /\ q[j] = listing[l][old(j)]
        BY <3>3, <4>1
      <4>4. old(i) = old(j)
        <5> HIDE DEF old
        <5> QED
          BY <1>1, <4>2, <4>3
      <4> QED
        BY <2>5, <2>6, <3>3, <4>4
    <3> QED
      BY <3>2, <3>3
  <2>8. ASSUME NEW i \in 1..Len(q)
        PROVE  \/ \E k \in 1..Len(listing[l]) :
                     (i = k \/ i = k + 1) /\ q[i] = listing[l][k]
               \/ q[i] \in Songs /\ created'[q[i]] = now'
    <3>1. CASE i = p
      BY <2>4, <2>6, <3>1
    <3>2. CASE i < p
      BY <2>6, <3>2
    <3>3. CASE i > p
      <4>1. /\ i - 1 \in 1..Len(listing[l]) /\ q[i] = listing[l][i - 1]
            /\ i = (i - 1) + 1
        BY <2>6, <3>3
      <4> QED
        BY <4>1
    <3> QED
      BY <2>5, <3>1, <3>2, <3>3
  <2> QED
    BY <2>6, <2>7, <2>8 DEF q
<1> QED
  BY <1>2, <1>3

\* An import adds one song to one listing.
LEMMA ImportedIn ==
    ASSUME IInv, NEW n \in Libraries, NEW s \in Songs, ImportSong(n, s),
           NEW k \in Libraries
    PROVE  /\ \A x \in 1..Len(listing'[k]) :
                 \/ \E y \in 1..Len(listing[k]) : listing'[k][x] = listing[k][y]
                 \/ k = n /\ listing'[k][x] = s
           /\ \A y \in 1..Len(listing[k]) :
                 \E x \in 1..Len(listing'[k]) : listing'[k][x] = listing[k][y]
           /\ k = n => \E x \in 1..Len(listing'[k]) : listing'[k][x] = s
<1>1. listing \in [Libraries -> Seq(Songs)]
  BY DEF IInv, TypeOK
<1>2. PICK p \in 1..(Len(listing[n]) + 1) :
         listing' = [listing EXCEPT ![n] = InsertSong(@, p, s)]
  BY DEF ImportSong
<1>3. CASE k # n
  BY <1>1, <1>2, <1>3
<1>4. CASE k = n
  <2>1. /\ listing'[k] = InsertSong(listing[k], p, s)
        /\ listing[k] \in Seq(Songs) /\ p \in 1..(Len(listing[k]) + 1)
    BY <1>1, <1>2, <1>4
  <2> DEFINE q == InsertSong(listing[k], p, s)
  <2>2. /\ Len(q) = Len(listing[k]) + 1 /\ Len(listing[k]) \in Nat
        /\ \A x \in 1..Len(q) :
              \/ x = p /\ q[x] = s
              \/ x < p /\ x \in 1..Len(listing[k]) /\ q[x] = listing[k][x]
              \/ /\ x > p /\ x - 1 \in 1..Len(listing[k])
                 /\ q[x] = listing[k][x - 1]
        /\ \A y \in 1..Len(listing[k]) :
              \E x \in 1..Len(q) : y <= x /\ q[x] = listing[k][y]
    BY <2>1, Inserted
  <2> HIDE DEF q
  <2>3. \A x \in 1..Len(q) :
           (\E y \in 1..Len(listing[k]) : q[x] = listing[k][y]) \/ q[x] = s
    BY <2>2
  <2>4. p \in 1..Len(q) /\ q[p] = s
    BY <2>1, <2>2
  <2>5. \A y \in 1..Len(listing[k]) : \E x \in 1..Len(q) : q[x] = listing[k][y]
    BY <2>2
  <2> QED
    BY <1>4, <2>1, <2>3, <2>4, <2>5 DEF q
<1> QED
  BY <1>3, <1>4

LEMMA ImportedRow ==
    ASSUME IInv, NEW n \in Libraries, NEW s \in Songs, ImportSong(n, s),
           NEW k \in Libraries, NEW i \in 1..Len(listing'[k])
    PROVE  \/ \E y \in 1..Len(listing[k]) : listing'[k][i] = listing[k][y]
           \/ k = n /\ listing'[k][i] = s
BY ImportedIn

LEMMA ImportedOnce ==
    ASSUME IInv, NEW n \in Libraries, NEW s \in Songs, ImportSong(n, s),
           NEW l \in Libraries, NEW m \in Libraries, l # m,
           NEW i \in 1..Len(listing'[l]), NEW j \in 1..Len(listing'[m])
    PROVE  listing'[l][i] # listing'[m][j]
<1>1. \/ \E y \in 1..Len(listing[l]) : listing'[l][i] = listing[l][y]
      \/ l = n /\ listing'[l][i] = s
  BY ImportedRow
<1>2. \/ \E y \in 1..Len(listing[m]) : listing'[m][j] = listing[m][y]
      \/ m = n /\ listing'[m][j] = s
  BY ImportedRow
<1>3. /\ \A x \in 1..Len(listing[l]) : listing[l][x] # s
      /\ \A x \in 1..Len(listing[m]) : listing[m][x] # s
  BY DEF ImportSong, Listed, Contains
<1>4. \A x \in 1..Len(listing[l]) : \A y \in 1..Len(listing[m]) :
         listing[l][x] # listing[m][y]
  BY DEF IInv, ListedOnce
<1> QED
  BY <1>1, <1>2, <1>3, <1>4

\* No song gets into a second library, or into one twice.
LEMMA OnceEverywhere == ASSUME IInv, Around PROVE ListedOnce'
<1> SUFFICES ASSUME NEW l \in Libraries, NEW m \in Libraries,
                    NEW i \in 1..Len(listing'[l]), NEW j \in 1..Len(listing'[m]),
                    listing'[l][i] = listing'[m][j]
             PROVE  l = m /\ i = j
  BY DEF ListedOnce
<1>1. l = m => i = j
  BY ListingGrows
<1>2. CASE listing' = listing
  BY <1>2 DEF IInv, ListedOnce
<1>3. CASE listing' # listing
  <2>1. PICK n \in Libraries, s \in Songs : ImportSong(n, s)
    BY <1>3, AroundLeaves
  <2>2. l # m => listing'[l][i] # listing'[m][j]
    BY <2>1, ImportedOnce
  <2> QED
    BY <1>1, <2>2
<1> QED
  BY <1>2, <1>3

\* A song of the listing is accounted for after the step, or it was in the
\* listing before, at this place or the one ahead of it, and was not.
LEMMA AroundAccounted ==
    ASSUME IInv, Around, NEW p \in Pairs, InHomeOrder(p), NEW t \in Nat,
           t <= now, NEW i \in 1..Len(listing'[p.lib]),
           NEW s, s = listing'[p.lib][i]
    PROVE  \/ Accounted(p, t, s)'
           \/ \E k \in 1..Len(listing[p.lib]) :
                 /\ i = k \/ i = k + 1
                 /\ s = listing[p.lib][k]
                 /\ ~Accounted(p, t, s)
<1>1. p.lib \in Libraries
  BY DEF Pairs
<1>2. /\ listing \in [Libraries -> Seq(Songs)] /\ now \in Nat /\ now' \in Nat
      /\ now <= now' /\ [Next]_vars /\ ~Rated
  BY AroundLeaves, TypeStep
     DEF IInv, TypeOK, TypeInv, Rated, AfterSong, pluginVars, callbackVars
<1>3. \/ \E k \in 1..Len(listing[p.lib]) :
            (i = k \/ i = k + 1) /\ s = listing[p.lib][k]
      \/ created'[s] = now'
  BY <1>1, ListingGrows, SMTT(30)
<1>4. CASE created'[s] = now'
  BY <1>2, <1>4 DEF Accounted
<1>5. CASE \E k \in 1..Len(listing[p.lib]) :
              (i = k \/ i = k + 1) /\ s = listing[p.lib][k]
  <2>1. s \in Songs /\ Contains(p.lib, s)
    BY <1>1, <1>2, <1>5 DEF Contains
  <2>2. Accounted(p, t, s) => Accounted(p, t, s)'
    BY <1>2, <2>1, AccountedStable
  <2> QED
    BY <1>5, <2>2
<1> QED
  BY <1>3, <1>4, <1>5

LEMMA AroundFits ==
    ASSUME IInv, Around, NEW c \in Positions
    PROVE  Fits(c)'
<1>1. /\ c \in SyncCursor /\ c.pairStart \in Nat /\ c.offset \in Nat
      /\ c.pair # None => c.pair \in Pairs
  BY PositionType DEF IInv
<1>2. Fits(c)
  BY AllFit
<1>3. now <= now' /\ now \in Nat /\ now' \in Nat
  BY AroundLeaves, TypeStep DEF IInv, TypeOK, TypeInv
<1>4. cfg.dryRun = cfg'.dryRun
  <2>1. CASE Environment
    BY <2>1 DEF Environment, Tick, EditFile, UserRates, Rescan, ImportSong
  <2>2. ASSUME NEW new \in Configs, SteadyChange(new),
               cfg.dryRun # cfg'.dryRun
        PROVE  FALSE
    <3>1. NoPosition
      BY <2>2 DEF SteadyChange, ChangeConfig
    <3>2. Positions = {}
      BY <3>1 DEF NoPosition, Positions
    <3> QED
      BY <3>2
  <2> QED
    BY <2>1, <2>2 DEF Around
<1>5. CoveredBy(c)' \/ cfg'.dryRun
  <2> SUFFICES ASSUME ~cfg'.dryRun, c.pair # None,
                      NEW i \in 1..Len(listing'[c.pair.lib]), i <= c.offset,
                      NEW s, s = listing'[c.pair.lib][i]
               PROVE  Accounted(c.pair, c.pairStart, s)'
    BY DEF CoveredBy
  <2>1. /\ c.pair \in Pairs /\ InHomeOrder(c.pair) /\ c.pairStart <= now
        /\ CoveredBy(c)
    BY <1>1, <1>2, <1>4 DEF Fits
  <2>2. listing[c.pair.lib] \in Seq(Songs)
    BY <2>1 DEF IInv, TypeOK, Pairs
  <2>3. i \in Nat
    BY <2>1, <1>1, TypeStep, AroundLeaves DEF IInv, TypeInv, TypeOK, Pairs
  <2>4. ASSUME NEW k \in 1..Len(listing[c.pair.lib]), i = k \/ i = k + 1,
               s = listing[c.pair.lib][k]
        PROVE  Accounted(c.pair, c.pairStart, s)
    <3>1. k <= c.offset
      BY <1>1, <2>2, <2>3, <2>4
    <3> QED
      BY <2>1, <2>4, <3>1 DEF CoveredBy
  <2>5. \/ Accounted(c.pair, c.pairStart, s)'
        \/ \E k \in 1..Len(listing[c.pair.lib]) :
              /\ i = k \/ i = k + 1
              /\ s = listing[c.pair.lib][k]
              /\ ~Accounted(c.pair, c.pairStart, s)
    <3>1. /\ c.pair \in Pairs /\ InHomeOrder(c.pair)
          /\ c.pairStart \in Nat /\ c.pairStart <= now
          /\ i \in 1..Len(listing'[c.pair.lib]) /\ s = listing'[c.pair.lib][i]
      BY <1>1, <2>1
    <3> QED
      BY <3>1, AroundAccounted, Zenon
  <2>6. CASE \E k \in 1..Len(listing[c.pair.lib]) :
                /\ i = k \/ i = k + 1
                /\ s = listing[c.pair.lib][k]
                /\ ~Accounted(c.pair, c.pairStart, s)
    <3>1. PICK k \in 1..Len(listing[c.pair.lib]) :
             /\ i = k \/ i = k + 1
             /\ s = listing[c.pair.lib][k]
             /\ ~Accounted(c.pair, c.pairStart, s)
      BY <2>6
    <3>2. Accounted(c.pair, c.pairStart, s)
      BY <2>4, <3>1
    <3> QED
      BY <3>1, <3>2
  <2> QED
    BY <2>5, <2>6
<1> QED
  BY <1>1, <1>2, <1>3, <1>5 DEF Fits, InHomeOrder

LEMMA AroundThreshold == ASSUME IInv, Around PROVE ThresholdSound'
<1>1. last' = last /\ [Next]_vars
  BY AroundLeaves DEF pluginVars
<1> SUFFICES ASSUME NEW l \in Libraries, NEW u \in Users, last[l][u] # None,
                    NEW i \in 1..Len(listing'[l]),
                    NEW e, e = last[l][u], NEW s, s = listing'[l][i]
             PROVE  Accounted([lib |-> l, user |-> u,
                               settings |-> e.fingerprint], e.stamp, s)'
  BY <1>1 DEF ThresholdSound
<1> DEFINE p == [lib |-> l, user |-> u, settings |-> e.fingerprint]
<1>2. /\ e.stamp \in Nat /\ e.fingerprint \in Settings /\ e.stamp <= now
      /\ e.fingerprint.order = HomeOrder[l][u]
  BY DEF IInv, TypeOK, LastSynced, StampsPast, HomeOrderKept
<1>3. p \in Pairs /\ InHomeOrder(p) /\ p.lib = l
  BY <1>2 DEF Pairs, InHomeOrder
<1>4. \A k \in 1..Len(listing[l]) : Accounted(p, e.stamp, listing[l][k])
  BY DEF IInv, ThresholdSound
<1>5. i \in 1..Len(listing'[p.lib]) /\ s = listing'[p.lib][i]
  BY <1>3
<1> HIDE DEF p
<1>6. \/ Accounted(p, e.stamp, s)'
      \/ \E k \in 1..Len(listing[p.lib]) :
            /\ i = k \/ i = k + 1
            /\ s = listing[p.lib][k] /\ ~Accounted(p, e.stamp, s)
  BY <1>2, <1>3, <1>5, AroundAccounted
<1>7. Accounted(p, e.stamp, s)'
  BY <1>3, <1>4, <1>6
<1> QED
  BY <1>7 DEF p

LEMMA AroundRows == ASSUME IInv, Around PROVE RowsOK'
<1>1. /\ pc' = pc /\ cur' = cur /\ page' = page /\ run' = run /\ more' = more
      /\ [Next]_vars /\ now <= now'
  BY AroundLeaves DEF pluginVars, callbackVars
<1> DEFINE p == cur.pair
           old == listing[p.lib]
           new == listing'[p.lib]
<1>2. ASSUME AtSong \/ pc = "finish"
      PROVE  /\ p \in Pairs /\ InHomeOrder(p) /\ p.lib \in Libraries
             /\ p.user \in Users
             /\ cur.pairStart \in Nat /\ cur.pairStart <= now
             /\ cur.offset \in Nat /\ old \in Seq(Songs)
             /\ new \in Seq(Songs)
             /\ ~run.dryRun => CoveredBy(cur)
  <2>1. p \in Pairs /\ cur \in Positions /\ p # None
    BY <1>2, OldPositions, NoneAssumption DEF IInv, CallbackOK, InPair, AtSong
  <2>2. Fits(cur) /\ cur \in SyncCursor
    BY <2>1, AllFit, PositionType DEF IInv
  <2>3. run.dryRun = cfg.dryRun
    BY <1>2 DEF IInv, DryRunKept, AtSong
  <2>4. listing \in [Libraries -> Seq(Songs)]
        /\ listing' \in [Libraries -> Seq(Songs)]
    BY <1>1, TypeStep DEF IInv, TypeInv, TypeOK
  <2>5. p.lib \in Libraries /\ p.user \in Users
    BY <2>1 DEF Pairs
  <2> QED
    BY <2>1, <2>2, <2>3, <2>4, <2>5 DEF Fits, SyncCursor
<1>3. RowsCurrent'
  <2> SUFFICES ASSUME AtSong, NEW k \in 1..Len(page)
               PROVE  \/ page[k].userRating = rating'[p.user][page[k].song]
                      \/ excused'[p.user][page[k].song]
                      \/ mtime'[page[k].song] >= cur.pairStart
    BY <1>1 DEF RowsCurrent, AtSong
  <2> DEFINE s == page[k].song
  <2>1. s \in Songs /\ p.user \in Users /\ cur.pairStart \in Nat
        /\ cur.pairStart <= now /\ now \in Nat
    <3>1. page \in Seq(Row) /\ page[k] \in Row
      BY DEF IInv, TypeOK
    <3> QED
      BY <1>2, <3>1 DEF Row, IInv, TypeOK
  <2>2. \/ page[k].userRating = rating[p.user][s]
        \/ excused[p.user][s] \/ mtime[s] >= cur.pairStart
    BY DEF IInv, RowsCurrent
  <2> HIDE DEF s
  <2>3. \/ /\ rating'[p.user][s] = rating[p.user][s]
           /\ excused'[p.user][s] = excused[p.user][s]
           /\ mtime'[s] = mtime[s]
        \/ mtime'[s] = now
        \/ excused'[p.user][s]
    <3> DEFINE Same == /\ rating'[p.user][s] = rating[p.user][s]
                       /\ excused'[p.user][s] = excused[p.user][s]
                       /\ mtime'[s] = mtime[s]
    <3>1. ASSUME NEW e \in Songs, EditFile(e)
          PROVE  mtime'[s] = now \/ Same
      BY <2>1, <3>1 DEF EditFile, IInv, TypeOK
    <3>2. ASSUME NEW u \in Users, NEW e \in Songs, UserRates(u, e)
          PROVE  excused'[p.user][s] \/ Same
      <4>1. PICK n \in HandRatings :
               /\ rating' = [rating EXCEPT ![u][e] = n]
               /\ excused' = [excused EXCEPT ![u][e] = TRUE]
               /\ mtime' = mtime
        BY <3>2 DEF UserRates
      <4>2. /\ rating \in [Users -> [Songs -> Stars]]
            /\ excused \in [Users -> [Songs -> BOOLEAN]]
        BY DEF IInv, TypeOK
      <4>3. CASE u = p.user /\ e = s
        BY <2>1, <4>1, <4>2, <4>3
      <4>4. CASE ~(u = p.user /\ e = s)
        BY <2>1, <4>1, <4>2, <4>4
      <4> QED
        BY <4>3, <4>4
    <3>3. CASE \/ Tick \/ \E l \in Libraries : Rescan(l)
               \/ \E l \in Libraries, e \in Songs : ImportSong(l, e)
               \/ \E c \in Configs : SteadyChange(c)
      BY <3>3 DEF Tick, Rescan, ImportSong, SteadyChange, ChangeConfig
    <3> QED
      BY <3>1, <3>2, <3>3 DEF Around, Environment
  <2> QED
    BY <2>1, <2>2, <2>3 DEF s
<1>4. RowsDistinct'
  BY <1>1 DEF IInv, RowsDistinct, AtSong
<1>5. RowsListed'
  <2> SUFFICES ASSUME AtSong, NEW k \in 1..Len(page)
               PROVE  \E i \in 1..Len(new) :
                         cur.offset + k <= i /\ new[i] = page[k].song
    BY <1>1 DEF RowsListed, pairListing, AtSong
  <2>1. PICK i \in 1..Len(old) : cur.offset + k <= i /\ old[i] = page[k].song
    BY DEF IInv, RowsListed, pairListing
  <2>2. p.lib \in Libraries
    BY <1>2
  <2>3. PICK j \in 1..Len(new) : i <= j /\ new[j] = old[i]
    BY <2>1, <2>2, ListingGrows
  <2>4. cur.offset + k <= j
    BY <1>2, <2>1, <2>3
  <2> QED
    BY <2>1, <2>3, <2>4
<1>6. RowsComplete'
  <2> SUFFICES ASSUME AtSong, ~run.dryRun, NEW i \in 1..Len(new),
                      i > cur.offset, i <= cur.offset + Len(page) \/ ~more,
                      NEW s, s = new[i]
               PROVE  \/ Accounted(cur.pair, cur.pairStart, s)'
                      \/ \E j \in 1..Len(page) :
                            cur.offset + j <= i /\ page[j].song = s
    BY <1>1 DEF RowsComplete, pairListing, AtSong
  <2>1. \A q, t : q = cur.pair /\ t = cur.pairStart =>
           \/ Accounted(q, t, s)'
           \/ \E k \in 1..Len(old) :
                 (i = k \/ i = k + 1) /\ s = old[k] /\ ~Accounted(q, t, s)
    <3> TAKE q, t
    <3> HAVE q = cur.pair /\ t = cur.pairStart
    <3>1. /\ q \in Pairs /\ InHomeOrder(q) /\ t \in Nat /\ t <= now
          /\ i \in 1..Len(listing'[q.lib]) /\ s = listing'[q.lib][i]
      BY <1>2
    <3>2. \/ Accounted(q, t, s)'
          \/ \E k \in 1..Len(listing[q.lib]) :
                /\ i = k \/ i = k + 1
                /\ s = listing[q.lib][k] /\ ~Accounted(q, t, s)
      BY <3>1, AroundAccounted, SMTT(30)
    <3> QED
      BY <3>2
  <2>2. CASE Accounted(cur.pair, cur.pairStart, s)'
    BY <2>2
  <2>3. CASE \E k \in 1..Len(old) :
                /\ i = k \/ i = k + 1
                /\ s = old[k] /\ ~Accounted(cur.pair, cur.pairStart, s)
    <3>1. PICK k \in 1..Len(old) :
             /\ i = k \/ i = k + 1
             /\ s = old[k] /\ ~Accounted(cur.pair, cur.pairStart, s)
      BY <2>3
    <3>2. k \in Nat /\ Len(page) \in Nat /\ cur.offset \in Nat
      BY <1>2, InHand
    <3>3. k > cur.offset
      <4>1. CoveredBy(cur) /\ cur.pair # None
        BY <1>2, NoneAssumption
      <4> QED
        BY <3>1, <3>2, <4>1 DEF CoveredBy
    <3>4. k <= cur.offset + Len(page) \/ ~more
      BY <3>1, <3>2
    <3>5. PICK j \in 1..Len(page) :
             cur.offset + j <= k /\ page[j].song = s
      BY <3>1, <3>3, <3>4 DEF IInv, RowsComplete, pairListing
    <3>6. cur.offset + j <= i
      BY <3>1, <3>2, <3>5
    <3> QED
      BY <3>5, <3>6
  <2> QED
    BY <1>1, <2>1, <2>2, <2>3
<1>7. FinishedPair'
  <2> SUFFICES ASSUME pc = "finish", ~run.dryRun, NEW i \in 1..Len(new),
                      NEW s, s = new[i]
               PROVE  Accounted(cur.pair, cur.pairStart, s)'
    BY <1>1 DEF FinishedPair, pairListing
  <2>1. \A q, t : q = cur.pair /\ t = cur.pairStart =>
           \/ Accounted(q, t, s)'
           \/ \E k \in 1..Len(old) :
                 (i = k \/ i = k + 1) /\ s = old[k] /\ ~Accounted(q, t, s)
    <3> TAKE q, t
    <3> HAVE q = cur.pair /\ t = cur.pairStart
    <3>1. /\ q \in Pairs /\ InHomeOrder(q) /\ t \in Nat /\ t <= now
          /\ i \in 1..Len(listing'[q.lib]) /\ s = listing'[q.lib][i]
      BY <1>2
    <3>2. \/ Accounted(q, t, s)'
          \/ \E k \in 1..Len(listing[q.lib]) :
                /\ i = k \/ i = k + 1
                /\ s = listing[q.lib][k] /\ ~Accounted(q, t, s)
      BY <3>1, AroundAccounted, SMTT(30)
    <3> QED
      BY <3>2
  <2>2. \A k \in 1..Len(old) : Accounted(cur.pair, cur.pairStart, old[k])
    BY DEF IInv, FinishedPair, pairListing
  <2> QED
    BY <1>1, <2>1, <2>2
<1> QED
  BY <1>3, <1>4, <1>5, <1>6, <1>7 DEF RowsOK

\* A rating on its way is overtaken by a save of its file alone.
LEMMA OvertakenBefore ==
    ASSUME IInv, Around, Overtaken', NEW s, s = Head(page).song,
           content'[s] = content[s], mtime'[s] = mtime[s]
    PROVE  Overtaken
<1>1. UNCHANGED <<pc, cur, threshold, page, decided>>
  BY AroundLeaves DEF pluginVars, callbackVars
<1>2. AtSong /\ s \in Songs /\ cur.pair.lib \in Libraries
  BY <1>1, InHand DEF Overtaken, AtSong
<1>3. created'[s] = created[s]
  <2>1. ASSUME NEW l \in Libraries, NEW e \in Songs, ImportSong(l, e)
        PROVE  created'[s] = created[s]
    <3>1. e # s
      BY <1>2, <2>1, HeadListed DEF ImportSong, Listed
    <3> QED
      BY <1>2, <2>1, <3>1 DEF ImportSong, IInv, TypeOK
  <2>2. CASE ~\E l \in Libraries, e \in Songs : ImportSong(l, e)
    BY <2>2 DEF Around, Environment, Tick, EditFile, UserRates, Rescan,
                SteadyChange, ChangeConfig
  <2> QED
    BY <2>1, <2>2
<1>4. verdict' = verdict
  BY <1>1, <1>3 DEF verdict, Decision, Skipped, Unchanged
<1> QED
  BY <1>1, <1>4 DEF Overtaken

\* The save is as new as the clock.
LEMMA AroundOvertaken == ASSUME IInv, Around PROVE OvertakenIsNew'
<1>1. UNCHANGED pluginVars /\ Positions' = Positions /\ TypeOK
  BY AroundLeaves DEF IInv
<1>2. UNCHANGED <<pc, page, last>>
  BY <1>1 DEF pluginVars, callbackVars
<1> SUFFICES ASSUME Overtaken' PROVE OvertakenIsNew'
  BY DEF OvertakenIsNew
<1> DEFINE s == Head(page).song
<1>3. s \in Songs
  BY <1>2, InHand DEF Overtaken, AtSong
<1>4. CASE EditFile(s)
  <2>1. mtime'[s] = now
    BY <1>1, <1>3, <1>4 DEF EditFile, TypeOK
  <2>2. /\ \A c \in Positions : c.pairStart <= now
        /\ \A l \in Libraries : \A u \in Users :
              last[l][u] # None => last[l][u].stamp <= now
    BY DEF IInv, StampsPast
  <2> QED
    BY <1>1, <1>2, <2>1, <2>2 DEF OvertakenIsNew
<1>5. CASE ~EditFile(s)
  <2>1. mtime'[s] = mtime[s] /\ content'[s] = content[s]
    <3>1. ASSUME NEW e \in Songs, EditFile(e)
          PROVE  mtime'[s] = mtime[s] /\ content'[s] = content[s]
      <4>1. e # s
        BY <1>5, <3>1
      <4> HIDE DEF s
      <4> QED
        BY <1>1, <1>3, <3>1, <4>1 DEF EditFile, TypeOK
    <3>2. CASE ~\E e \in Songs : EditFile(e)
      BY <3>2 DEF Around, Environment, Tick, ImportSong, UserRates, Rescan,
                  SteadyChange, ChangeConfig
    <3> QED
      BY <3>1, <3>2
  <2>2. Overtaken
    BY <2>1, OvertakenBefore
  <2> QED
    BY <1>1, <1>2, <2>1, <2>2 DEF IInv, OvertakenIsNew
<1> QED
  BY <1>4, <1>5

LEMMA AroundInv == ASSUME IInv, Around PROVE IInv'
<1>1. /\ UNCHANGED pluginVars /\ Positions' = Positions
      /\ now <= now' /\ [Next]_vars
  BY AroundLeaves
<1>2. TypeOK' /\ CallbackOK'
  BY <1>1, TypeStep DEF IInv, TypeInv
<1>3. \A c \in Positions' : Fits(c)'
  BY <1>1, AroundFits
<1>4. /\ pc' = pc /\ run' = run /\ last' = last
      /\ InPair' = InPair /\ threshold' = threshold /\ cur' = cur
  BY <1>1 DEF pluginVars, callbackVars, InPair, AtSong
<1>5. StampsPast'
  <2>1. now \in Nat /\ now' \in Nat
    BY <1>2 DEF IInv, TypeOK
  <2>2. \A l \in Libraries, u \in Users :
           last[l][u] # None => last[l][u].stamp <= now'
    BY <1>1, <2>1 DEF IInv, StampsPast, TypeOK, LastSynced
  <2> QED
    BY <1>3, <1>4, <2>2 DEF StampsPast, Fits
<1>6. HomeOrderKept'
  <2>1. Steady(cfg')
    <3>1. CASE Environment
      BY <3>1 DEF Environment, Tick, EditFile, UserRates, Rescan, ImportSong,
                  IInv, HomeOrderKept
    <3>2. CASE \E c \in Configs : SteadyChange(c)
      BY <3>2 DEF SteadyChange, ChangeConfig
    <3> QED
      BY <3>1, <3>2 DEF Around
  <2>2. pc' # "idle" => Steady(run')
    BY <1>4 DEF IInv, HomeOrderKept
  <2>3. \A l \in Libraries : \A u \in Users :
           last'[l][u] # None
           => last'[l][u].fingerprint.order = HomeOrder[l][u]
    BY <1>4 DEF IInv, HomeOrderKept
  <2>4. \A c \in Positions' : c.pair # None => InHomeOrder(c.pair)'
    BY <1>3 DEF Fits
  <2> QED
    BY <2>1, <2>2, <2>3, <2>4 DEF HomeOrderKept, Steady
<1>7. PositionSound'
  BY <1>3 DEF PositionSound, Fits
<1>8. ListedOnce'
  BY OnceEverywhere
<1>9. DryRunKept'
  <2>1. CASE Environment
    BY <1>4, <2>1 DEF Environment, Tick, EditFile, UserRates, Rescan,
                      ImportSong, IInv, DryRunKept
  <2>2. CASE \E c \in Configs : SteadyChange(c)
    BY <1>4, <2>2 DEF SteadyChange, ChangeConfig, NoPosition, IInv, DryRunKept
  <2> QED
    BY <2>1, <2>2 DEF Around
<1>10. ThresholdLoaded'
  BY <1>4 DEF IInv, ThresholdLoaded
<1> QED
  BY <1>2, <1>5, <1>6, <1>7, <1>8, <1>9, <1>10, AroundThreshold, AroundRows,
     AroundOvertaken
     DEF IInv, RowsOK

-----------------------------------------------------------------------------
(* The theorems *)

LEMMA InitInv == Init => IInv
<1> SUFFICES ASSUME Init PROVE IInv
  OBVIOUS
<1>1. TypeOK /\ CallbackOK
  BY TypeInit DEF TypeInv
<1>2. Positions = {}
  BY DEF Init, Positions
<1>3. \A l \in Libraries : \A u \in Users : last[l][u] = None
  BY DEF Init
<1>4. pc = "idle" /\ Steady(cfg)
  BY DEF Init
<1>5. ListedOnce
  BY ListingAssumption DEF Init, ListedOnce
<1> QED
  BY <1>1, <1>2, <1>3, <1>4, <1>5
     DEF IInv, DryRunKept, HomeOrderKept, StampsPast, ThresholdLoaded, InPair, AtSong,
         RowsCurrent, RowsDistinct, RowsListed, RowsComplete, FinishedPair,
         OvertakenIsNew, Overtaken, ThresholdSound, PositionSound

LEMMA StepInv == IInv /\ [Next]_vars => IInv'
<1> SUFFICES ASSUME IInv, [Next]_vars PROVE IInv'
  OBVIOUS
<1>1. CASE UNCHANGED vars
  <2>1. TypeOK' /\ CallbackOK'
    BY TypeStep DEF IInv, TypeInv
  <2>2. UNCHANGED <<now, cfg, listing, mtime, created, content, rating, excused,
                    last, record, pending, pc, cur, run, threshold, page,
                    more, decided>>
    BY <1>1 DEF vars, envVars, callbackVars
  <2>3. Positions' = Positions
    BY <2>2 DEF Positions
  <2>4. StampsPast' /\ ListedOnce' /\ DryRunKept'
    BY <2>2, <2>3 DEF IInv, StampsPast, ListedOnce, DryRunKept
  <2>5. HomeOrderKept'
    BY <2>2, <2>3 DEF IInv, HomeOrderKept, InHomeOrder, Steady
  <2>6. ThresholdLoaded' /\ RowsCurrent' /\ RowsDistinct'
    BY <2>2 DEF IInv, ThresholdLoaded, InPair, AtSong, RowsCurrent,
                RowsDistinct
  <2>7. RowsListed'
    BY <2>2 DEF IInv, RowsListed, pairListing, AtSong
  <2>8. RowsComplete' /\ FinishedPair'
    BY <2>2 DEF IInv, RowsComplete, FinishedPair, pairListing, Accounted,
                Settled, AtSong
  <2>9. ThresholdSound'
    <3>1. \A p, t, s : Accounted(p, t, s)' <=> Accounted(p, t, s)
      BY <2>2 DEF Accounted, Settled
    <3> QED
      BY <2>2, <3>1 DEF IInv, ThresholdSound
  <2>10. PositionSound'
    BY <2>2, <2>3 DEF IInv, PositionSound, CoveredBy, Accounted, Settled
  <2>11. OvertakenIsNew'
    BY <2>2, <2>3 DEF IInv, OvertakenIsNew, Overtaken, verdict, Decision,
                      Skipped, Unchanged
  <2> QED
    BY <2>1, <2>4, <2>5, <2>6, <2>7, <2>8, <2>9, <2>10, <2>11 DEF IInv
<1> QED
  BY <1>1, PluginInv, AroundInv DEF Next, Around

(* The invariant that carries the two below: what the page in hand, the    *)
(* loaded threshold and every kept position stand for.                     *)
THEOREM Invariant == Spec => []IInv
BY InitInv, StepInv, PTL DEF Spec

(* No saved threshold hides a file that still has to be read.              *)
THEOREM NoWorkHidden == Spec => []ThresholdSound
<1>1. IInv => ThresholdSound
  BY DEF IInv
<1> QED
  BY <1>1, Invariant, PTL

(* A sweep may resume at every position it keeps.                          *)
THEOREM ResumableAnywhere == Spec => []PositionSound
<1>1. IInv => PositionSound
  BY DEF IInv
<1> QED
  BY <1>1, Invariant, PTL

=============================================================================
