----------------------------- MODULE RatingSync -----------------------------
(***************************************************************************)
(* The resumable sweep of nd-rating-sync: scheduler callbacks walk the     *)
(* configured (library, user) pairs, page through Navidrome's song         *)
(* listing, copy the rating of every changed file to Navidrome and save,   *)
(* per pair, the time below which files need not be read again.  A         *)
(* callback may stop after any song; a queued cursor or the sweep record   *)
(* in the KV store carries the position to the next one.                   *)
(*                                                                         *)
(* Callbacks run one at a time here, each interleaved with file edits,     *)
(* scans, ratings given by hand and configuration changes; several chains  *)
(* of continuations may be under way.  Callbacks that overlap in time are  *)
(* the subject of module SweepChain.                                       *)
(***************************************************************************)
EXTENDS Naturals, Sequences

CONSTANTS
    Libraries,        \* numeric Navidrome library IDs
    Users,            \* Navidrome login names
    Songs,            \* song IDs, each with one file
    Orders,           \* values of ratingTagOrder
    Contents,         \* what a file can hold: for each order, what is read
    Configs,          \* configurations an administrator may save
    HomeOrder,        \* the tag order each pair keeps under Spec
    LostUsers,        \* users whose song listing always fails
    InitialListing,   \* for each library, its songs in listing order
    PageSize,         \* songPageSize
    MaxPairAttempts,  \* maxPairAttempts
    TicksPerSecond,   \* clock steps per second of LastScanAt
    FaultKinds,       \* the kinds of failure that may happen
    MaxTime, MaxChanges, MaxFaults,   \* bounds
    HandRatings,      \* ratings people give by hand
    InitialRatings,   \* those Navidrome has before the first sweep
    None

VARIABLES
    now, changes, faults,             \* the clock and the spent bounds
    cfg,                              \* the saved configuration
    listing, mtime, created, content, \* Navidrome's songs and their files
    scan,                             \* the last scan of each library
    rating,                           \* Navidrome's ratings
    excused,                          \* history: see Settled
    last, record,                     \* KV store: thresholds, sweep record
    pending,                          \* cursors of queued continuations
    pc, cur, run, threshold, page, more, seen, decided,
                                      \* the running callback
    crash                             \* history: the last unresolved crash

envVars == <<now, changes, cfg, listing, mtime, created, content, scan>>
callbackVars == <<pc, cur, run, threshold, page, more, seen, decided>>
vars == <<envVars, faults, rating, excused, last, record, pending,
          callbackVars, crash>>

-----------------------------------------------------------------------------
(* Configuration, positions and records *)

Settings == [order: Orders, skip: BOOLEAN, clear: BOOLEAN]
Pairs == [lib: Libraries, user: Users, settings: Settings]
UserConfig == [name: Users \union {None}, settings: Settings]
LibraryConfig == [id: Libraries, users: Seq(UserConfig)]
PluginConfig == [libraries: Seq(LibraryConfig), incremental: BOOLEAN,
                 dryRun: BOOLEAN]

Stars == 0..5
Reading == [result: {"TagFound", "TagAbsent", "FileUnreadable",
                     "TagNotWholeStar"}, stars: Stars]

SyncCursor == [lib: Nat, user: Nat, offset: Nat, pairStart: Nat,
               pair: Pairs \union {None},
               retry: 0..(MaxPairAttempts - 1), logReadsUntil: Nat]
SweepRecord == [cursor: SyncCursor \union {None}, fresh: BOOLEAN,
                interrupted: BOOLEAN, missed: BOOLEAN]
LastSynced == [stamp: Nat, fingerprint: Settings]
Row == [song: Songs, userRating: Stars]
Crash == [song: Songs \union {None}, pair: Pairs \union {None}, index: Nat]

ASSUME ConfigAssumption ==
    /\ Configs \subseteq PluginConfig
    /\ Contents \subseteq [Orders -> Reading]
    /\ HomeOrder \in [Libraries -> [Users -> Orders]]
    /\ LostUsers \subseteq Users
    /\ HandRatings \subseteq Stars /\ InitialRatings \subseteq Stars

ASSUME BoundAssumption ==
    /\ PageSize \in Nat \ {0}
    /\ MaxPairAttempts \in Nat \ {0}
    /\ TicksPerSecond \in Nat \ {0}
    /\ MaxTime \in Nat /\ MaxChanges \in Nat /\ MaxFaults \in Nat

(* A song is of one library, which lists it once.                          *)
ASSUME ListingAssumption ==
    /\ InitialListing \in [Libraries -> Seq(Songs)]
    /\ \A l, m \in Libraries : \A i \in 1..Len(InitialListing[l]) :
           \A j \in 1..Len(InitialListing[m]) :
              InitialListing[l][i] = InitialListing[m][j] => l = m /\ i = j

\* None is none of the values it stands in for.
ASSUME NoneAssumption ==
    /\ None \notin Stars /\ None \notin Pairs /\ None \notin Songs
    /\ None \notin Crash /\ None \notin SweepRecord /\ None \notin SyncCursor

\* The fresh position of the user-th user of the lib-th library.
At(lib, user) ==
    [lib |-> lib, user |-> user, offset |-> 0, pairStart |-> 0,
     pair |-> None, retry |-> 0, logReadsUntil |-> 0]

NextPair(c) == At(c.lib, c.user + 1)
NextLibrary(c) == At(c.lib + 1, 1)

PageEnd(offset) == (offset \div PageSize + 1) * PageSize

PairID(lib, user) ==
    [lib |-> lib.id, user |-> user.name, settings |-> user.settings]

-----------------------------------------------------------------------------
(* The KV store: the sweep record and the incremental thresholds.  A       *)
(* record is fresh while its heartbeat is younger than SweepStaleAfter.    *)
(* missed: a refresh failed since the heartbeat in it was stored.          *)

\* Mutant: the age is compared the wrong way round.
ActiveWhenStale(r) == r # None /\ ~r.fresh /\ ~r.interrupted

Active(r) == r # None /\ r.fresh /\ ~r.interrupted

Marked(c) ==
    [cursor |-> c, fresh |-> TRUE, interrupted |-> FALSE, missed |-> FALSE]

Missed(r) == IF r = None THEN None ELSE [r EXCEPT !.missed = TRUE]

Interrupted(r, c) ==
    IF r = None
    THEN IF c = None THEN None
         ELSE [cursor |-> c, fresh |-> FALSE, interrupted |-> TRUE,
               missed |-> FALSE]
    ELSE [r EXCEPT !.interrupted = TRUE,
                   !.cursor = IF c = None THEN @ ELSE c]

\* Mutant: every leftover record is taken for a crash.
SweepStartAlwaysHunting(r) ==
    IF r = None THEN At(1, 1)
    ELSE IF r.cursor = None THEN At(1, 1)
    ELSE [r.cursor EXCEPT !.logReadsUntil = PageEnd(r.cursor.offset)]

\* Where a callback without payload starts when no sweep is active.
SweepStart(r) ==
    IF r = None THEN At(1, 1)
    ELSE IF r.cursor = None THEN At(1, 1)
    ELSE [r.cursor EXCEPT !.logReadsUntil =
             IF r.interrupted THEN 0 ELSE PageEnd(r.cursor.offset)]

LoadLastSynced(lib, user, settings) ==
    IF last[lib][user] = None THEN 0
    ELSE IF last[lib][user].fingerprint = settings
         THEN last[lib][user].stamp ELSE 0

-----------------------------------------------------------------------------
(* What one song gets: processSong.  Times start at 1: 0 is Go's zero time. *)

Skipped(st, row) == st.skip /\ row.userRating > 0

\* Mutant: a song that Navidrome has just imported is not told apart.
UnchangedByMtime(s, t) == t # 0 /\ mtime[s] < t

\* An older file of a song that Navidrome has had since before t.  A song
\* without a usable created value counts as one it has always had, as those
\* of the first listing do; Navidrome sends the value with every import.
Unchanged(s, t) == t # 0 /\ created[s] < t /\ mtime[s] < t

\* The rating to write, or None to leave the song as it is.
Decision(st, row, t) ==
    LET read == content[row.song][st.order] IN
    IF Skipped(st, row) \/ Unchanged(row.song, t) THEN None
    ELSE IF /\ read.result = "TagFound"
            /\ read.stars # row.userRating
         THEN read.stars
    ELSE IF /\ read.result = "TagAbsent"
            /\ st.clear
            /\ row.userRating # 0
         THEN 0
    ELSE None

-----------------------------------------------------------------------------
(* Initial state *)

Steady(c) ==
    \A i \in 1..Len(c.libraries) : \A j \in 1..Len(c.libraries[i].users) :
        LET l == c.libraries[i].id
            u == c.libraries[i].users[j] IN
        u.name \in Users => u.settings.order = HomeOrder[l][u.name]

Init ==
    /\ now = 1 /\ changes = 0 /\ faults = 0
    /\ cfg \in {c \in Configs : Steady(c)}
    /\ listing = InitialListing
    /\ mtime = [s \in Songs |-> 1]
    /\ created = [s \in Songs |-> 1]
    /\ content \in [Songs -> Contents]
    /\ scan = [l \in Libraries |-> 1]
    /\ rating \in [Users -> [Songs -> InitialRatings]]
    /\ excused = [u \in Users |-> [s \in Songs |-> FALSE]]
    /\ last = [l \in Libraries |-> [u \in Users |-> None]]
    /\ record = None
    /\ pending = {}
    /\ pc = "idle" /\ cur = At(1, 1) /\ run = None
    /\ threshold = 0 /\ page = <<>> /\ more = FALSE /\ decided = None
    /\ seen = [l \in Libraries |-> None]
    /\ crash = None

\* One more failure of a kind, if that kind may happen and the bound allows.
Fault(kind) ==
    /\ kind \in FaultKinds
    /\ faults < MaxFaults
    /\ faults' = faults + 1

\* The instance of a callback is gone; nothing in it survives.
EndCallback ==
    /\ pc' = "idle" /\ cur' = At(1, 1) /\ run' = None
    /\ threshold' = 0 /\ page' = <<>> /\ more' = FALSE /\ decided' = None
    /\ seen' = [l \in Libraries |-> None]

\* MarkSweepActive: a failed write leaves the record as it was.
MarkSweepActive(c) ==
    \/ record' = Marked(c) /\ UNCHANGED faults
    \/ Fault("heartbeat") /\ record' = Missed(record)

\* MarkSweepInterrupted: it reads the record, changes it and stores it.
MarkSweepInterrupted(c) ==
    \/ record' = Interrupted(record, c)
    \/ /\ "lookup" \in FaultKinds
       /\ record' = IF c = None THEN record ELSE Interrupted(None, c)
    \/ "heartbeat" \in FaultKinds /\ UNCHANGED record

-----------------------------------------------------------------------------
(* A callback starts: RunSyncStep *)

BeginCallback(c) ==
    /\ pc = "idle" /\ Len(cfg.libraries) > 0
    /\ pc' = "start" /\ cur' = c /\ run' = cfg
    /\ UNCHANGED <<envVars, rating, excused, last, threshold, page, more,
                   seen, decided, crash>>

\* The cron, or the run right after a load.
StartSweep ==
    /\ ~Active(record)
    /\ BeginCallback(SweepStart(record))
    /\ MarkSweepActive(cur')
    /\ UNCHANGED pending

\* The sweep record cannot be read: assume that no sweep is active.  A KV
\* store in trouble may refuse the heartbeat as well.
StartSweepUnguarded ==
    /\ record # None
    /\ BeginCallback(At(1, 1))
    /\ Fault("lookup")
    /\ \/ record' = Marked(cur')
       \/ "heartbeat" \in FaultKinds /\ record' = Missed(record)
    /\ UNCHANGED pending

Continue ==
    \E c \in pending :
        /\ BeginCallback(c)
        /\ MarkSweepActive(c)
        /\ pending' = pending \ {c}

\* Nothing is configured: the chain ends here, and not by a crash.
NoLibraries ==
    /\ pc = "idle" /\ Len(cfg.libraries) = 0
    /\ pending' \in {pending} \union {pending \ {c} : c \in pending}
    /\ MarkSweepInterrupted(None)
    /\ UNCHANGED <<envVars, faults, rating, excused, last, callbackVars, crash>>

-----------------------------------------------------------------------------
(* The loop of runSyncChunk: find the next pair that has work *)

Choosing == pc \in {"start", "pair"}

libraryConfig == run.libraries[cur.lib]
userConfig == libraryConfig.users[cur.user]

SelectedPair ==
    /\ Choosing
    /\ cur.lib \in 1..Len(run.libraries)
    /\ cur.user \in 1..Len(libraryConfig.users)

chunkRest ==
    <<envVars, rating, excused, last, pending, run, page, more, decided>>

ExhaustedLibrary ==
    /\ Choosing
    /\ cur.lib \in 1..Len(run.libraries)
    /\ cur.user > Len(libraryConfig.users)
    /\ cur' = NextLibrary(cur)
    /\ UNCHANGED <<chunkRest, faults, record, pc, threshold, seen, crash>>

\* The first check of a callback comes right after its start.
DeadlineBeforePair ==
    /\ SelectedPair /\ pc = "pair"
    /\ pc' = "handover"
    /\ UNCHANGED <<chunkRest, faults, record, cur, threshold, seen, crash>>

SkipPair ==
    /\ pc' = "pair" /\ cur' = NextPair(cur)
    /\ UNCHANGED <<chunkRest, record, threshold, crash>>

SkipBlankUser ==
    /\ SelectedPair /\ userConfig.name = None
    /\ SkipPair
    /\ UNCHANGED <<faults, seen>>

\* Mutant: the pair of a position is not compared.
ForAnyPair(c, id) == c

\* A position inside a pair counts only for the pair it was saved for.
ForThisPair(c, id) ==
    IF (c.offset > 0 \/ c.pairStart # 0) /\ c.pair # id
    THEN At(c.lib, c.user) ELSE c

FreshPair(c) == c.offset = 0 /\ c.pairStart = 0

\* The user or the library is not granted to the plugin.
SkipDeniedPair ==
    /\ SelectedPair /\ userConfig.name # None
    /\ FreshPair(ForThisPair(cur, PairID(libraryConfig, userConfig)))
    /\ Fault("access")
    /\ SkipPair
    /\ UNCHANGED seen

\* LibraryGetLibrary, asked once per callback.
Scanned(l) == IF seen[l] = None THEN scan[l] ELSE seen[l]
LookUp(l) == seen' = [seen EXCEPT ![l] = Scanned(l)]

\* LastScanAt counts whole seconds.
LastScanAt(t) == (t \div TicksPerSecond) * TicksPerSecond

\* Mutant: a scan in the same instant is not waited for.
GateClosesEarly(scanned, stamp) == scanned # 0 /\ scanned <= stamp

\* Navidrome has not scanned the library since the threshold.
GateCloses(scanned, stamp) == scanned # 0 /\ scanned < stamp

Threshold ==
    IF run.incremental
    THEN LoadLastSynced(libraryConfig.id, userConfig.name,
                        userConfig.settings)
    ELSE 0

Gated ==
    /\ FreshPair(ForThisPair(cur, PairID(libraryConfig, userConfig)))
    /\ Threshold # 0
    /\ GateCloses(LastScanAt(Scanned(libraryConfig.id)), Threshold)

SkipUnscannedPair ==
    /\ SelectedPair /\ userConfig.name # None
    /\ Gated
    /\ LookUp(libraryConfig.id)
    /\ SkipPair
    /\ UNCHANGED faults

\* The library cannot be looked up, or has no mount.
SkipUnmountedPair ==
    /\ SelectedPair /\ userConfig.name # None
    /\ Fault("access")
    /\ SkipPair
    /\ UNCHANGED seen

EnterPair(c, id) ==
    /\ pc' = "page"
    /\ cur' = IF c.pairStart = 0
              THEN [c EXCEPT !.pairStart = now, !.pair = id] ELSE c
    /\ crash' = IF c # cur THEN None ELSE crash
    /\ UNCHANGED <<chunkRest, record>>

StartPair ==
    /\ SelectedPair /\ userConfig.name # None
    /\ LET id == PairID(libraryConfig, userConfig) IN
       \/ /\ ~Gated
          /\ threshold' = Threshold
          /\ EnterPair(ForThisPair(cur, id), id)
          /\ LookUp(libraryConfig.id)
          /\ UNCHANGED faults
       \/ /\ Threshold # 0     \* the threshold cannot be read: read all
          /\ Fault("lookup")
          /\ threshold' = 0
          /\ EnterPair(ForThisPair(cur, id), id)
          /\ LookUp(libraryConfig.id)

-----------------------------------------------------------------------------
(* The loop of processPairChunk: a page, then its songs one by one *)

pairRest == <<envVars, last, pending, run, threshold, seen>>
fetchRest == <<pairRest, rating, excused, decided, crash>>

\* The rows from the position to the end of its page.
PageRows(l, user, offset) ==
    LET end == IF PageEnd(offset) <= Len(listing[l])
               THEN PageEnd(offset) ELSE Len(listing[l])
    IN  [k \in 1..(IF offset < end THEN end - offset ELSE 0) |->
            [song |-> listing[l][offset + k],
             userRating |-> rating[user][listing[l][offset + k]]]]

\* Mutant: the record runs ahead to the end of the page.
StorePositionAhead ==
    /\ pc = "page"
    /\ MarkSweepActive([cur EXCEPT !.offset = PageEnd(@)])
    /\ pc' = "fetch"
    /\ UNCHANGED <<fetchRest, cur, page, more>>

StorePosition ==
    /\ pc = "page"
    /\ MarkSweepActive(cur)
    /\ pc' = "fetch"
    /\ UNCHANGED <<fetchRest, cur, page, more>>

FetchPage ==
    /\ pc = "fetch"
    /\ cur.pair.user \notin LostUsers
    /\ page' = PageRows(cur.pair.lib, cur.pair.user, cur.offset)
    /\ more' = (PageEnd(cur.offset) <= Len(listing[cur.pair.lib]))
    /\ pc' = IF page' = <<>> THEN "finish" ELSE "song"
    /\ UNCHANGED <<fetchRest, faults, record, cur>>

\* Mutant: one attempt too many.
GivesUpLate(retry) == retry > MaxPairAttempts

GivesUp(retry) == retry >= MaxPairAttempts

\* Mutant: the attempt is not counted.
FailedUncounted(c) == c

Failed(c) == [c EXCEPT !.retry = @ + 1]

\* The song listing, or the matcher lookup of a page, fails.
PageFails ==
    /\ pc = "fetch"
    /\ \/ cur.pair.user \in LostUsers /\ UNCHANGED faults
       \/ Fault("list")
    /\ IF GivesUp(Failed(cur).retry)
       THEN pc' = "pair" /\ cur' = NextPair(cur)
       ELSE pc' = "handover" /\ cur' = Failed(cur)
    /\ UNCHANGED <<fetchRest, record, page, more>>

\* Mutant: the crash hunt ends after one song.
NextSongUnlogged(c) ==
    [c EXCEPT !.offset = @ + 1, !.retry = 0, !.logReadsUntil = 0]

\* The position after one more song.  The crash hunt ends at its bound.
NextSong(c) ==
    [c EXCEPT !.offset = @ + 1, !.retry = 0,
              !.logReadsUntil = IF c.offset + 1 >= @ THEN 0 ELSE @]

\* After a song: hand over at the deadline, else go on.
AfterSong ==
    /\ cur' = NextSong(cur)
    /\ page' = Tail(page)
    /\ pc' \in {"handover",
                IF page' # <<>> THEN "song"
                ELSE IF more THEN "page" ELSE "finish"}
    /\ decided' = None
    /\ UNCHANGED <<pairRest, record, more, crash>>

\* The file cannot be located, stat'ed or read this once, or setRating
\* fails.  It is logged, and the song counts as processed.
SongFails ==
    LET s == Head(page).song IN
    /\ Fault("song")
    /\ excused' = [excused EXCEPT ![cur.pair.user][s] =
                      @ \/ mtime[s] < cur.pairStart]
    /\ UNCHANGED rating
    /\ AfterSong

verdict == Decision(cur.pair.settings, Head(page), threshold)

\* The file is looked at, and read if need be.  Its time is asked for before
\* it is read; as the time only grows, the two are one step.
ReadSong ==
    /\ pc = "song"
    /\ \/ /\ verdict # None /\ ~run.dryRun
          /\ pc' = "rate" /\ decided' = verdict
          /\ UNCHANGED <<pairRest, faults, rating, excused, record, cur, page,
                         more, crash>>
       \/ /\ verdict = None \/ run.dryRun
          /\ UNCHANGED <<faults, rating, excused>>
          /\ AfterSong
       \/ ~Skipped(cur.pair.settings, Head(page)) /\ SongFails

\* setRating stores what was read, even if the file was saved meanwhile.
RateSong ==
    /\ pc = "rate"
    /\ LET u == cur.pair.user
           s == Head(page).song
       IN  \/ /\ rating' = [rating EXCEPT ![u][s] = decided]
              /\ excused' = [excused EXCEPT ![u][s] = FALSE]
              /\ UNCHANGED faults
              /\ AfterSong
           \/ SongFails

\* Mutant: the time the pair was finished.
FinishTime == now

\* What is saved is the time the pair was started.
SavedStamp == cur.pairStart

FinishPair ==
    /\ pc = "finish"
    /\ pc' = "pair" /\ cur' = NextPair(cur)
    /\ page' = <<>> /\ more' = FALSE
    /\ LET p == cur.pair IN
       IF run.incremental /\ ~run.dryRun
       THEN \/ /\ last' = [last EXCEPT ![p.lib][p.user] =
                              [stamp |-> SavedStamp,
                               fingerprint |-> p.settings]]
               /\ UNCHANGED faults
            \/ Fault("save") /\ UNCHANGED last
       ELSE UNCHANGED <<last, faults>>
    /\ UNCHANGED <<envVars, rating, excused, record, pending, run, threshold,
                   seen, decided, crash>>

-----------------------------------------------------------------------------
(* A callback ends *)

SweepDone == Choosing /\ cur.lib > Len(run.libraries)

\* ClearSweepActive: a failed delete stores a record without a position.
Cleared ==
    [cursor |-> None, fresh |-> TRUE, interrupted |-> TRUE, missed |-> FALSE]

CompleteSweep ==
    /\ SweepDone
    /\ \/ record' = None /\ UNCHANGED faults
       \/ record' = Cleared /\ Fault("clear")
       \/ UNCHANGED record /\ Fault("store")
    /\ pc' = "prune"
    /\ crash' = None
    /\ UNCHANGED <<chunkRest, cur, threshold, seen>>

Configured(c, l, u) ==
    \E i \in 1..Len(c.libraries) :
        /\ c.libraries[i].id = l
        /\ \E j \in 1..Len(c.libraries[i].users) :
               c.libraries[i].users[j].name = u

\* deleteStaleThresholds, which a failed delete cuts short.
DeleteStaleThresholds ==
    /\ pc = "prune"
    /\ \/ /\ last' = [l \in Libraries |-> [u \in Users |->
                         IF Configured(run, l, u) THEN last[l][u] ELSE None]]
          /\ UNCHANGED faults
       \/ /\ Fault("clear")
          /\ \E gone \in SUBSET {p \in Libraries \X Users :
                                    ~Configured(run, p[1], p[2])} :
                last' = [l \in Libraries |-> [u \in Users |->
                   IF <<l, u>> \in gone THEN None ELSE last[l][u]]]
    /\ EndCallback
    /\ UNCHANGED <<envVars, rating, excused, record, pending, crash>>

\* The continuation is queued; its delay matters only in SweepChain.
Reschedule ==
    /\ pc = "handover"
    /\ pending' = pending \union {cur}
    /\ EndCallback
    /\ UNCHANGED <<envVars, faults, rating, excused, last, record, crash>>

RescheduleRefused ==
    /\ pc = "handover"
    /\ Fault("refuse")
    /\ MarkSweepInterrupted(cur)
    /\ crash' = None
    /\ EndCallback
    /\ UNCHANGED <<envVars, rating, excused, last, pending>>

\* A panic, no memory left, or Navidrome's 30 s limit.
Crashes ==
    /\ pc # "idle"
    /\ Fault("crash")
    /\ crash' = [song |-> IF pc = "song" THEN Head(page).song ELSE None,
                 pair |-> cur.pair, index |-> cur.offset]
    /\ EndCallback
    /\ UNCHANGED <<envVars, rating, excused, last, record, pending>>

\* OnInit after a reload: the queue and a running callback are gone.
Reload ==
    /\ Fault("reload")
    /\ pending' = {}
    /\ MarkSweepInterrupted(None)
    /\ crash' = None
    /\ EndCallback
    /\ UNCHANGED <<envVars, rating, excused, last>>

\* No heartbeat for SweepStaleAfter: no callback ran or waits to run, or
\* its heartbeats were lost.
Expire ==
    /\ record # None /\ record.fresh
    /\ \/ pc = "idle" /\ pending = {}
       \/ record.missed
    /\ record' = [record EXCEPT !.fresh = FALSE]
    /\ UNCHANGED <<envVars, faults, rating, excused, last, pending,
                   callbackVars, crash>>

-----------------------------------------------------------------------------
(* Navidrome, its users, the files and the administrator *)

pluginVars == <<faults, last, record, pending, callbackVars, crash>>

Change == changes < MaxChanges /\ changes' = changes + 1

Tick ==
    /\ now < MaxTime
    /\ now' = now + 1
    /\ UNCHANGED <<changes, cfg, listing, mtime, created, content, scan,
                   rating, excused, pluginVars>>

\* A tag editor saves the file of s.
EditFile(s) ==
    /\ Change
    /\ \E new \in Contents \ {content[s]} :
           content' = [content EXCEPT ![s] = new]
    /\ mtime' = [mtime EXCEPT ![s] = now]
    /\ excused' = [u \in Users |-> [excused[u] EXCEPT ![s] = FALSE]]
    /\ UNCHANGED <<now, cfg, listing, created, scan, rating, pluginVars>>

\* Somebody rates s in Navidrome.
UserRates(u, s) ==
    /\ Change
    /\ \E n \in HandRatings : rating' = [rating EXCEPT ![u][s] = n]
    /\ excused' = [excused EXCEPT ![u][s] = TRUE]
    /\ UNCHANGED <<now, cfg, listing, mtime, created, content, scan,
                   pluginVars>>

Rescan(l) ==
    /\ scan' = [scan EXCEPT ![l] = now]
    /\ UNCHANGED <<now, changes, cfg, listing, mtime, created, content,
                   rating, excused, pluginVars>>

\* A scan imports a song, which may enter the listing anywhere.
InsertSong(list, p, s) ==
    [i \in 1..(Len(list) + 1) |->
        IF i < p THEN list[i] ELSE IF i = p THEN s ELSE list[i - 1]]

Contains(l, s) == \E i \in 1..Len(listing[l]) : listing[l][i] = s

Listed(s) == \E l \in Libraries : Contains(l, s)

ImportSong(l, s) ==
    /\ Change
    /\ ~Listed(s)
    /\ \E p \in 1..(Len(listing[l]) + 1) :
           listing' = [listing EXCEPT ![l] = InsertSong(@, p, s)]
    /\ created' = [created EXCEPT ![s] = now]
    /\ scan' = [scan EXCEPT ![l] = now]
    /\ UNCHANGED <<now, cfg, mtime, content, rating, excused, pluginVars>>

\* No position of an unfinished sweep is kept anywhere.
NoPosition ==
    /\ pc = "idle" /\ pending = {}
    /\ (record # None => record.cursor = None)

ChangeConfig(c) ==
    /\ Change
    /\ c # cfg
    /\ cfg' = c
    /\ UNCHANGED <<now, listing, mtime, created, content, scan, rating,
                   excused, pluginVars>>

\* The changes Spec allows: a user keeps the tag order, and dry run is
\* switched between sweeps.  README.md says what the others do.
SteadyChange(c) ==
    /\ Steady(c)
    /\ c.dryRun # cfg.dryRun => NoPosition
    /\ ChangeConfig(c)

-----------------------------------------------------------------------------
CallbackStep ==
    \/ ExhaustedLibrary \/ DeadlineBeforePair
    \/ SkipBlankUser \/ SkipDeniedPair \/ SkipUnscannedPair
    \/ SkipUnmountedPair \/ StartPair
    \/ StorePosition \/ FetchPage \/ PageFails \/ ReadSong \/ RateSong \/ FinishPair
    \/ CompleteSweep \/ DeleteStaleThresholds
    \/ Reschedule \/ RescheduleRefused

Trigger == StartSweep \/ StartSweepUnguarded \/ NoLibraries

Plugin == CallbackStep \/ Trigger \/ Continue \/ Crashes \/ Reload \/ Expire

Environment ==
    \/ Tick
    \/ \E s \in Songs : EditFile(s)
    \/ \E u \in Users, s \in Songs : UserRates(u, s)
    \/ \E l \in Libraries : Rescan(l)
    \/ \E l \in Libraries, s \in Songs : ImportSong(l, s)

Next == Plugin \/ Environment \/ \E c \in Configs : SteadyChange(c)

Spec == Init /\ [][Next]_vars

-----------------------------------------------------------------------------
(* Properties *)

TypeOK ==
    /\ now \in Nat \ {0} /\ changes \in Nat /\ faults \in Nat
    /\ cfg \in Configs
    /\ listing \in [Libraries -> Seq(Songs)]
    /\ mtime \in [Songs -> Nat] /\ created \in [Songs -> Nat]
    /\ content \in [Songs -> Contents]
    /\ scan \in [Libraries -> Nat]
    /\ rating \in [Users -> [Songs -> Stars]]
    /\ excused \in [Users -> [Songs -> BOOLEAN]]
    /\ last \in [Libraries -> [Users -> LastSynced \union {None}]]
    /\ record \in SweepRecord \union {None}
    /\ pending \in SUBSET SyncCursor
    /\ pc \in {"idle", "start", "pair", "page", "fetch", "song", "rate", "finish",
               "handover", "prune"}
    /\ cur \in SyncCursor
    /\ run \in Configs \union {None}
    /\ threshold \in Nat /\ page \in Seq(Row) /\ more \in BOOLEAN
    /\ decided \in Stars \union {None}
    /\ seen \in [Libraries -> Nat \union {None}]
    /\ crash \in Crash \union {None}

\* What the settings st ask for a file that reads as r is what Navidrome has.
Agrees(st, r, stars) ==
    \/ st.skip /\ stars > 0
    \/ r.result = "FileUnreadable"
    \/ r.result = "TagNotWholeStar"
    \/ r.result = "TagAbsent" /\ (st.clear => stars = 0)
    \/ r.result = "TagFound" /\ stars = r.stars

\* The song agrees with its file; or somebody rated it by hand since the file
\* was saved; or the plugin failed on it, logged that and passed on, its file
\* being older than the start of the pair.
Settled(user, s, st) ==
    excused[user][s] \/ Agrees(st, content[s][st.order], rating[user][s])

\* s needs no look from pair p, or a sweep with threshold t looks at it.
Accounted(p, t, s) ==
    Settled(p.user, s, p.settings) \/ mtime[s] >= t \/ created[s] >= t

(* A saved threshold hides no work: every song of the library that an      *)
(* incremental sweep would now pass over has the rating its file asks for. *)
(* (sync.go:134-153, song.go:42-59; FEATURES.md: an interrupted or         *)
(* continued sweep never advances the threshold past unprocessed songs.)   *)
ThresholdSound ==
    \A l \in Libraries : \A u \in Users :
        last[l][u] # None =>
            \A i \in 1..Len(listing[l]) :
                Accounted([lib |-> l, user |-> u,
                           settings |-> last[l][u].fingerprint],
                          last[l][u].stamp, listing[l][i])

Positions ==
    pending
    \union (IF pc = "idle" THEN {} ELSE {cur})
    \union (IF record = None THEN {}
            ELSE IF record.cursor = None THEN {} ELSE {record.cursor})

CoveredBy(c) ==
    c.pair # None =>
        \A i \in 1..Len(listing[c.pair.lib]) :
            i <= c.offset =>
                Accounted(c.pair, c.pairStart, listing[c.pair.lib][i])

(* Wherever a sweep may resume - the callback, a queued continuation, the  *)
(* sweep record after a crash or a reload - the songs before the position  *)
(* are done, or the threshold the pair will save does not hide them.       *)
(* (types.go:47-63, kv_store.go:136-197; a dry run writes nothing and      *)
(* saves no threshold.)                                                    *)
PositionSound == ~cfg.dryRun => \A c \in Positions : CoveredBy(c)

(* The gate only saves work: a pair it closes has no song left that the    *)
(* scan it asked about could have seen.  (sync.go:102-115, library.go:84.) *)
GateSound ==
    SelectedPair /\ userConfig.name # None /\ Gated =>
        LET l == libraryConfig.id IN
        \A i \in 1..Len(listing[l]) :
            LET s == listing[l][i] IN
            \/ Settled(userConfig.name, s, userConfig.settings)
            \/ mtime[s] > Scanned(l)
            \/ created[s] > Scanned(l)

(* The record keeps the cron from starting a sweep while a continuation    *)
(* waits: a callback at work is the only chain.  (types.go:229-235.)       *)
OneSweep == pc \notin {"idle", "prune"} => pending = {}

(* After a crash, the song whose file was being read is read again only    *)
(* with its name in the log first, unless imports in front of it have      *)
(* moved it out of the page it was in.                                     *)
(* (types.go:221-228,250, sync.go:231-240.)                                *)
HuntNamesCulprit ==
    /\ pc = "song" /\ crash # None /\ cur.pair = crash.pair
    /\ Head(page).song = crash.song
    /\ \E i \in 1..Len(listing[cur.pair.lib]) :
          i <= PageEnd(crash.index) /\ listing[cur.pair.lib][i] = crash.song
    => cur.offset < cur.logReadsUntil

(* Only a crash of the unfinished sweep starts the hunt for a file: not a  *)
(* reload, a refused continuation or a completed sweep.                    *)
(* (types.go:215-228, kv_store.go:183-187.)                                *)
NoFalseAlarm ==
    pc # "prune" =>
        \A c \in pending \union {cur} : c.logReadsUntil > 0 => crash # None

\* The tag orders in which the file of s is read for u.
OrdersOf(u, s) == {HomeOrder[l][u] : l \in {m \in Libraries : Contains(m, s)}}

\* The settings that ask a song another rating.
Due ==
    [u \in Users |-> [s \in Songs |->
        {st \in [order: OrdersOf(u, s), skip: BOOLEAN, clear: BOOLEAN] :
            ~Settled(u, s, st)}]]

\* Would a sweep with the saved threshold e of library l pass over s?
PassedOver(l, e, s) ==
    /\ Contains(l, s)
    /\ mtime[s] < e.stamp
    /\ created[s] < e.stamp

Trusted ==
    [l \in Libraries |-> [u \in Users |-> [s \in Songs |->
        IF last[l][u] # None /\ PassedOver(l, last[l][u], s)
        THEN {last[l][u].fingerprint} ELSE {}]]]

\* The rating about to be written is not what the file holds by now.
Overtaken == pc = "rate" /\ decided # verdict

Late == IF Overtaken THEN {<<cur.pair.user, Head(page).song>>} ELSE {}

Files == [content: Contents, listed: BOOLEAN]
FileOf == [s \in Songs |-> [content |-> content[s], listed |-> Listed(s)]]

Ledger == INSTANCE RatingLedger
              WITH files <- FileOf, due <- Due, trusted <- Trusted,
                   late <- Late

(* Sweeps cut into callbacks, with pages read earlier, crashes, retries    *)
(* and edits in between, keep a plain ledger: a pair comes to trust only   *)
(* songs that are not due, a saved file is trusted by no pair, and a step  *)
(* of the plugin makes a song due only by writing a reading that a save of *)
(* its file has overtaken - and such a song no pair trusts.                *)
(* (sync.go:134-153, song.go:42-124, kv_store.go:20-75.)                   *)
KeepsLedger == Ledger!Spec

-----------------------------------------------------------------------------
(* Fairness: Navidrome runs queued and scheduled callbacks, a callback     *)
(* either advances or is killed, the cron keeps firing, libraries are      *)
(* scanned again, and two minutes pass.                                    *)
Fairness ==
    /\ WF_vars(CallbackStep) /\ WF_vars(Continue) /\ WF_vars(Trigger)
    /\ WF_vars(Expire)
    /\ \A l \in Libraries : WF_vars(Rescan(l))

FairSpec == Spec /\ Fairness

(* A chain of continuations always terminates, even when the listing of a  *)
(* user always fails.  (sync.go:32-35, types.go:101-106.)                  *)
SweepEnds == (pc # "idle" \/ pending # {}) ~> (pc = "idle" /\ pending = {})

(* Once files, settings and the host hold still, every song of a           *)
(* configured user ends with the rating its file asks for.                 *)
RatingsArrive ==
    <>[](~cfg.dryRun =>
           \A i \in 1..Len(cfg.libraries) :
           \A j \in 1..Len(cfg.libraries[i].users) :
              LET l == cfg.libraries[i].id
                  u == cfg.libraries[i].users[j] IN
              u.name \in Users \ LostUsers =>
                 \A k \in 1..Len(listing[l]) :
                    Settled(u.name, listing[l][k], u.settings))

-----------------------------------------------------------------------------
(* What Spec leaves out, one specification each *)

\* A song leaves the listing; those behind it move up.
RemoveSong(l, p) ==
    /\ Change
    /\ listing' = [listing EXCEPT ![l] =
           [i \in 1..(Len(@) - 1) |-> IF i < p THEN @[i] ELSE @[i + 1]]]
    /\ scan' = [scan EXCEPT ![l] = now]
    /\ UNCHANGED <<now, cfg, mtime, created, content, rating, excused,
                   pluginVars>>

SpecRemovals ==
    Init /\ [][\/ Next
               \/ \E l \in Libraries : \E p \in 1..Len(listing[l]) :
                     RemoveSong(l, p)]_vars

\* Any configuration may be saved at any time.
SpecAnyConfig == Init /\ [][Next \/ \E c \in Configs : ChangeConfig(c)]_vars

=============================================================================
