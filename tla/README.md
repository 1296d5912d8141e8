# nd-rating-sync in TLA+

nd-rating-sync is a Navidrome plugin (Go, compiled to WebAssembly) that reads
the ratings stored in the tags of music files and writes them to the Navidrome
accounts of configured users. It never writes to files. This directory models
the part of it that is hard to test: the resumable, incremental sweep, the
guard against overlapping sweeps, the walks through eight container formats to
the tag of a file, and the rules that turn its rating fields into one reading.
TLC checks small instances; TLAPS proves the central invariants, and that the
sweep and the guard implement two abstract specifications, for every value of
the constants.

## 1. The system

| Part | Source | State | Operations |
|---|---|---|---|
| lifecycle and scheduling | `main.go` | none of its own; a cron and a run shortly after a load | `OnInit`, `registerSchedules`, `OnCallback` |
| sweep engine | `scanner/types.go`, `scanner/sync.go` | the cursor: library, user, offset, start and fingerprint of the pair, retry count, crash-hunt bound; the deadline of a callback | `RunSyncStep`, `runSyncStepUntil`, `startOrResumeSweep`, `runSyncChunk`, `processPairChunk`, `deleteStaleThresholds` |
| song decision | `scanner/song.go` | none | `processSong` |
| KV state | `adapter/kv_store` | one threshold per (library, user) with its fingerprint; the record of the sweep under way (heartbeat, cursor, interrupted) | load, save, delete, mark active, mark interrupted, clear |
| Navidrome client | `adapter/subsonic` | none | `FetchSongPage`, `SetRating` |
| library lookups and gate | `scanner/library.go` | a memo for one callback | `library`, `lastScan`, `mount`, `problem` |
| file location | `scanner/locate.go`, `scanner/library.go` | none | path of a song, batch lookup through the matcher |
| tag collector | `media/rating.go`, field walks of `media/id3.go`, `flac.go`, `m4a.go`, `wma.go`, `scanner/metadata.go` | found / invalid / unusable while a file is parsed | `set`, `decoded`, `fmps`, `own`, `pick`, the converters |
| container walkers | `media/exports.go` and one file per container | position in the file, end of the container, entries visited; in Ogg the lacing table, the segment and the page count | `extract*`, `readAtomHeader`, `readID3v2Tag`, `prepareID3v2`, `nextPage`, `advance`, `readFull`, `skip`, `oggSynth` |
| configuration | `config.go`, `manifest.json` | none | parse JSON, fill in defaults |
| logging, entry stubs | `logging`, `pdk*.go` | none | - |

How they interact. Navidrome calls the plugin: `OnInit` once per load,
`OnCallback` for the cron and for each queued continuation. A callback without
a payload starts or resumes a sweep unless the record in the KV store says that
one is active; a callback with a payload goes on at the cursor it carries. It
walks the (library, user) pairs, pages through a user's song listing by offset,
and stops at a deadline, after any song, by queueing itself with a cursor. The
heartbeat in the record is what keeps the cron from starting a second sweep;
the cursor in it is where a sweep resumes after a crash, a reload or a refused
continuation. A finished pair saves the time it was *started* as its threshold;
a later incremental sweep passes over files and songs older than that, and a
pair whose library was not scanned since is not paged through at all.

What is hard. Nothing in the plugin holds a lock: between any two steps files
are edited, songs imported, ratings given by hand, settings saved. A callback
may die anywhere. The position is an offset into a listing that others change.
Files are damaged, cut off, or still being copied while they are read.
A saved threshold is a promise about every song before it, and a wrong one is
silent: the song is never looked at again. PROJECT.json lists these hazards
line by line.

What makes each part correct:

- *sweep*: a threshold hides no work; a kept position is right wherever it is
  resumed; a chain ends; ratings arrive in the end; after a crash the culprit
  is named, and only after a crash;
- *gate*: it saves work and skips none;
- *guard*: one sweep at a time, and never blocked for good;
- *walkers*: a rating that is in the file is never missed without an error, a
  sound file is always read, and no walk takes audio for a header;
- *collector*: a file with a usable or broken rating is never taken for an
  untagged one; the order of fields in a file does not matter, the user's order
  of sources does; a player's own field outranks its fallback.

## 2. The modules

| Module | What it is |
|---|---|
| `RatingLedger` | abstract: ratings that are due, songs that are trusted |
| `RatingSync` | the sweep, one action per step of a callback, with its environment and properties; implements `RatingLedger` |
| `RatingSyncInv` | the inductive invariant `IInv` and its named parts |
| `MCRatingSync` | users, songs, file contents and configurations for TLC |
| `RatingSyncProofs` | type correctness of `RatingSync` |
| `RatingSyncSafety` | `IInv` is invariant; `ThresholdSound` and `PositionSound` follow |
| `RatingSyncLedger` | `Spec` implements `RatingLedger` |
| `RatingSyncGuard` | `GateSound`, `OneSweep`, `NoFalseAlarm` and `HuntNamesCulprit`, each from what it needs |
| `SweepLock` | abstract: a lock held over all callbacks of a sweep |
| `SweepChain` | the overlap guard in time: several chains side by side, the age of the heartbeat; implements `SweepLock` |
| `MCSweepChain` | three chains and their symmetry for TLC |
| `SweepChainProofs` | `ChainTypeOK` and `GuardInv` are invariant; `OneChain` and `ImplementsLock` follow |
| `TagRegions` | what the parsers find in an ID3v2 tag, an MP4 `udta` and a list of fields |
| `FileWalk` | from a file to a reading: the extractors of every format but Ogg, on files that may grow; extends `TagRegions` |
| `OggWalk` | the Ogg reader and the stream it rebuilds; extends `FileWalk` |
| `MCOggWalk` | files of every format for TLC |
| `FileWalkProofs` | `FileWalk` is well typed; `NeverMisread`, `OnEntries` and `SoundFilesAreRead` |
| `OggWalkProofs` | `OggTypeOK`; the same with Ogg among the formats; `OnComments`; the rebuilt stream read back |
| `RatingTags` | converters, collector, field walks and `pickRating` |
| `MCRatingTags` | orders of sources and field values for TLC |
| `RatingTagsProofs` | `TagInv` and `HeardInv` are invariant; `TagTypeOK`, `RatedNotCleared`, `OwnFieldWins` and `ReadByOrderOfSources` follow |

How they fit together: `OggWalk` (with `FileWalk` and `TagRegions`) finds the tag,
`RatingTags` reads it, and the reading is what `RatingSync` calls the `content` of
a file. `RatingSync` takes from `SweepChain` that a record does not expire
while a sweep is under way. Their state spaces are not multiplied: each module
rests on the property the one below it shows.

### RatingSync

`pc` is where the running callback is: `start`/`pair` in the loop of
`runSyncChunk`, `page` -> `fetch` -> `song` -> `rate` in the loop of
`processPairChunk`,
`finish` when the listing is exhausted, `handover` before it queues itself,
`prune` after the last pair, `idle` between callbacks. `cur` is the cursor, `run`
the configuration the callback parsed at its start, `threshold` what it loaded
for the pair, `page` the rows still to be processed, `more` whether the page was
full, `seen` the memo of library lookups, `decided` the rating `processSong` read
from the file and is about to write. `last`, `record` and `pending` are the
thresholds, the sweep record and the payloads of queued continuations.

- Every deadline check is a choice: a callback may hand over before any pair
  but its first and after any song, as `songs` and `time.Now` allow.
- `processSong` is two steps. `ReadSong` looks at the file (song.go:19-123),
  `RateSong` stores what was read (song.go:97, 124). Between them the file may be
  saved or the song rated by hand: the code then writes a reading that is no
  longer true, and so does the model (`Overtaken`).
- A file is `content`: for each tag order, the reading the media package
  returns. A file that is not there or cannot be read is `FileUnreadable`.
- `settings` stands for the fingerprint of a pair: order, skip and clear.
- A threshold or start of 0 is Go's zero time; the clock begins at 1.
- Callbacks do not overlap here; several chains may, because a trigger finds
  no usable record after a failed heartbeat. Overlap in time is `SweepChain`.
- `Expire` ages the heartbeat past `SweepStaleAfter` when no callback runs or
  waits, or when a refresh of the record failed since it was stored (`missed`).
  That a record which takes its heartbeats does not expire earlier is what
  `SweepChain` proves.
- `HomeOrder` is one tag order for each library and user, as `config.go` allows; a
  song is in one library, which lists it once (`ListingAssumption`).
- A song without a usable `created` value counts as one Navidrome has always had
  (song.go:139): Navidrome sends the value with every import. The clock does not
  run backwards, so the test for a heartbeat from the future (kv_store.go:147) has
  no counterpart, here and in `SweepChain`.
- Failures are `Fault(kind)`: `FaultKinds` says which may happen and `MaxFaults`
  how often. `LostUsers` are users whose listing fails every time.
- `excused` and `crash` are history variables: whether, since its file was
  saved, a song was last rated by hand or the plugin failed on it and logged
  that; and the last crash of the unfinished sweep, with the song being read.
  No action is guarded by them.
- File times have the resolution of the clock and an edit stamps the file with
  the present: a tool that keeps old file times defeats the incremental sweep by
  design, and a file system with whole seconds is not modelled.

`Spec` leaves three things out, because the property would fail, and section 5
says how: a song leaving the listing, a dry run switched on or off while a
position is kept, and a user's tag order being changed. The first two have a
specification of their own (`SpecRemovals`, `SpecAnyConfig`).

Its abstract specification is `RatingLedger`: the files, per user and song the
settings under which the file asks for another rating (`due`), per pair those
under which a sweep passes the song over (`trusted`, from the saved threshold),
and the ratings on their way whose file was saved since it was read (`late`).
A song that is due is never trusted; a file that is saved or imported is
trusted by nobody; and the plugin makes a song due only by writing a late
rating, to a song nobody trusts, so that the next sweep reads it again. Cursors,
pages, callbacks, failures and crashes are gone. `KeepsLedger` says that each
step of `Spec` is one entry or none.

### SweepChain

Each chain is a sweep under way with the clock of its call or of its wait.
Reading the record (`look`) and writing the heartbeat (`claim`, `resume`) are
separate steps, as in the code. The state holds ages and not dates, so time is
unbounded and the state space finite. The unit is 15 s: `CallLimit` and
`RetryDelay` 2, `Lag` 1, `SweepStaleAfter` 8. `TimingAssumption`, two call limits
plus the retry delay plus the lag below `SweepStaleAfter`, is what the comment
at types.go:106 relies on.

`Spec` has reliable heartbeats and triggers that are not handled at the same
instant; `FairWildSpec` drops both and lets the configuration be emptied at any
time. FEATURES.md:159 calls the guard best-effort, so a race of two triggers is
no divergence; what must hold even then is that sweeps go on.

`SweepLock` is the guard without record and time: at most one holder, which
works or waits, and the lock is taken only when free. `Holder` is the set of
chains under way and `Working` whether one of their calls runs.

### TagRegions, FileWalk, OggWalk

A file is what its writer made of it: entries (RIFF chunks, FLAC blocks, MP4
atoms, ASF objects, ID3v2 tags, Ogg pages) with offset, declared size and the
end of what they lie in, and a tag that holds whole stars, a half star or
nothing. `written` is how much of it is on disk: a file may be cut off anywhere
when it is opened, and `Grow` appends to it between any two reads, as a copy or
a download in progress does. Each action is one header the extractor reads,
with the checks and the seek or the read that follow; `reader` is the
extractor at work (a `.aac` file is handed to the MP3 or the MP4 one), `limit` the
end of the container it walks, `seen` the entries visited.

- Sizes are scaled down. A header is two units, so that a cut can fall inside
  it; `MaxEntries` and `MaxRead` stand for `maxContainerEntries` and
  `maxMetadataReadBytes`, `Lace` and `PageSegments` for 255.
- A read that follows another without a look at the size of the file between
  them is one step with it: the file only grows, so both see what the later
  one does.
- A wrong size that happens to fit names another header than the writer meant,
  and no reader can tell; `LayoutOK` leaves such files out (`Listed`, and
  `SideBySide`: where an entry that fits ends, the next one begins). Wrong sizes that do not fit are in.
- `Sound` names the files that must be read. `Intact` says what that takes of a
  file of every format but Ogg - nothing in the way of its tag is damaged, no
  limit is passed - and `OggIntact` of an Ogg file: its first two packets are
  complete, on pages that follow each other, and the second one holds the comments
  it declares. `SoundAssumption` and `SoundOggAssumption` say that the names were
  given rightly: TLC evaluates them for the files of `MCOggWalk`, the proofs use
  them for all.
- An Ogg layout lists comments, segments and pages with offsets that follow from
  what is in front of them (`Commented`, `Segmented`, `Paginated`): a comment knows
  where it begins in its packet and how much is kept in front of it, a segment
  where it lies in the file and in its packet. `OggLayoutOK` is evaluated like
  `LayoutOK`. No walk looks at these: it has the lacing tables, the sizes and
  the counts, as the code does.
- `OggWalk` follows the fields of the comment packet over segments and pages,
  seeks over large comments without looking whether the file is that long
  (the next read finds out), and puts what it kept through `OggSynth` and
  `ExtractOggPackets`. The extractors of the other formats also hand over a small
  file of their own; there the parser walks back what was just written, so the
  tag is passed on as it is.
- The ID3v2 library is external. `Library` says what it does with a tag it
  does not understand, taken from the comments of `prepareID3v2` and
  `id3v2TagReader`, which exist because of it; nothing under `src` confirms it. In
  particular a v2.4 frame whose size is not syncsafe counts as an error there; a
  library that stopped silently at it would read the file as untagged.
- `Blind` names what no care of the reader could know; section 5 has each case.

### RatingTags

A file has a format (ID3v2, Vorbis comments, MP4, ASF) and hands its fields to
the collector one at a time, in any order the format allows and with repeated
names, one action per field. `r` is the collector: stars found per source, and
the sets invalid and unusable. `rate` is the RATE atom that MP4 applies after
its walk, `phase` which pass the parser is in. Texts are numbers in thousandths,
or `NotANumber`; an empty text is 0. Spellings of the same number are one value.
`read` (the fields so far) and `own` (what MediaMonkey's own field said) are
history variables. Vorbis comments that repeat a name count once, as the code
keeps the first; of two RATE atoms the code keeps the last for MediaMonkey, so
`RatedBy` counts only that one for it. `SourceSays` is the reference for the
whole module: what each source hears from the values of a file's fields, with
no collector and no order in it, as the documents tell it: in an ID3v2 tag the
Windows Media Player frame speaks for foobar2000 when there is no `RATING` TXXX
frame (DETAILS.md:144). `FrameSpeaksUp` names the files in which the code lets it
speak all the same; `ReadByOrderOfSources` holds but for them, `ReadAsDocumented`
excepts nothing and does not hold (section 5). Both are stated for files in which
no name comes twice, because a repeated frame makes the order of the frames
matter in the code. `fmpsToStars` accepts a value exactly 0.05 stars off a whole
one, as the constant in the code says; its floating-point comparison refuses some
of these (0.21).
DSF, WAV and AAC files hand their tags to the same parsers.

## 3. What the runs check

| Run | Question | Bounds |
|---|---|---|
| `SweepChanges` | Does a threshold ever hide a changed file, is every kept position right, while files are saved, songs rated by hand, a song imported anywhere in the listing and five configurations saved at any moment? Checks `IInv` too | 2 songs, one of them imported, pages of 2, 2 changes, 3 clock values |
| `SweepFailures` | The same when calls of the KV store, pages, songs, continuations and callbacks fail; does the gate only save work; does every step keep the ledger (`KeepsLedger`), also when a file is saved between reading it and writing its rating? | 2 users, 1 song rated otherwise before, 3 clock values, 1 edit, one failure of eleven kinds |
| `SweepLive` | Does every chain end, and do ratings arrive, when one user's listing always fails? Is there one chain at a time, and does a crash, and nothing else, start the hunt for the file at fault? | 2 users, 2 songs on a page of 2, one edit or import, two failures among crashes, reloads, refusals and failed deletes |
| `ChainGuard` | Does a second sweep ever start while one works, waits or retries; is the record a lock (`ImplementsLock`)? | 3 chains, 3 failures, unbounded time |
| `ChainLive` | Does the guard ever block for good, with racing triggers and lost heartbeats? | 2 chains, 2 failures, unbounded time |
| `TagFields` | Is a file read by the order of sources and by nothing else, but for `FrameSpeaksUp`? Is a rated file ever read as untagged? | up to 3 fields, 10 orders of sources, every format |
| `FileWalks` | Is any file misread? Is every sound one read? Does a walk ever lose its place, or run on behind the last Ogg comment? | the files of `MCOggWalk`, each cut off at every offset and growing at any moment; 3 entries, tags of up to 4 units |
| `RemovedSong`, `DryRunSwitched`, `GateSeconds`, `WmpBesideRating`, `CutOffFile` | A sentence of the documentation that the code does not keep (section 5) | the smallest instance that shows it |

Why the bounds are enough. What can go wrong with a threshold needs a pair that
was finished once, a change, and a second sweep: two or three values of the
clock (before, at and after the start of the pair) and one or two changes. What can go
wrong with a position needs two songs with the hand-over between them; a page
of one makes every song a page boundary and a page of two puts the hand-over
inside a page. An import needs a song that is not listed yet. A second user is there for the
memo of library lookups, which only a second pair of the same callback reads,
and for a second configuration of pairs. What Navidrome holds before the first
sweep (`InitialRatings`) is 0, or 5 where a file that says 3 is to be late.
Retries stop at `MaxPairAttempts`: 3 as in the code, and 1 in `SweepFailures`, where
only one page can be lost. That run has a save of the file between any two steps,
so also between `ReadSong` and `RateSong`. The proofs of section
4 remove these bounds for the safety properties named there. The false alarm
and the hunt need two failures: one that ends a callback and one that loses
what it left behind. The files of `FileWalks` are, for every format, every place
the tag can have among the other entries, with odd and even bodies, leading
tags with and without footer, wide and open atoms, every style of `meta`;
each kind of damage once: a size too large, too small, below the header, an
entry beyond the limit, a tag beyond the cap, a field that does not fit, another
format under the extension; and for Ogg packets below, at and above a multiple
of `Lace`, with page breaks at any segment, empty pages, comments that are
dropped, passed over, one too many or cut short. 3 entries and 4 units are enough to
be at, below and past each limit.

Every property has a mutant in PROJECT.json: a small change of a definition, of
the kind a bug would make, under which the same run finds it violated.

Deadlock is checked everywhere but in the runs of `RatingTags` and `OggWalk`, where
reading a file ends. No liveness is stated of the walks: each ends because the
offset grows or a count is used up, and that is `OggTypeOK`'s bound on `seen`,
`index` and `pages`; a run of the temporal property over as many files would not
finish.

Fairness. `SweepLive`: Navidrome runs queued continuations and the cron keeps
firing (`main.go` registers both), a callback takes its next step unless it
crashes (Navidrome kills a call that does not return within 30 s, and the model
bounds crashes), two minutes pass, and libraries are scanned again. Nothing is
assumed about deadlines: the code checks the deadline after a song, never
before the first one of a page, so a callback always makes progress.
`ChainLive`: time passes, the cron fires, and a call that Navidrome runs gets on
or is ended at its limit. Weak fairness suffices for all of them.

## 4. What is proved

All proofs are checked by TLAPS from the assumptions named in the modules
(`ConfigAssumption`, `BoundAssumption`, `ListingAssumption`, `NoneAssumption`;
`TimingAssumption`, `AttemptsAssumption`, `NoneAssumption` of `SweepChain`;
`FileAssumption` and `SoundAssumption` of `FileWalk`; `OggAssumption` and
`SoundOggAssumption` of `OggWalk`;
those of `RatingTags`) and from nothing else: any number of libraries, users,
songs, configurations, failures and changes, any page size and any clock.

- `RatingSyncProofs!Typing`: `Spec => []TypeOK`.
- `RatingSyncSafety!Invariant`: `Spec => []IInv`, hence `NoWorkHidden`
  (`ThresholdSound`) and `ResumableAnywhere` (`PositionSound`). `ThresholdSound`
  is not inductive. That a finished pair may save its start needs
  `FinishedPair`; that needs `RowsComplete`, what the page in hand still owes
  the listing, which an import may shift under it; that a song is left alone
  rightly needs `ThresholdLoaded` (the threshold in use is the saved one) and
  `RowsCurrent` (the rating in a row is Navidrome's, unless the file or the
  rating changed since); that a position may be resumed by a callback with
  another configuration needs `PositionSound` for every cursor kept anywhere,
  `DryRunKept` and `HomeOrderKept`. A song is `Accounted` for when its rating is
  what the file asks for, or its file or import is not older than the start of
  the pair: the next sweep looks at it again. One case of the proof per action.
- `RatingSyncLedger!SweepKeepsLedger`: `Spec => KeepsLedger`, by the refinement mapping
  `due <- Due`, `trusted <- Trusted`. Lemmas reduce both to single cells
  (`DueOf`, `TrustedBy`); one step per action shows which entry it is. `IInv` is
  needed where the ledger says more than one action does: what `FinishPair` comes
  to trust is not due because `ThresholdSound` holds afterwards; what `RateSong`
  writes agrees with the file, if the file was not saved since `ReadSong`, because
  the pair keeps its tag order (`InHomeOrder`); if it was, no pair trusts the song,
  because its file is not older than any threshold, saved or to be saved
  (`OvertakenIsNew`); and a file saved or a song imported is trusted by nobody
  because no threshold lies ahead of the clock (`StampsPast`).
- `RatingSyncGuard!GateSkipsNothing`: under `TicksPerSecond = 1`, scan times as
  fine as the clock, `GateSound` follows from `ThresholdSound` in `IInv`. Run
  `GateSeconds` shows that the assumption cannot be dropped.
- `RatingSyncGuard!OnlyOneSweep` and `HuntsAfterCrashOnly`: under `Reliable` - the
  sweep record can be read, takes heartbeats and keeps positions, and some
  library is configured - while a chain runs or waits it is the only one and the
  record is active, and an uninterrupted record that is stale goes back to a crash.
  Crashes, reloads, refused continuations, lost pages and failed deletes remain.
- `RatingSyncGuard!CulpritIsNamed`: under `Reliable` and `PairsKeepPlace`,
  `HuntNamesCulprit`. The invariant is `HuntInv`, beside the one of `OnlyOneSweep`.
  Between a crash and the call that takes the sweep up again, the record is at the
  page whose file was being read (`RecordAt`). From there on each position of the
  chain either has the rest of that page below `logReadsUntil`, or is past the
  page, or has left its pair behind (`Tracked`). A song imported meanwhile may put
  another one at the place of the culprit and the culprit further back in the
  page, so the property follows the song and not its index: with `RowsListed` of
  `IInv`, wherever in its page the culprit now is, it is named. What imports have
  moved to a later page is read there unnamed (section 5). For this the record must be at the page in
  hand while songs are read (`PageMarked`), and each position at the place its
  pair has in the configuration (`InPlace`). `PairsKeepPlace` says that a pair is
  configured once and that no saved change moves it. Without it the statement is
  false: the cursor holds indices, and a pair that comes up again at a later place
  is started afresh there, with no bound to log up to.
- `SweepChainProofs!ChainTyping`, `HeartbeatYoung` and `NoOverlap`: `GuardInv` bounds
  the age of the heartbeat at each point of a chain - at work by the clock of the
  call, while queued by one call limit more, when resumed by the delay and the
  lag more - so by `TimingAssumption` a trigger finds it young. `GuardIsALock` is
  the refinement of `SweepLock` from the same invariant.
- `RatingTagsProofs!TagTyping`, `RatedNeverCleared` and `OwnFieldOutranks`: `TagInv`
  says what the collector has recorded of each field read so far (`Recorded`),
  and that no fallback has touched what MediaMonkey's own field said
  (`OwnField`), in each phase of each format.
- `RatingTagsProofs!RatingByOrderOfSources`: `HeardInv` ties the collector to the
  reference, source by source. What it holds of a source, after any fields in any
  order the format allows, is `SourceHeard` of the values read so far (`Hears`;
  `Kept` says how stars, invalid and unusable encode it), except that before the
  end of an MP4 walk RATE does not count for MediaMonkey. `HeardAsSaid`: that is
  `SourceSays`, but where the frame speaks up. A field
  with a new name changes one value, so each action is compared with the
  reference for the sources that value reaches and is a stutter for the others.
  `pickRating` then is the choice of the first source that answers.
- `FileWalkProofs!WalkTyping` and `CutOffNotCleared` (`NeverMisread`), for every file of
  every format but Ogg, of any size and however it grows. The invariant is
  `WalkInv`: as long as a walk goes on, the tag of a rated file still lies ahead
  of it - in its container, past every entry visited, and in WMA among those
  counted - unless the file was not whole and its end was taken from its size.
  So a walk that comes to an end has a file without a rating, and one that is
  handed a tag has the file's own.
- `FileWalkProofs!HeadersWhereRead` (`OnEntries`), for damaged and growing files too.
  The invariant `EntryInv` states the property at the container's bound instead
  of the bytes present, and that the limit of a `moov` is no further than the end
  its atoms believe in. That the entry after one passed over is where the
  offset comes to is `Listed` and `SideBySide`.
- `FileWalkProofs!IntactIsRead` (`SoundFilesAreRead`, every format but Ogg). For a sound
  file that is complete (`Good`), `SoundInv` says that it is not refused so far,
  that the entries visited are among those that begin before the offset (`Passed`), so
  that the count stays below `MaxEntries` by their cardinality, and that what
  each extractor insists on is still to come (`Ahead`): a further block in FLAC,
  the `moov` in MP4, an object for each one counted in WMA.
- `OggWalkProofs!OggTyping`, `AllFormatsNotMisread` and `AllFormatsOnEntries`, for
  the reader of all formats. `OggInv` adds to the invariants above that every
  rating among the comments dealt with is among those kept, and that whatever is
  kept is of the file (`KeptOK`). `NeverMisread` needs nothing of packets, segments
  and pages: if the lengths do not come out of the rebuilt stream again as they
  went in, the file is unreadable, and otherwise the parser sees what was kept.
- `OggWalkProofs!CommentsWhereRead` (`OnComments`). The state of the reader has no
  offset in the packet: it has `need`, what is left of the segment and of the
  lacing table. `PlaceInv` says that these are those of one place in the layout,
  after `n` segments, the last of them on page `p` (`Placement`): the table left is the
  rest of the page's (`PageInv`), the packet is the one the field belongs to
  (`SegmentInv`), and what is read of it and what is still needed add up to the
  end of the field (`FieldInv`). A length read behind the last comment would then end
  in a segment of the second packet, which has no room for it. `entries`
  is tied to `HeldUpTo` in the same invariant; the next theorem needs it.
- `OggWalkProofs!RoundTrip`: `ExtractOggPackets(OggSynth(<<a, b>>), 2) = <<a, b>>` for
  all lengths. `ratingFromOgg` reads the stream the extractor rebuilt with it, so
  a length that came out differently would make good files unreadable. The
  operators are folds and recursive functions; what they compute is shown by a
  least counterexample, from the well-foundedness of `<` on the numbers.
- `OggWalkProofs!AllFormatsAreRead` (`SoundFilesAreRead` for all formats).
  `OggSoundInv`: a sound Ogg file that is complete was not refused so far. In each
  action this takes the place of the reader from `PlaceInv`: the page wanted is
  there, as the one before ends where it begins (`PageFollows`); the pages turned are
  among those that begin before the last segment of the packet, so they are
  no more than `MaxPages`; a segment lies on the disk (`SegmentOnDisk`); no field
  runs past its packet (`FieldWithin`); what is kept stays within `MaxRead`; and the parser
  gets the lengths back (`RoundTrip`).

Only model-checked: the liveness properties, which are out of the prover's reach.
Every invariant and every safety action property that a run finds to hold is a
theorem.

## 5. Divergences

Shown by a run, each with the quotation in PROJECT.json:

- `RemovedSong`: a song that leaves the listing while a sweep pages through it
  moves the ones behind it up; one is passed over and the saved threshold hides
  it until its file changes again.
- `DryRunSwitched`: `dry_run` is not part of the fingerprint. A position reached in
  a dry run is carried into a real one, which saves the threshold of the pair's
  start although the first songs were only logged.
- `GateSeconds`: `LastScanAt` has whole seconds and the threshold nanoseconds; a
  scan later in the same second as the threshold looks older than it.
- `WmpBesideRating`: a TXXX `RATING` out of range does not keep the Windows Media
  Player frame from answering for foobar2000, because `r.has` asks only for stars
  that were found (id3.go:314). DETAILS.md:144 has the frame answer only when there
  is no such TXXX frame, and DETAILS.md:30-34 leaves such a song as it is. A
  `RATING` of 0 is passed over in the same way; whether the sentence means it is
  open.
- `CutOffFile`: the size in the RIFF header is never read, and the end of a WAV file
  is taken for the end of its chunks. A file that is cut off, or still being
  copied, at the end of a chunk reads as untagged.

Met while modelling and not shown by a run:

- A tag order that is changed and changed back before a sweep under the new one
  finished finds its old threshold valid (kv_store.go:75), although that
  unfinished sweep wrote ratings read in the other order; FEATURES.md:27
  promises a full pass after any change. `HomeOrder` keeps this out of `Spec`.
- A `setRating` or stat that fails is counted and logged and the cursor moves on
  (song.go:124), so the threshold hides the song; FEATURES.md:162 speaks of
  never advancing past unprocessed songs. `SongFails` is in `Spec`; `excused`
  excuses that song, and `ThresholdSound` shows that no other one suffers.
- What else `Blind` names. An Ogg comment behind the 10,000th is not read and
  the file may count as untagged (ogg.go:358). Whatever has no ID3v2 tag at
  its start and is called `.mp3` is untagged (exports.go:60). An MP4
  whose `moov` runs to the end of the file is walked to where the file ends now
  (m4a.go:207).
- An ASF header whose object count is too small for its objects is read as
  untagged when the tag is behind the last one counted (wma.go:224), although
  the header's size shows that more follows. `LayoutOK` leaves such files out.
  So it is with an Ogg comment packet whose count is too small (ogg.go:358, the
  rest of the packet is not looked at), which `OggLayoutOK` leaves out.
- `skip_already_rated` looks at a row up to one page old (song.go:21): a rating
  given by hand in between is overwritten. `excused` excuses such songs.
- A file saved between reading it (song.go:64) and writing its rating (song.go:124)
  gets the old reading stored, and a song that agreed with its file no longer
  does, until the next sweep: the ledger's late rating.
- The hunt after a crash ends with the page the crash was on (types.go:250). Songs
  imported in front of it since may have moved the culprit to a later page,
  where it is read again without being named, although the warning at the start of
  the hunt (types.go:251) says that the last file logged is the one at fault.
  `HuntNamesCulprit` excepts it.
- `asfExtContentDescObjectGUID` (wma.go:28) lists its bytes in the order of the
  text, while the header's GUID above it has the first three groups reversed, as
  files have them. A real object would then not match and its rating be missed;
  the unit tests share the constant. Layouts say `kind = "tag"` and do not see it.

## 6. Not modelled

- Byte decoding and text encodings; the cap of 0xFFFFFF bytes on the comments of
  Ogg FLAC, one byte below `maxMetadataReadBytes`; errors of Stat and Seek other
  than a short read, which all make a file unreadable.
- Configuration parsing and its defaults (`config.go`): one pure function from a
  JSON text to a record, with no state and no order of events. The sweep
  takes any resolved configuration and its properties hold for all of them; what
  a default is worth only a table could say, and the unit tests are that table.
- Path arithmetic of `locate.go` and ID parsing of `library.go`: pure functions of
  strings. What the sweep sees of them - a batch lookup that fails, a song
  without a file, a library without access - is in `RatingSync`.
- The JSON and URLs of the adapters.
- The purge of keys an older version wrote (`kv_store.go`): nothing reads them.
- Logging, counters and the entry stubs.

## 7. Plan

Done: the sweep and its invariant; the guard; the collector and its reference; the
ledger and the lock with their refinements; the container walks, Ogg with them;
the crash hunt; the theorems above.

What could follow:

1. File times of whole seconds (song.go:52) and a tag order changed and changed
   back (kv_store.go:75), both with a specification of their own like
   `SpecAnyConfig`, as the properties do not hold for them.
