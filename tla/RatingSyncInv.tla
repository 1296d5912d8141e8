---------------------------- MODULE RatingSyncInv ----------------------------
(***************************************************************************)
(* The inductive invariant behind ThresholdSound and PositionSound of      *)
(* RatingSync.  ThresholdSound alone is not inductive: whether a finished  *)
(* pair may save its start as the threshold depends on what the position,  *)
(* the page in hand and the loaded threshold stand for.                    *)
(***************************************************************************)
EXTENDS RatingSync

AtSong == pc \in {"song", "rate"}

InPair == AtSong \/ pc \in {"page", "fetch", "finish"}

\* A running callback has its configuration, and a pair while it is in one.
CallbackOK ==
    /\ pc # "idle" => run \in Configs
    /\ InPair => cur.pair \in Pairs /\ cur.pairStart # 0
    /\ AtSong => page # <<>>
    /\ pc = "rate" => decided # None /\ ~run.dryRun

\* Dry run is switched only between sweeps.
DryRunKept == pc # "idle" => run.dryRun = cfg.dryRun

\* All that was ever saved for a pair was read in the pair's tag order.
InHomeOrder(pair) == pair.settings.order = HomeOrder[pair.lib][pair.user]

HomeOrderKept ==
    /\ Steady(cfg)
    /\ pc # "idle" => Steady(run)
    /\ \A c \in Positions : c.pair # None => InHomeOrder(c.pair)
    /\ \A l \in Libraries : \A u \in Users :
           last[l][u] # None => last[l][u].fingerprint.order = HomeOrder[l][u]

\* Starts and thresholds lie in the past; an offset has a start.
StampsPast ==
    /\ \A c \in Positions :
           c.pairStart <= now /\ (c.pairStart = 0 => c.offset = 0)
    /\ \A l \in Libraries : \A u \in Users :
           last[l][u] # None => last[l][u].stamp <= now

ListedOnce ==
    \A l, m \in Libraries :
        \A i \in 1..Len(listing[l]) : \A j \in 1..Len(listing[m]) :
            listing[l][i] = listing[m][j] => l = m /\ i = j

\* A threshold in use is the saved one, for the settings of the pair.
ThresholdLoaded ==
    InPair /\ threshold # 0 =>
        /\ last[cur.pair.lib][cur.pair.user] # None
        /\ last[cur.pair.lib][cur.pair.user] =
               [stamp |-> threshold, fingerprint |-> cur.pair.settings]

\* The rating in a row is the one Navidrome has, unless somebody rated the
\* song by hand, or saved its file since, or the plugin failed on it.
RowsCurrent ==
    AtSong =>
        \A k \in 1..Len(page) :
            \/ page[k].userRating = rating[cur.pair.user][page[k].song]
            \/ excused[cur.pair.user][page[k].song]
            \/ mtime[page[k].song] >= cur.pairStart

RowsDistinct ==
    AtSong =>
        \A j, k \in 1..Len(page) : page[j].song = page[k].song => j = k

pairListing == listing[cur.pair.lib]

\* An import moves a song of the page back in the listing, never forth.
RowsListed ==
    AtSong =>
        \A k \in 1..Len(page) : \E i \in 1..Len(pairListing) :
            cur.offset + k <= i /\ pairListing[i] = page[k].song

\* What lies behind the position is in the page, or accounted for; behind
\* the last page nothing is left.
RowsComplete ==
    AtSong /\ ~run.dryRun =>
        \A i \in 1..Len(pairListing) :
            i > cur.offset /\ (i <= cur.offset + Len(page) \/ ~more) =>
                \/ Accounted(cur.pair, cur.pairStart, pairListing[i])
                \/ \E j \in 1..Len(page) :
                      cur.offset + j <= i /\ page[j].song = pairListing[i]

\* A reading that a save has overtaken is of a file that no threshold, saved
\* or to be saved, hides.
OvertakenIsNew ==
    Overtaken =>
        LET s == Head(page).song IN
        /\ \A c \in Positions : c.pairStart <= mtime[s]
        /\ \A l \in Libraries : \A u \in Users :
               last[l][u] # None => last[l][u].stamp <= mtime[s]

FinishedPair ==
    pc = "finish" /\ ~run.dryRun =>
        \A i \in 1..Len(pairListing) :
            Accounted(cur.pair, cur.pairStart, pairListing[i])

IInv ==
    /\ TypeOK /\ CallbackOK
    /\ DryRunKept /\ HomeOrderKept /\ StampsPast /\ ListedOnce
    /\ ThresholdLoaded /\ RowsCurrent /\ RowsDistinct /\ RowsListed
    /\ RowsComplete /\ OvertakenIsNew /\ FinishedPair
    /\ ThresholdSound /\ PositionSound

=============================================================================
