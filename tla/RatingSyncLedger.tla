-------------------------- MODULE RatingSyncLedger --------------------------
(***************************************************************************)
(* The proof that the sweep implements RatingLedger: whatever a callback,  *)
(* a crash, the environment or the administrator does is one ledger entry  *)
(* or none, for every value of the constants.                              *)
(***************************************************************************)
EXTENDS RatingSyncSafety

\* One cell of Due and of Trusted.
DueOf(u, s) ==
    {st \in [order: OrdersOf(u, s), skip: BOOLEAN, clear: BOOLEAN] :
        ~Settled(u, s, st)}

TrustedBy(l, u, s) ==
    IF last[l][u] # None /\ PassedOver(l, last[l][u], s)
    THEN {last[l][u].fingerprint} ELSE {}

LEMMA Cells ==
    /\ Due = [u \in Users |-> [s \in Songs |-> DueOf(u, s)]]
    /\ Trusted = [l \in Libraries |-> [u \in Users |->
                     [s \in Songs |-> TrustedBy(l, u, s)]]]
BY DEF Due, DueOf, Trusted, TrustedBy

LEMMA CellsNext ==
    /\ Due' = [u \in Users |-> [s \in Songs |-> DueOf(u, s)']]
    /\ Trusted' = [l \in Libraries |-> [u \in Users |->
                      [s \in Songs |-> TrustedBy(l, u, s)']]]
BY DEF Due, DueOf, Trusted, TrustedBy

LEMMA OrdersType ==
    ASSUME NEW u \in Users, NEW s \in Songs
    PROVE  OrdersOf(u, s) \subseteq Orders /\ OrdersOf(u, s)' \subseteq Orders
BY ConfigAssumption DEF OrdersOf

LedgerStep == [Ledger!Next]_(Ledger!ledgerVars)

-----------------------------------------------------------------------------
(* Steps that leave a side of the ledger alone *)

LEMMA DueStays ==
    ASSUME UNCHANGED <<content, listing, rating, excused>>
    PROVE  Due' = Due
BY DEF Due, Settled, OrdersOf, Contains

LEMMA TrustStays ==
    ASSUME UNCHANGED <<last, listing, mtime, created>>
    PROVE  Trusted' = Trusted
BY DEF Trusted, PassedOver, Contains

LEMMA FilesStay ==
    ASSUME UNCHANGED <<content, listing>>
    PROVE  FileOf' = FileOf
BY DEF FileOf, Listed, Contains

\* Nothing that a pair trusts is due: ThresholdSound, cell by cell.
NoneHidden ==
    \A l \in Libraries, u \in Users, s \in Songs :
        TrustedBy(l, u, s) \cap DueOf(u, s) = {}

LEMMA TrustedNotDue == IInv => NoneHidden
<1> SUFFICES ASSUME IInv, NEW l \in Libraries, NEW u \in Users, NEW s \in Songs,
                    NEW st, last[l][u] # None,
                    st = last[l][u].fingerprint,
                    PassedOver(l, last[l][u], s)
             PROVE  Settled(u, s, st)
  BY DEF NoneHidden, TrustedBy, DueOf
<1>1. PICK i \in 1..Len(listing[l]) : listing[l][i] = s
  BY DEF PassedOver, Contains
<1>2. Accounted([lib |-> l, user |-> u, settings |-> st],
                last[l][u].stamp, s)
  BY <1>1 DEF IInv, ThresholdSound
<1>3. /\ mtime[s] \in Nat /\ created[s] \in Nat
      /\ last[l][u].stamp \in Nat
  BY DEF IInv, TypeOK, LastSynced
<1> QED
  BY <1>2, <1>3 DEF Accounted, PassedOver

-----------------------------------------------------------------------------
(* Ratings on their way *)

\* At most one rating is late: that of the song in hand.
LEMMA OneLate ==
    ASSUME IInv
    PROVE  \/ Late = {}
           \/ /\ Overtaken /\ cur.pair.user \in Users /\ Head(page).song \in Songs
              /\ Late = {<<cur.pair.user, Head(page).song>>}
BY InHand DEF Late, Overtaken, AtSong

\* No step of the plugin makes one late.
LEMMA PluginLate == ASSUME IInv, Plugin PROVE Late' \subseteq Late
<1>1. CASE ~Overtaken'
  BY <1>1 DEF Late
<1>2. CASE Overtaken'
  <2>1. pc' = "rate"
    BY <1>2 DEF Overtaken
  <2>2. ~SongRead
    <3>1. SongRead => verdict' = verdict /\ decided' = verdict
      BY DEF SongRead, pairRest, envVars, verdict, Decision, Skipped, Unchanged
    <3> QED
      BY <1>2, <3>1 DEF Overtaken
  <2>3. ~FetchPage /\ ~SongDone
    BY <2>1, SongDoneStep DEF FetchPage, AfterSong
  <2>4. UNCHANGED <<envVars, callbackVars>>
    BY <2>1, <2>2, <2>3, SongSteps
  <2> QED
    BY <2>4 DEF Late, Overtaken, verdict, Decision, Skipped, Unchanged, envVars,
                callbackVars
<1> QED
  BY <1>1, <1>2

\* Of the others only a save of the song does.
LEMMA AroundLate ==
    ASSUME IInv, Around
    PROVE  \/ Late' \subseteq Late
           \/ \E u \in Users, s \in Songs :
                 /\ Late' = {<<u, s>>}
                 /\ ~(content'[s] = content[s] /\ mtime'[s] = mtime[s])
<1>1. UNCHANGED <<pc, cur, page>>
  BY AroundLeaves DEF pluginVars, callbackVars
<1>2. CASE ~Overtaken'
  BY <1>2 DEF Late
<1>3. CASE Overtaken'
  <2>1. /\ cur.pair.user \in Users /\ Head(page).song \in Songs
        /\ Late' = {<<cur.pair.user, Head(page).song>>}
    BY <1>1, <1>3, InHand DEF Late, Overtaken, AtSong
  <2>2. CASE Overtaken
    BY <1>1, <2>1, <2>2 DEF Late
  <2>3. CASE ~Overtaken
    <3> DEFINE s == Head(page).song
    <3>1. ~(content'[s] = content[s] /\ mtime'[s] = mtime[s])
      BY <1>3, <2>3, OvertakenBefore
    <3> QED
      BY <2>1, <3>1
  <2> QED
    BY <2>2, <2>3
<1> QED
  BY <1>2, <1>3

-----------------------------------------------------------------------------
(* A song is settled *)

LEMMA OneCell ==
    ASSUME NEW u \in Users, NEW s \in Songs,
           \A v \in Users, r \in Songs :
              (v = u /\ r = s) \/ DueOf(v, r)' = DueOf(v, r)
    PROVE  /\ Due' = [Due EXCEPT ![u][s] = Due'[u][s]]
           /\ Due'[u][s] = DueOf(u, s)' /\ Due[u][s] = DueOf(u, s)
<1>1. Due'[u][s] = DueOf(u, s)' /\ Due[u][s] = DueOf(u, s)
  BY Cells, CellsNext
<1> DEFINE New == DueOf(u, s)'
<1>2. Due'[u] = [Due[u] EXCEPT ![s] = New]
  <2>1. Due[u] = [r \in Songs |-> DueOf(u, r)]
    BY Cells
  <2>2. Due'[u] = [r \in Songs |-> DueOf(u, r)']
    BY CellsNext
  <2>3. [Due[u] EXCEPT ![s] = New] =
           [r \in Songs |-> IF r = s THEN New ELSE DueOf(u, r)]
    BY <2>1
  <2> QED
    BY <2>2, <2>3
<1>3. \A v \in Users : v # u => Due'[v] = Due[v]
  BY Cells, CellsNext
<1>4. /\ Due = [v \in Users |-> Due[v]]
      /\ Due' = [v \in Users |-> Due'[v]]
  BY DEF Due
<1> HIDE DEF New
<1>5. Due' = [Due EXCEPT ![u] = [Due[u] EXCEPT ![s] = New]]
  BY <1>2, <1>3, <1>4
<1> QED
  BY <1>1, <1>5 DEF New

\* Only one cell of Due changes, and it loses settings.
LEMMA OneSettled ==
    ASSUME NEW u \in Users, NEW s \in Songs,
           \A v \in Users, r \in Songs :
              (v = u /\ r = s) \/ DueOf(v, r)' = DueOf(v, r),
           DueOf(u, s)' \subseteq DueOf(u, s),
           Trusted' = Trusted, FileOf' = FileOf, Late' \subseteq Late
    PROVE  LedgerStep
<1>1. /\ Due' = [Due EXCEPT ![u][s] = Due'[u][s]]
      /\ Due'[u][s] \subseteq Due[u][s]
  BY OneCell
<1>2. Ledger!Settle(u, s)
  BY <1>1 DEF Ledger!Settle
<1> QED
  BY <1>2 DEF LedgerStep, Ledger!Next

\* Nothing changes, but a late rating may be lost.
LEMMA QuietStep ==
    ASSUME IInv, Late' \subseteq Late,
           UNCHANGED <<last, listing, mtime, created, content, rating, excused>>
    PROVE  LedgerStep
<1>1. Due' = Due /\ Trusted' = Trusted /\ FileOf' = FileOf
  BY DueStays, TrustStays, FilesStay
<1>2. CASE Late' = Late
  BY <1>1, <1>2 DEF LedgerStep, Ledger!ledgerVars
<1>3. CASE Late' # Late
  <2>1. PICK u \in Users, s \in Songs : Late = {<<u, s>>}
    BY <1>3, OneLate
  <2>2. \A v \in Users, r \in Songs : DueOf(v, r)' = DueOf(v, r)
    BY DEF DueOf, Settled, OrdersOf, Contains
  <2> QED
    BY <1>1, <2>1, <2>2, OneSettled
<1> QED
  BY <1>2, <1>3

\* The settings that ask for the song in hand read it as its pair does.
LEMMA OwnOrder ==
    ASSUME IInv, AtSong,
           NEW o \in OrdersOf(cur.pair.user, Head(page).song)
    PROVE  o = cur.pair.settings.order
<1>1. PICK m \in Libraries : /\ Contains(m, Head(page).song)
                             /\ o = HomeOrder[m][cur.pair.user]
  BY DEF OrdersOf
<1>2. /\ cur.pair.lib \in Libraries /\ InHomeOrder(cur.pair)
      /\ Contains(cur.pair.lib, Head(page).song)
  BY InHand, HeadListed
<1>3. m = cur.pair.lib
  BY <1>1, <1>2 DEF Contains, IInv, ListedOnce
<1> QED
  BY <1>1, <1>2, <1>3 DEF InHomeOrder

\* Outside the cell of the song in hand, a song that is done with leaves the
\* ratings as they are.
LEMMA OtherCells ==
    ASSUME IInv, SongDone, NEW v \in Users, NEW r \in Songs,
           ~(v = cur.pair.user /\ r = Head(page).song)
    PROVE  DueOf(v, r)' = DueOf(v, r)
<1>1. /\ AtSong /\ UNCHANGED <<content, listing>> /\ TypeOK
  BY SongDoneStep DEF envVars, IInv
<1>2. cur.pair.user \in Users /\ Head(page).song \in Songs
  BY <1>1, InHand
<1>3. rating'[v][r] = rating[v][r] /\ excused'[v][r] = excused[v][r]
  <2>1. CASE Passed
    BY <2>1 DEF Passed
  <2>2. CASE Rated
    BY <1>1, <1>2, <2>2 DEF Rated, TypeOK
  <2>3. CASE SongLost
    <3> DEFINE u == cur.pair.user
               s == Head(page).song
               b == excused[u][s] \/ mtime[s] < cur.pairStart
    <3>1. rating' = rating /\ excused' = [excused EXCEPT ![u][s] = b]
      BY <1>1, <1>2, <2>3, LostExcuses
    <3> HIDE DEF b
    <3> QED
      BY <1>1, <1>2, <3>1 DEF TypeOK
  <2> QED
    BY <2>1, <2>2, <2>3 DEF SongDone
<1> QED
  BY <1>1, <1>3 DEF DueOf, Settled, OrdersOf, Contains

\* A rating that no save has overtaken, and a failure, settle the song.
LEMMA DoneSettles ==
    ASSUME IInv, SongDone, ~(Rated /\ Overtaken),
           NEW u, u = cur.pair.user, NEW s, s = Head(page).song
    PROVE  DueOf(u, s)' \subseteq DueOf(u, s)
<1>1. /\ AtSong /\ UNCHANGED <<content, listing>> /\ TypeOK
  BY SongDoneStep DEF envVars, IInv
<1>2. /\ u \in Users /\ s \in Songs
      /\ OrdersOf(u, s)' = OrdersOf(u, s)
  BY <1>1, InHand DEF OrdersOf, Contains
<1> SUFFICES ASSUME NEW st \in [order: OrdersOf(u, s), skip: BOOLEAN,
                                clear: BOOLEAN],
                    Settled(u, s, st)
             PROVE  Settled(u, s, st)'
  BY <1>2 DEF DueOf
<1>3. CASE Passed
  BY <1>1, <1>3 DEF Passed, Settled
<1>4. CASE SongLost
  <2> DEFINE b == excused[u][s] \/ mtime[s] < cur.pairStart
  <2>1. rating' = rating /\ excused' = [excused EXCEPT ![u][s] = b]
    BY <1>1, <1>2, <1>4, LostExcuses
  <2>2. excused'[u][s] = b
    BY <1>1, <1>2, <2>1 DEF TypeOK
  <2> QED
    BY <1>1, <2>1, <2>2 DEF Settled
<1>5. CASE Rated
  <2>1. decided = verdict /\ decided # None
    BY <1>5 DEF Rated, Overtaken, IInv, CallbackOK
  <2>2. /\ st.order = cur.pair.settings.order /\ st \in Settings
        /\ cur.pair.settings \in Settings /\ Head(page) \in Row
        /\ threshold \in Nat
    BY <1>1, <1>2, InHand, OwnOrder, OrdersType DEF Settings, TypeOK
  <2>3. Agrees(st, content[s][st.order], decided)
    BY <1>1, <2>1, <2>2, WriteAgrees DEF verdict
  <2>4. rating'[u][s] = decided
    BY <1>1, <1>2, <1>5 DEF Rated, TypeOK
  <2> QED
    BY <1>1, <2>3, <2>4 DEF Settled
<1> QED
  BY <1>3, <1>4, <1>5 DEF SongDone

\* No saved threshold hides a file that was saved while its rating was on
\* its way.
LEMMA LateUntrusted ==
    ASSUME IInv, Overtaken, NEW l \in Libraries, NEW u \in Users
    PROVE  TrustedBy(l, u, Head(page).song) = {}
<1>1. Head(page).song \in Songs /\ TypeOK
  BY InHand DEF Overtaken, AtSong, IInv
<1>2. last[l][u] # None => /\ last[l][u].stamp <= mtime[Head(page).song]
                           /\ last[l][u].stamp \in Nat
  BY <1>1 DEF IInv, OvertakenIsNew, TypeOK, LastSynced
<1>3. mtime[Head(page).song] \in Nat
  BY <1>1 DEF TypeOK
<1> QED
  BY <1>2, <1>3 DEF TrustedBy, PassedOver

LEMMA SongIsLedgerStep ==
    ASSUME IInv, Plugin, SongDone,
           NEW u, u = cur.pair.user, NEW s, s = Head(page).song
    PROVE  LedgerStep
<1>1. /\ AtSong /\ AfterSong /\ u \in Users /\ s \in Songs
      /\ UNCHANGED <<last, listing, mtime, created, content>>
  BY SongDoneStep, InHand DEF AfterSong, pairRest, envVars
<1>2. Trusted' = Trusted /\ FileOf' = FileOf /\ Late' \subseteq Late
  BY <1>1, TrustStays, FilesStay, PluginLate
<1>3. \A v \in Users, r \in Songs :
         (v = u /\ r = s) \/ DueOf(v, r)' = DueOf(v, r)
  BY OtherCells
<1>4. CASE ~(Rated /\ Overtaken)
  <2>1. DueOf(u, s)' \subseteq DueOf(u, s)
    BY <1>4, DoneSettles
  <2> QED
    BY <1>1, <1>2, <1>3, <2>1, OneSettled
<1>5. CASE Rated /\ Overtaken
  <2>1. Late = {<<u, s>>} /\ Late' = {}
    BY <1>1, <1>5 DEF Late, Overtaken, AfterSong
  <2>2. \A l \in Libraries : Trusted[l][u][s] = {}
    <3>1. \A l \in Libraries : TrustedBy(l, u, s) = {}
      BY <1>1, <1>5, LateUntrusted
    <3> QED
      BY <1>1, <3>1, Cells
  <2>3. Due' = [Due EXCEPT ![u][s] = Due'[u][s]] /\ Due'[u][s] = DueOf(u, s)'
    BY <1>1, <1>3, OneCell
  <2>4. DueOf(u, s)' \subseteq Settings
    BY <1>1, OrdersType DEF DueOf, Settings
  <2>5. Ledger!WriteLate(u, s)
    BY <1>2, <2>1, <2>2, <2>3, <2>4 DEF Ledger!WriteLate
  <2> QED
    BY <1>1, <2>5 DEF LedgerStep, Ledger!Next
<1> QED
  BY <1>4, <1>5

LEMMA HandRatingSettles ==
    ASSUME IInv, NEW u \in Users, NEW s \in Songs, UserRates(u, s)
    PROVE  LedgerStep
<1>1. TypeOK /\ Around /\ UNCHANGED <<last, listing, mtime, created, content>>
  BY DEF IInv, Around, Environment, UserRates, pluginVars
<1>2. ASSUME NEW v \in Users, NEW r \in Songs
      PROVE  IF v = u /\ r = s THEN excused'[v][r]
             ELSE /\ rating'[v][r] = rating[v][r]
                  /\ excused'[v][r] = excused[v][r]
  <2>1. PICK n \in HandRatings : rating' = [rating EXCEPT ![u][s] = n]
    BY DEF UserRates
  <2>2. excused' = [excused EXCEPT ![u][s] = TRUE]
    BY DEF UserRates
  <2>3. /\ rating \in [Users -> [Songs -> Stars]]
        /\ excused \in [Users -> [Songs -> BOOLEAN]]
    BY <1>1 DEF TypeOK
  <2>4. (v = u /\ r = s) \/ rating'[v][r] = rating[v][r]
    BY <2>1, <2>3
  <2>5. IF v = u /\ r = s THEN excused'[v][r]
        ELSE excused'[v][r] = excused[v][r]
    BY <2>2, <2>3
  <2> QED
    BY <2>4, <2>5
<1>3. \A v \in Users, r \in Songs :
         (v = u /\ r = s) \/ DueOf(v, r)' = DueOf(v, r)
  BY <1>1, <1>2 DEF DueOf, Settled, OrdersOf, Contains
<1>4. DueOf(u, s)' \subseteq DueOf(u, s)
  BY <1>2 DEF DueOf, Settled
<1>5. Trusted' = Trusted /\ FileOf' = FileOf /\ Late' \subseteq Late
  BY <1>1, TrustStays, FilesStay, AroundLate
<1> QED
  BY <1>3, <1>4, <1>5, OneSettled

-----------------------------------------------------------------------------
(* A file is saved, a song is imported *)

\* The song's file, its column of Due and its trust change, and those alone.
LEMMA OneSaved ==
    ASSUME NEW s \in Songs,
           FileOf'[s] # FileOf[s],
           \A r \in Songs : r # s => FileOf'[r] = FileOf[r],
           \A u \in Users, r \in Songs : r # s => DueOf(u, r)' = DueOf(u, r),
           \A l \in Libraries, u \in Users, r \in Songs :
              TrustedBy(l, u, r)' = IF r = s THEN {} ELSE TrustedBy(l, u, r),
           Late' \subseteq Late \union (Users \X {s})
    PROVE  LedgerStep
<1>1. FileOf' = [FileOf EXCEPT ![s] = FileOf'[s]] /\ FileOf' # FileOf
  <2>1. /\ FileOf = [r \in Songs |-> FileOf[r]]
        /\ FileOf' = [r \in Songs |-> FileOf'[r]]
    BY DEF FileOf
  <2> QED
    BY <2>1
<1>2. Due' = [u \in Users |-> [Due[u] EXCEPT ![s] = Due'[u][s]]]
  <2>1. ASSUME NEW u \in Users
        PROVE  Due'[u] = [Due[u] EXCEPT ![s] = Due'[u][s]]
    <3>1. Due[u] = [r \in Songs |-> DueOf(u, r)]
      BY Cells
    <3>2. /\ Due'[u] = [r \in Songs |-> DueOf(u, r)']
          /\ Due'[u][s] = DueOf(u, s)'
      BY CellsNext
    <3>3. [Due[u] EXCEPT ![s] = Due'[u][s]] =
             [r \in Songs |-> IF r = s THEN DueOf(u, s)' ELSE DueOf(u, r)]
      BY <3>1, <3>2
    <3>4. \A r \in Songs : r # s => DueOf(u, r)' = DueOf(u, r)
      OBVIOUS
    <3> QED
      BY <3>2, <3>3, <3>4
  <2>2. Due' = [u \in Users |-> Due'[u]]
    BY DEF Due
  <2> QED
    BY <2>1, <2>2
<1>3. \A u \in Users : Due'[u][s] \subseteq Settings
  BY CellsNext, OrdersType DEF DueOf, Settings
<1>4. Trusted' = [l \in Libraries |-> [u \in Users |->
                     [Trusted[l][u] EXCEPT ![s] = {}]]]
  <2>1. ASSUME NEW l \in Libraries, NEW u \in Users
        PROVE  [Trusted[l][u] EXCEPT ![s] = {}] =
                  [r \in Songs |-> TrustedBy(l, u, r)']
    <3>1. Trusted[l][u] = [r \in Songs |-> TrustedBy(l, u, r)]
      BY Cells
    <3>2. [Trusted[l][u] EXCEPT ![s] = {}] =
             [r \in Songs |-> IF r = s THEN {} ELSE TrustedBy(l, u, r)]
      BY <3>1
    <3>3. \A r \in Songs :
             TrustedBy(l, u, r)' = IF r = s THEN {} ELSE TrustedBy(l, u, r)
      OBVIOUS
    <3> QED
      BY <3>2, <3>3
  <2>2. ASSUME NEW l \in Libraries
        PROVE  [u \in Users |-> [Trusted[l][u] EXCEPT ![s] = {}]] =
                  [u \in Users |-> [r \in Songs |-> TrustedBy(l, u, r)']]
    BY <2>1
  <2>3. Trusted' = [l \in Libraries |-> [u \in Users |->
                       [r \in Songs |-> TrustedBy(l, u, r)']]]
    BY CellsNext
  <2> QED
    BY <2>2, <2>3
<1>5. Ledger!Save(s)
  BY <1>1, <1>2, <1>3, <1>4 DEF Ledger!Save
<1> QED
  BY <1>5 DEF LedgerStep, Ledger!Next

\* The saved file is as new as the clock, and so trusted by nobody.
LEMMA EditSaves ==
    ASSUME IInv, NEW s \in Songs, EditFile(s) PROVE LedgerStep
<1>1. /\ mtime \in [Songs -> Nat] /\ now \in Nat
      /\ content \in [Songs -> Contents]
      /\ excused \in [Users -> [Songs -> BOOLEAN]]
      /\ UNCHANGED <<now, last, listing, created, rating>>
      /\ mtime' = [mtime EXCEPT ![s] = now]
      /\ excused' = [u \in Users |-> [excused[u] EXCEPT ![s] = FALSE]]
      /\ Around
  BY DEF IInv, TypeOK, EditFile, pluginVars, Around, Environment
<1>2. /\ content'[s] # content[s]
      /\ \A r \in Songs : r # s =>
            /\ mtime'[r] = mtime[r] /\ content'[r] = content[r]
            /\ \A u \in Users : excused'[u][r] = excused[u][r]
  <2>1. PICK new \in Contents \ {content[s]} :
           content' = [content EXCEPT ![s] = new]
    BY DEF EditFile
  <2> QED
    BY <1>1, <2>1
<1>3. /\ FileOf'[s] # FileOf[s]
      /\ \A r \in Songs : r # s => FileOf'[r] = FileOf[r]
  <2>1. \A r \in Songs : Listed(r)' = Listed(r)
    BY <1>1 DEF Listed, Contains
  <2>2. \A r \in Songs :
           /\ FileOf[r] = [content |-> content[r], listed |-> Listed(r)]
           /\ FileOf'[r] = [content |-> content'[r], listed |-> Listed(r)']
    BY DEF FileOf
  <2>3. FileOf'[s].content # FileOf[s].content
    <3>1. FileOf[s] = [content |-> content[s], listed |-> Listed(s)]
      BY <2>2
    <3>2. FileOf'[s] = [content |-> content'[s], listed |-> Listed(s)']
      BY <2>2
    <3> QED
      BY <1>2, <3>1, <3>2
  <2>4. ASSUME NEW r \in Songs, r # s PROVE FileOf'[r] = FileOf[r]
    <3>1. content'[r] = content[r] /\ Listed(r)' = Listed(r)
      BY <1>2, <2>1, <2>4
    <3> QED
      BY <2>2, <3>1
  <2> QED
    BY <2>3, <2>4
<1>4. \A u \in Users, r \in Songs : r # s => DueOf(u, r)' = DueOf(u, r)
  BY <1>1, <1>2 DEF DueOf, Settled, OrdersOf, Contains
<1>5. ASSUME NEW l \in Libraries, NEW u \in Users, NEW r \in Songs
      PROVE  TrustedBy(l, u, r)' = IF r = s THEN {} ELSE TrustedBy(l, u, r)
  <2>1. CASE r = s
    <3>1. last[l][u] # None => /\ last[l][u].stamp \in Nat
                               /\ last[l][u].stamp <= now
      BY DEF IInv, TypeOK, LastSynced, StampsPast
    <3>2. mtime'[r] = now
      BY <1>1, <2>1
    <3>3. last[l][u] # None => ~PassedOver(l, last[l][u], r)'
      BY <1>1, <3>1, <3>2 DEF PassedOver
    <3> QED
      BY <1>1, <2>1, <3>3 DEF TrustedBy, PassedOver
  <2>2. CASE r # s
    <3>1. mtime'[r] = mtime[r]
      BY <1>2, <2>2
    <3> QED
      BY <1>1, <2>2, <3>1 DEF TrustedBy, PassedOver, Contains
  <2> QED
    BY <2>1, <2>2
<1>6. Late' \subseteq Late \union (Users \X {s})
  BY <1>1, <1>2, AroundLate
<1> QED
  BY <1>3, <1>4, <1>5, <1>6, OneSaved

\* Only the imported song is listed anew.
LEMMA OthersListed ==
    ASSUME IInv, NEW m \in Libraries, NEW s \in Songs, ImportSong(m, s),
           NEW l \in Libraries, NEW r \in Songs, r # s
    PROVE  Contains(l, r)' <=> Contains(l, r)
<1>1. ASSUME NEW i \in 1..Len(listing'[l]), listing'[l][i] = r
      PROVE  Contains(l, r)
  BY <1>1, ImportedRow DEF Contains
<1>2. ASSUME NEW i \in 1..Len(listing[l]), listing[l][i] = r
      PROVE  Contains(l, r)'
  <2>1. \E x \in 1..Len(listing'[l]) : listing'[l][x] = listing[l][i]
    BY ImportedIn
  <2> QED
    BY <1>2, <2>1 DEF Contains
<1> QED
  BY <1>1, <1>2 DEF Contains

\* An imported song is as new as the clock as well.
LEMMA ImportSaves ==
    ASSUME IInv, NEW m \in Libraries, NEW s \in Songs, ImportSong(m, s)
    PROVE  LedgerStep
<1>1. /\ UNCHANGED <<last, mtime, content, rating, excused>>
      /\ created' = [created EXCEPT ![s] = now] /\ now \in Nat
      /\ created \in [Songs -> Nat] /\ Around
  BY DEF ImportSong, pluginVars, IInv, TypeOK, Around, Environment
<1>2. /\ FileOf'[s] # FileOf[s]
      /\ \A r \in Songs : r # s => FileOf'[r] = FileOf[r]
  <2>1. \A r \in Songs :
           /\ FileOf[r] = [content |-> content[r], listed |-> Listed(r)]
           /\ FileOf'[r] = [content |-> content'[r], listed |-> Listed(r)']
    BY DEF FileOf
  <2>2. Listed(s) = FALSE /\ Listed(s)' = TRUE
    <3>1. Contains(m, s)'
      BY ImportedIn DEF Contains
    <3>2. Listed(s) \in BOOLEAN /\ Listed(s)' \in BOOLEAN
      BY DEF Listed
    <3>3. ~Listed(s) /\ Listed(s)'
      BY <3>1 DEF ImportSong, Listed
    <3> QED
      BY <3>2, <3>3
  <2>3. ASSUME NEW r \in Songs, r # s PROVE Listed(r)' <=> Listed(r)
    BY <2>3, OthersListed DEF Listed
  <2>4. FileOf'[s].listed # FileOf[s].listed
    <3>1. FileOf[s] = [content |-> content[s], listed |-> FALSE]
      BY <2>1, <2>2
    <3>2. FileOf'[s] = [content |-> content'[s], listed |-> TRUE]
      BY <2>1, <2>2
    <3> QED
      BY <3>1, <3>2
  <2>5. ASSUME NEW r \in Songs, r # s PROVE FileOf'[r] = FileOf[r]
    <3>1. Listed(r)' = Listed(r)
      BY <2>3, <2>5 DEF Listed
    <3> QED
      BY <1>1, <2>1, <3>1
  <2> QED
    BY <2>4, <2>5
<1>3. ASSUME NEW u \in Users, NEW r \in Songs, r # s
      PROVE  DueOf(u, r)' = DueOf(u, r)
  <2>1. OrdersOf(u, r)' = OrdersOf(u, r)
    BY <1>3, OthersListed DEF OrdersOf
  <2> QED
    BY <1>1, <2>1 DEF DueOf, Settled
<1>4. ASSUME NEW l \in Libraries, NEW u \in Users, NEW r \in Songs
      PROVE  TrustedBy(l, u, r)' = IF r = s THEN {} ELSE TrustedBy(l, u, r)
  <2>1. CASE r = s
    <3>1. last[l][u] # None => /\ last[l][u].stamp \in Nat
                               /\ last[l][u].stamp <= now
      BY DEF IInv, TypeOK, LastSynced, StampsPast
    <3>2. created'[r] = now
      BY <1>1, <2>1
    <3>3. last[l][u] # None => ~PassedOver(l, last[l][u], r)'
      BY <1>1, <3>1, <3>2 DEF PassedOver
    <3> QED
      BY <1>1, <2>1, <3>3 DEF TrustedBy, PassedOver
  <2>2. CASE r # s
    <3>1. created'[r] = created[r]
      BY <1>1, <2>2
    <3>2. Contains(l, r)' <=> Contains(l, r)
      BY <2>2, OthersListed
    <3> QED
      BY <1>1, <2>2, <3>1, <3>2 DEF TrustedBy, PassedOver
  <2> QED
    BY <2>1, <2>2
<1>5. Late' \subseteq Late \union (Users \X {s})
  BY <1>1, AroundLate
<1> QED
  BY <1>2, <1>3, <1>4, <1>5, OneSaved

-----------------------------------------------------------------------------
(* Thresholds are saved and dropped *)

LEMMA FinishTrusts ==
    ASSUME IInv, IInv', FinishPair,
           NEW l, l = cur.pair.lib, NEW u, u = cur.pair.user
    PROVE  LedgerStep
<1>1. /\ l \in Libraries /\ u \in Users
      /\ UNCHANGED <<listing, mtime, created, content, rating, excused>>
  BY DEF FinishPair, IInv, CallbackOK, InPair, Pairs, envVars
<1>2. \A k \in Libraries, v \in Users :
         k # l \/ v # u => last'[k][v] = last[k][v]
  <2>1. last \in [Libraries -> [Users -> LastSynced \union {None}]]
    BY DEF IInv, TypeOK
  <2>2. \/ last' = last
        \/ last' = [last EXCEPT ![l][u] = [stamp |-> SavedStamp,
                                          fingerprint |-> cur.pair.settings]]
    BY DEF FinishPair
  <2> QED
    BY <1>1, <2>1, <2>2
<1>3. Due' = Due /\ FileOf' = FileOf /\ Late' = Late
  BY <1>1, DueStays, FilesStay DEF FinishPair, Late, Overtaken
<1>4. ASSUME NEW k \in Libraries, NEW v \in Users, NEW s \in Songs,
             k # l \/ v # u
      PROVE  TrustedBy(k, v, s)' = TrustedBy(k, v, s)
  <2>1. last'[k][v] = last[k][v]
    BY <1>2, <1>4
  <2> QED
    BY <1>1, <2>1 DEF TrustedBy, PassedOver, Contains
<1>5. Trusted' = [Trusted EXCEPT ![l][u] = Trusted'[l][u]]
  <2>1. \A k \in Libraries, v \in Users :
           k # l \/ v # u => Trusted'[k][v] = Trusted[k][v]
    BY <1>4, Cells, CellsNext
  <2>2. /\ Trusted = [k \in Libraries |-> Trusted[k]]
        /\ Trusted' = [k \in Libraries |-> Trusted'[k]]
        /\ Trusted[l] = [v \in Users |-> Trusted[l][v]]
        /\ \A k \in Libraries :
              /\ Trusted[k] = [v \in Users |-> Trusted[k][v]]
              /\ Trusted'[k] = [v \in Users |-> Trusted'[k][v]]
    BY <1>1 DEF Trusted
  <2>3. Trusted'[l] = [Trusted[l] EXCEPT ![u] = Trusted'[l][u]]
    BY <1>1, <2>1, <2>2
  <2>4. \A k \in Libraries : k # l => Trusted'[k] = Trusted[k]
    BY <2>1, <2>2
  <2>5. Trusted' = [Trusted EXCEPT ![l] = [Trusted[l] EXCEPT ![u] = Trusted'[l][u]]]
    BY <2>2, <2>3, <2>4
  <2> QED
    BY <2>5
<1>6. \A s \in Songs : Trusted'[l][u][s] \subseteq Settings \ Due[u][s]
  <2> TAKE s \in Songs
  <2>1. TrustedBy(l, u, s)' \cap DueOf(u, s)' = {}
    <3>1. NoneHidden'
      BY TrustedNotDue, PTL
    <3> QED
      BY <1>1, <3>1 DEF NoneHidden
  <2>2. /\ Trusted'[l][u][s] = TrustedBy(l, u, s)'
        /\ Due[u][s] = DueOf(u, s)'
    BY <1>1, <1>3, CellsNext
  <2>3. TrustedBy(l, u, s)' \subseteq Settings
    <3>1. last'[l][u] # None => last'[l][u].fingerprint \in Settings
      <4>1. last' \in [Libraries -> [Users -> LastSynced \union {None}]]
        BY DEF IInv, TypeOK
      <4> QED
        BY <1>1, <4>1 DEF LastSynced
    <3> QED
      BY <3>1 DEF TrustedBy
  <2> QED
    BY <2>1, <2>2, <2>3
<1>7. Ledger!Trust(l, u)
  BY <1>3, <1>5, <1>6 DEF Ledger!Trust
<1> QED
  BY <1>1, <1>7 DEF LedgerStep, Ledger!Next

\* A rating on its way: it arrives, or the callback is killed, or waits.
LEMMA KilledOrWaits ==
    ASSUME IInv, Plugin, ~SongDone, pc = "rate"
    PROVE  last' = last
BY SongStep
   DEF Plugin, Trigger, Continue, StartSweep, StartSweepUnguarded,
       BeginCallback, NoLibraries, Crashes, Reload, Expire, SongRead,
       CallbackStep, ExhaustedLibrary, DeadlineBeforePair, SkipBlankUser,
       SkipDeniedPair, SkipUnscannedPair, SkipUnmountedPair, StartPair,
       StorePosition, FetchPage, PageFails, FinishPair, CompleteSweep,
       DeleteStaleThresholds, Reschedule, RescheduleRefused, Choosing,
       SelectedPair, SweepDone

\* Every other step of the plugin keeps a threshold or drops it.
LEMMA OthersForget ==
    ASSUME IInv, Plugin, ~FinishPair, ~SongDone PROVE LedgerStep
<1> DEFINE gone == {p \in Libraries \X Users : last'[p[1]][p[2]] = None}
<1>1. UNCHANGED <<listing, mtime, created, content>>
  BY PluginLeaves DEF envVars
<1>2. UNCHANGED <<rating, excused>>
  <2>1. [Next]_vars
    BY DEF Next
  <2>2. ~(\E s \in Songs : EditFile(s)) /\ ~(\E u \in Users, s \in Songs : UserRates(u, s))
        /\ ~(\E l \in Libraries, s \in Songs : ImportSong(l, s))
    <3>1. changes' = changes
      BY PluginLeaves DEF envVars
    <3>2. changes \in Nat
      BY DEF IInv, TypeOK
    <3> QED
      BY <3>1, <3>2 DEF EditFile, UserRates, ImportSong, Change
  <2> QED
    BY <2>1, <2>2, StepKinds DEF SongDone
<1>3. CASE pc = "rate"
  BY <1>1, <1>2, <1>3, KilledOrWaits, PluginLate, QuietStep
<1>8. ASSUME pc # "rate"
      PROVE  Due' = Due /\ FileOf' = FileOf /\ Late' = Late
  <2>1. Late = {} /\ Late' = {}
    BY <1>8, PluginLate DEF Late, Overtaken
  <2> QED
    BY <1>1, <1>2, <2>1, DueStays, FilesStay
<1>4. \A l \in Libraries, u \in Users :
         IF <<l, u>> \in gone THEN last'[l][u] = None
         ELSE last'[l][u] = last[l][u]
  BY SavedOrOld
<1> HIDE DEF gone
<1>5. ASSUME NEW l \in Libraries, NEW u \in Users, NEW s \in Songs
      PROVE  TrustedBy(l, u, s)' =
                IF <<l, u>> \in gone THEN {} ELSE TrustedBy(l, u, s)
  BY <1>1, <1>4 DEF TrustedBy, PassedOver, Contains
<1>6. Trusted' = [l \in Libraries |-> [u \in Users |->
                     IF <<l, u>> \in gone THEN [s \in Songs |-> {}]
                     ELSE Trusted[l][u]]]
  <2>1. ASSUME NEW l \in Libraries, NEW u \in Users
        PROVE  [s \in Songs |-> TrustedBy(l, u, s)'] =
                  IF <<l, u>> \in gone THEN [s \in Songs |-> {}]
                  ELSE Trusted[l][u]
    <3>1. Trusted[l][u] = [s \in Songs |-> TrustedBy(l, u, s)]
      BY Cells
    <3> QED
      BY <1>5, <3>1
  <2> QED
    BY <2>1, CellsNext
<1>7. gone \in SUBSET (Libraries \X Users)
  BY DEF gone
<1> QED
  BY <1>3, <1>6, <1>7, <1>8 DEF LedgerStep, Ledger!Next, Ledger!Forget

-----------------------------------------------------------------------------
LEMMA StepIsLedgerStep == IInv /\ IInv' /\ [Next]_vars => LedgerStep
<1> SUFFICES ASSUME IInv, IInv', [Next]_vars PROVE LedgerStep
  OBVIOUS
<1>1. CASE UNCHANGED vars
  <2>1. /\ UNCHANGED <<last, listing, mtime, created, content, rating, excused>>
        /\ Late' = Late
    BY <1>1 DEF vars, envVars, callbackVars, Late, Overtaken, verdict, Decision,
                Skipped, Unchanged
  <2> QED
    BY <2>1, QuietStep
<1>2. CASE Plugin
  BY <1>2, SongIsLedgerStep, FinishTrusts, OthersForget
<1>3. CASE Environment /\ ~Tick /\ ~\E l \in Libraries : Rescan(l)
  BY <1>3, EditSaves, HandRatingSettles, ImportSaves DEF Environment
<1>4. CASE \/ Tick \/ \E l \in Libraries : Rescan(l)
           \/ \E c \in Configs : SteadyChange(c)
  <2>1. UNCHANGED <<last, listing, mtime, created, content, rating, excused>>
    BY <1>4 DEF Tick, Rescan, SteadyChange, ChangeConfig, pluginVars
  <2>2. Late' \subseteq Late
    BY <1>4, <2>1, AroundLate DEF Around, Environment
  <2> QED
    BY <2>1, <2>2, QuietStep
<1> QED
  BY <1>1, <1>2, <1>3, <1>4 DEF Next

(* The sweep, cut into callbacks and disturbed at every point, keeps the   *)
(* ledger: a pair comes to trust only what is not due, and nobody trusts a *)
(* saved or imported file before it was swept again.  Reading a file and   *)
(* writing its rating are two steps: a step of the plugin makes a song due *)
(* only if the file was saved between the two, and then no pair trusts the *)
(* song, so that the next sweep reads it again.  (sync.go:134-153,         *)
(* song.go:42-124.)                                                        *)
THEOREM SweepKeepsLedger == Spec => KeepsLedger
<1>1. Init => Ledger!Init
  <2> SUFFICES ASSUME Init PROVE Ledger!Init
    OBVIOUS
  <2>1. Due \in [Users -> [Songs -> SUBSET Settings]]
    BY OrdersType DEF Due, Settings
  <2>2. \A l \in Libraries, u \in Users : last[l][u] = None
    BY DEF Init
  <2>3. Trusted = [l \in Libraries |-> [u \in Users |-> [s \in Songs |-> {}]]]
    BY <2>2 DEF Trusted
  <2>4. FileOf \in [Songs -> Files]
    <3>1. content \in [Songs -> Contents]
      BY DEF Init
    <3>2. \A s \in Songs : Listed(s) \in BOOLEAN
      BY DEF Listed
    <3> QED
      BY <3>1, <3>2 DEF FileOf, Files
  <2>5. Late = {}
    BY DEF Init, Late, Overtaken
  <2> QED
    BY <2>1, <2>3, <2>4, <2>5 DEF Ledger!Init
<1> QED
  BY <1>1, InitInv, StepInv, StepIsLedgerStep, PTL
     DEF Spec, KeepsLedger, Ledger!Spec, LedgerStep

=============================================================================
