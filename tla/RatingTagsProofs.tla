-------------------------- MODULE RatingTagsProofs --------------------------
(* Proofs about RatingTags for all orders of sources, values and fields. *)
EXTENDS RatingTags, TLAPS, FiniteSetTheorems, WellFoundedInduction

-----------------------------------------------------------------------------
(* The converters yield stars *)

LEMMA OneToFive == IsFiniteSet(1..5) /\ Cardinality(1..5) = 5
<1>1. 1 \in Int /\ 5 \in Int
  OBVIOUS
<1>2. /\ IsFiniteSet(1..5)
      /\ Cardinality(1..5) = IF 1 > 5 THEN 0 ELSE 5 - 1 + 1
  BY <1>1, FS_Interval, Zenon
<1> QED
  BY <1>2

LEMMA ReachedType ==
    ASSUME NEW b, NEW starts, DOMAIN starts = 1..5
    PROVE  Reached(b, starts) \in Stars
<1> DEFINE R == {n \in DOMAIN starts : b >= starts[n]}
<1>1. IsFiniteSet(1..5) /\ Cardinality(1..5) = 5
  BY OneToFive
<1>2. R \in SUBSET (1..5)
  OBVIOUS
<1>3. IsFiniteSet(R) /\ Cardinality(R) <= 5
  BY <1>1, <1>2, FS_Subset
<1>4. Cardinality(R) \in Nat
  BY <1>3, FS_CardinalityType
<1> QED
  BY <1>3, <1>4 DEF Reached, Stars

LEMMA ReachedSome ==
    ASSUME NEW b, NEW starts, DOMAIN starts = 1..5, b >= starts[1]
    PROVE  Reached(b, starts) > 0
<1> DEFINE R == {n \in DOMAIN starts : b >= starts[n]}
<1>1. IsFiniteSet(1..5)
  BY OneToFive
<1>2. R \in SUBSET (1..5) /\ R # {}
  OBVIOUS
<1>3. IsFiniteSet(R)
  BY <1>1, <1>2, FS_Subset
<1>4. Cardinality(R) \in Nat /\ Cardinality(R) # 0
  BY <1>2, <1>3, FS_CardinalityType, FS_EmptySet
<1> QED
  BY <1>4 DEF Reached

LEMMA WholeStarType ==
    ASSUME NEW b, NEW values, DOMAIN values = 1..5
    PROVE  WholeStar(b, values) \in Stars
BY DEF WholeStar, Stars

LEMMA ConverterTypes ==
    /\ \A b : popmWMPToStars(b) \in Stars
    /\ \A b : popmITunesToStars(b) \in Stars
    /\ \A b : popmMusicBeeToStars(b) \in Stars
    /\ \A b : popmMediaMonkeyToStars(b) \in Stars
    /\ \A v : sharedUserRatingToStars(v) \in Stars
    /\ \A v : ratingIntToStars(v) \in Stars
    /\ \A v : ratingMusicBeeToStars(v) \in Stars
    /\ \A v : ratingPercentToStars(v) \in Stars
<1>1. \A b : popmWMPToStars(b) \in Stars
  BY ReachedType DEF popmWMPToStars
<1>2. \A b : popmITunesToStars(b) \in Stars
  BY ReachedType DEF popmITunesToStars
<1>3. \A b : popmMusicBeeToStars(b) \in Stars
  BY WholeStarType DEF popmMusicBeeToStars
<1>4. \A b : popmMediaMonkeyToStars(b) \in Stars
  BY <1>3 DEF popmMediaMonkeyToStars, Stars
<1>5. \A v : sharedUserRatingToStars(v) \in Stars
  <2>1. \A v : Reached(v, <<1, 13, 38, 63, 88>>) \in Stars
    BY ReachedType
  <2> QED
    BY <2>1 DEF sharedUserRatingToStars, Stars
<1>6. \A v : ratingIntToStars(v) \in Stars
  BY DEF ratingIntToStars, Stars
<1>7. \A v : ratingMusicBeeToStars(v) \in Stars
  <2>1. \A n : WholeStar(n, <<20, 40, 60, 80, 100>>) \in Stars
    BY WholeStarType
  <2> QED
    BY <2>1 DEF ratingMusicBeeToStars, Stars
<1>8. \A v : ratingPercentToStars(v) \in Stars
  BY <1>2 DEF ratingPercentToStars
<1> QED
  BY <1>1, <1>2, <1>3, <1>4, <1>5, <1>6, <1>7, <1>8

LEMMA FmpsType ==
    ASSUME NEW v \in Text, ~BadFmps(v)
    PROVE  fmpsToStars(v) \in Stars
<1>1. v \in Int /\ v >= 0 /\ v <= 1000
  BY DEF Text, BadFmps, One
<1>2. (5 * v + 500) \div 1000 \in Stars
  BY <1>1 DEF Stars
<1>3. (One \div 2) = 500 /\ One = 1000
  BY DEF One
<1> QED
  BY <1>2, <1>3 DEF fmpsToStars, Stars

\* A player's byte that is not 0 always is some star.
LEMMA BytesRate ==
    ASSUME NEW b \in 0..255, b # 0
    PROVE  popmWMPToStars(b) > 0 /\ popmITunesToStars(b) > 0
BY ReachedSome DEF popmWMPToStars, popmITunesToStars

LEMMA PercentRates ==
    ASSUME NEW v \in Text, ~BadPercent(v), v # 0
    PROVE  ratingPercentToStars(v) > 0
<1>1. v \in Int /\ v > 0 /\ v % 1000 = 0
  BY DEF Text, BadPercent, Whole, One
<1>2. v \div 1000 >= 1
  BY <1>1
<1> QED
  BY <1>2, ReachedSome DEF ratingPercentToStars, popmITunesToStars, One

-----------------------------------------------------------------------------
(* The collector loses no source *)

\* Something is recorded for s.
Covers(c, s) == c.found[s] > 0 \/ s \in c.invalid \/ s \in c.unusable
Keeps(c, d) == \A s \in Sources : Covers(c, s) => Covers(d, s)

LEMMA SetFacts ==
    ASSUME NEW c \in Ratings, NEW stars \in Stars, NEW ss \in SUBSET Sources
    PROVE  /\ Set(c, stars, ss) \in Ratings
           /\ Keeps(c, Set(c, stars, ss))
           /\ stars > 0 => \A s \in ss : Covers(Set(c, stars, ss), s)
           /\ \A s \in Sources \ ss :
                  Set(c, stars, ss).found[s] = c.found[s]
           /\ Set(c, stars, ss).invalid = c.invalid
           /\ Set(c, stars, ss).unusable = c.unusable
BY DEF Set, Keeps, Covers, Ratings, Stars

LEMMA InvalidFacts ==
    ASSUME NEW c \in Ratings, NEW ss \in SUBSET Sources
    PROVE  /\ Invalid(c, ss) \in Ratings
           /\ Keeps(c, Invalid(c, ss))
           /\ \A s \in ss : Covers(Invalid(c, ss), s)
BY DEF Invalid, Keeps, Covers, Ratings

LEMMA DecodedFacts ==
    ASSUME NEW c \in Ratings, NEW stars \in Stars, NEW zero \in BOOLEAN,
           NEW ss \in SUBSET Sources
    PROVE  /\ Decoded(c, stars, zero, ss) \in Ratings
           /\ Keeps(c, Decoded(c, stars, zero, ss))
           /\ ~zero => \A s \in ss : Covers(Decoded(c, stars, zero, ss), s)
           /\ \A s \in Sources \ ss :
                  /\ Decoded(c, stars, zero, ss).found[s] = c.found[s]
                  /\ s \in Decoded(c, stars, zero, ss).invalid <=> s \in c.invalid
                  /\ s \in c.unusable => s \in Decoded(c, stars, zero, ss).unusable
<1>1. CASE stars > 0 \/ zero
  BY <1>1, SetFacts DEF Decoded, Stars
<1>2. CASE ~(stars > 0 \/ zero)
  BY <1>2 DEF Decoded, Keeps, Covers, Ratings
<1> QED
  BY <1>1, <1>2

LEMMA FmpsFacts ==
    ASSUME NEW c \in Ratings, NEW v \in Text
    PROVE  /\ Fmps(c, v) \in Ratings
           /\ Keeps(c, Fmps(c, v))
           /\ v # 0 => \A s \in {"FMPS", "MediaMonkey"} : Covers(Fmps(c, v), s)
<1>1. {"FMPS", "MediaMonkey"} \in SUBSET Sources
  BY DEF Sources
<1>2. CASE BadFmps(v)
  BY <1>1, <1>2, InvalidFacts DEF Fmps
<1>3. CASE ~BadFmps(v)
  <2>1. fmpsToStars(v) \in Stars
    BY <1>3, FmpsType
  <2>2. isZeroValue(v) \in BOOLEAN /\ (v # 0 => ~isZeroValue(v))
    BY DEF isZeroValue
  <2> DEFINE d == Decoded(c, fmpsToStars(v), isZeroValue(v),
                          {"FMPS", "MediaMonkey"})
  <2>3. Fmps(c, v) = d
    BY <1>3 DEF Fmps
  <2>4. /\ d \in Ratings /\ Keeps(c, d)
        /\ ~isZeroValue(v) => \A s \in {"FMPS", "MediaMonkey"} : Covers(d, s)
    BY <1>1, <2>1, <2>2, DecodedFacts
  <2> QED
    BY <2>2, <2>3, <2>4
<1> QED
  BY <1>2, <1>3

\* Unless its value is 0, an own field decides alone what s is rated.
LEMMA OwnFacts ==
    ASSUME NEW c \in Ratings, NEW stars \in Stars, NEW zero \in BOOLEAN,
           NEW s \in Sources
    PROVE  /\ Own(c, stars, zero, s) \in Ratings
           /\ Keeps(c, Own(c, stars, zero, s))
           /\ stars = 0 /\ zero => Own(c, stars, zero, s) = c
           /\ ~(stars = 0 /\ zero) =>
                /\ Covers(Own(c, stars, zero, s), s)
                /\ Own(c, stars, zero, s).found[s] = stars
                /\ s \notin Own(c, stars, zero, s).invalid
                /\ stars = 0 => s \in Own(c, stars, zero, s).unusable
<1>1. CASE stars = 0 /\ zero
  BY <1>1 DEF Own, Keeps
<1>2. CASE ~(stars = 0 /\ zero)
  <2> DEFINE d == [c EXCEPT !.found = [c.found EXCEPT ![s] = 0],
                        !.invalid = c.invalid \ {s}]
  <2>1. /\ d \in Ratings
        /\ \A t \in Sources \ {s} : d.found[t] = c.found[t]
        /\ d.invalid = c.invalid \ {s} /\ d.unusable = c.unusable
        /\ d.found[s] = 0
    <3>1. /\ d.found = [c.found EXCEPT ![s] = 0]
          /\ d.invalid = c.invalid \ {s} /\ d.unusable = c.unusable
      BY DEF Ratings
    <3>2. c.found \in [Sources -> Stars]
      BY DEF Ratings
    <3>3. [c.found EXCEPT ![s] = 0] \in [Sources -> Stars]
      BY <3>2 DEF Stars
    <3>4. \A t \in Sources \ {s} : d.found[t] = c.found[t]
      BY <3>1, <3>2
    <3>5. d.found[s] = 0
      BY <3>1, <3>2
    <3>6. d \in Ratings
      BY <3>3 DEF Ratings
    <3> QED
      BY <3>1, <3>4, <3>5, <3>6
  <2> HIDE DEF d
  <2>2. Own(c, stars, zero, s) = Decoded(d, stars, zero, {s})
    BY <1>2 DEF Own, d
  <2>3. CASE stars > 0
    <3> DEFINE e == Set(d, stars, {s})
    <3>1. Own(c, stars, zero, s) = e
      BY <2>2, <2>3 DEF Decoded
    <3>2. e.found[s] = stars
      BY <2>1, <2>3 DEF Set, Ratings
    <3>3. /\ e \in Ratings /\ Covers(e, s)
          /\ \A t \in Sources \ {s} : e.found[t] = d.found[t]
          /\ e.invalid = d.invalid /\ e.unusable = d.unusable
      BY <2>1, <2>3, SetFacts
    <3> HIDE DEF e
    <3>4. Keeps(c, e)
      BY <2>1, <3>3 DEF Keeps, Covers
    <3> QED
      BY <1>2, <2>1, <2>3, <3>1, <3>2, <3>3, <3>4 DEF Stars
  <2>4. CASE stars = 0
    <3>1. Decoded(d, stars, zero, {s})
            = [d EXCEPT !.unusable = d.unusable \union {s}]
      BY <1>2, <2>4 DEF Decoded
    <3> DEFINE e == [d EXCEPT !.unusable = d.unusable \union {s}]
    <3>2. /\ e \in Ratings /\ e.found = d.found /\ e.invalid = d.invalid
          /\ e.unusable = d.unusable \union {s}
      BY <2>1 DEF Ratings
    <3> HIDE DEF e
    <3>3. Keeps(c, e)
      BY <2>1, <3>2 DEF Keeps, Covers
    <3>4. Own(c, stars, zero, s) = e
      BY <2>2, <3>1 DEF e
    <3> QED
      BY <1>2, <2>1, <2>4, <3>2, <3>3, <3>4 DEF Covers
  <2> QED
    BY <2>3, <2>4 DEF Stars
<1> QED
  BY <1>1, <1>2

LEMMA Least ==
    ASSUME NEW T \in SUBSET Nat, T # {}
    PROVE  \E x \in T : \A y \in T : ~(y < x)
<1> DEFINE R == {ss \in Nat \X Nat : ss[1] < ss[2]}
<1>1. IsWellFoundedOn(R, Nat)
  BY NatLessThanWellFounded DEF OpToRel
<1> HIDE DEF R
<1>2. PICK x \in T : \A y \in T : <<y, x>> \notin R
  BY <1>1, WFMin
<1>3. \A y \in T : y < x => <<y, x>> \in R
  BY DEF R
<1> QED
  BY <1>2, <1>3

\* The reading is that of some source, and only what nothing is recorded for
\* counts as untagged.
LEMMA PickFacts ==
    ASSUME NEW c \in Ratings, NEW order \in Seq(Sources)
    PROVE  /\ pickRating(order, c) \in Readings
           /\ pickRating(order, c) = TagAbsent =>
                \A i \in DOMAIN order : ~Covers(c, order[i])
<1> DEFINE decisive == {i \in DOMAIN order : Decisive(c, order[i])}
           first == {i \in DOMAIN order :
                       /\ Decisive(c, order[i])
                       /\ \A j \in DOMAIN order :
                            j < i => ~Decisive(c, order[j])}
           source == order[CHOOSE i \in first : TRUE]
<1>1. DOMAIN order \subseteq Nat /\ \A i \in DOMAIN order : order[i] \in Sources
  OBVIOUS
<1>2. decisive # {} => first # {}
  <2>1. SUFFICES ASSUME decisive # {} PROVE first # {}
    OBVIOUS
  <2>2. PICK x \in decisive : \A y \in decisive : ~(y < x)
    BY <1>1, <2>1, Least
  <2> QED
    BY <2>2
<1>3. first # {} => source \in Sources
  BY <1>1
<1> DEFINE p == pickRating(order, c)
<1> HIDE DEF first, source, decisive, p
<1>4. p = CASE first # {} /\ c.found[source] > 0 -> TagFound(c.found[source])
            [] first # {} /\ c.found[source] = 0 -> FileUnreadable
            [] first = {} /\ \E i \in DOMAIN order : order[i] \in c.unusable
               -> TagNotWholeStar
            [] OTHER -> TagAbsent
  BY DEF p, pickRating, first, source
<1>5. /\ TagFound(c.found[source]) # TagAbsent
      /\ FileUnreadable # TagAbsent /\ TagNotWholeStar # TagAbsent
  BY DEF TagFound, TagAbsent, FileUnreadable, TagNotWholeStar, Reading
<1>6. CASE first # {}
  <2>1. c.found[source] \in Stars
    BY <1>3, <1>6 DEF Ratings
  <2>2. CASE c.found[source] > 0
    BY <1>4, <1>5, <1>6, <2>1, <2>2 DEF p, Readings, Stars
  <2>3. CASE c.found[source] = 0
    BY <1>4, <1>5, <1>6, <2>3 DEF p, Readings
  <2> QED
    BY <2>1, <2>2, <2>3 DEF Stars
<1>7. CASE first = {} /\ \E i \in DOMAIN order : order[i] \in c.unusable
  BY <1>4, <1>5, <1>7 DEF p, Readings
<1>8. CASE first = {} /\ ~\E i \in DOMAIN order : order[i] \in c.unusable
  <2>1. p = TagAbsent
    BY <1>4, <1>8
  <2>2. \A i \in DOMAIN order : ~Decisive(c, order[i])
    BY <1>2, <1>8 DEF decisive
  <2> QED
    BY <1>8, <2>1, <2>2 DEF p, Readings, Covers, Decisive
<1> QED
  BY <1>6, <1>7, <1>8

-----------------------------------------------------------------------------
(* The inductive invariant *)

\* Until a broken tag ends the reading, every rating read is recorded.
Recorded ==
    phase # "broken" =>
        \A f \in read : \A s \in RatedBy(f) : Covers(r, s)

\* RATE is an MP4 atom; MediaMonkey's own field counts from the second pass
\* on, and that of a Vorbis comment is RATING, read once.
OwnField ==
    /\ phase = "first" => own = None
    /\ rate # None => format = "MP4"
    /\ format = "Vorbis" /\ own # None => \E f \in read : f.name = "RATING"

TagInv ==
    /\ TagTypeOK
    /\ Recorded
    /\ OwnField
    /\ OwnFieldWins
    /\ phase \in {"first", "second"} => reading = None
    /\ RatedNotCleared

LEMMA ValueTypes ==
    /\ Texts \subseteq Text /\ Bytes \subseteq Text /\ SharedRatings \subseteq Text
    /\ None \notin Text /\ None \notin Stars /\ None \notin Readings
BY ValuesAssumption DEF Text, Stars

LEMMA RatedByType ==
    ASSUME NEW f \in Field
    PROVE  RatedBy(f) \subseteq Sources
BY DEF RatedBy, Field, Names, Sources

LEMMA RatedBySame ==
    ASSUME format' = format, phase' = phase, rate' = rate \/ phase = "first",
           NEW f
    PROVE  RatedBy(f)' = RatedBy(f)
<1>1. (phase' # "first" /\ rate' = f.value) <=> (phase # "first" /\ rate = f.value)
  OBVIOUS
<1> QED
  BY <1>1 DEF RatedBy

\* What a field must do to keep the invariant.
LEMMA ReadPreserves ==
    ASSUME TagInv, NEW fo, NEW ph \in {"first", "second"}, NEW n \in Names,
           NEW v \in Text, Reads(fo, ph, n, v),
           r' \in Ratings, Keeps(r, r'),
           \A s \in RatedBy([name |-> n, value |-> v]) : Covers(r', s),
           rate' = rate \/ (phase = "first" /\ format = "MP4" /\ rate' = v),
           own' \in Stars \union {None}, phase = "first" => own' = own,
           OwnFieldWins',
           format = "Vorbis" /\ own' # None => n = "RATING" \/ own' = own
    PROVE  TagInv'
<1> DEFINE f0 == [name |-> n, value |-> v]
<1>1. /\ read' = read \union {f0} /\ f0 \in Field
      /\ phase = ph /\ UNCHANGED <<format, tagOrder, phase, reading>>
  BY DEF Reads, Field
<1>2. TagTypeOK'
  BY <1>1, ValueTypes DEF TagInv, TagTypeOK
<1>3. Recorded'
  <2>1. SUFFICES ASSUME NEW f \in read', NEW s \in RatedBy(f)' PROVE Covers(r', s)
    BY DEF Recorded, Covers
  <2>2. RatedBy(f)' = RatedBy(f)
    BY <1>1, RatedBySame
  <2>3. CASE f \in read
    <3>1. s \in Sources
      BY <2>2, <2>3, RatedByType DEF TagInv, TagTypeOK
    <3>2. Covers(r, s)
      BY <1>1, <2>2, <2>3 DEF TagInv, Recorded
    <3> QED
      BY <3>1, <3>2 DEF Keeps
  <2>4. CASE f = f0
    BY <2>2, <2>4
  <2> QED
    BY <1>1, <2>3, <2>4
<1>4. OwnField'
  BY <1>1 DEF TagInv, OwnField
<1>5. reading' = None
  BY <1>1 DEF TagInv
<1>6. RatedNotCleared'
  BY <1>5, ValueTypes DEF RatedNotCleared, Readings
<1> QED
  BY <1>2, <1>3, <1>4, <1>5, <1>6 DEF TagInv

\* A field that leaves MediaMonkey's own field and RATE alone.
LEMMA OthersPreserve ==
    ASSUME TagInv, NEW fo, NEW ph \in {"first", "second"}, NEW n \in Names,
           NEW v \in Text, Reads(fo, ph, n, v),
           r' \in Ratings, Keeps(r, r'),
           \A s \in RatedBy([name |-> n, value |-> v]) : Covers(r', s),
           UNCHANGED <<rate, own>>,
           phase = "second" =>
               /\ r'.found["MediaMonkey"] = r.found["MediaMonkey"]
               /\ "MediaMonkey" \in r'.invalid => "MediaMonkey" \in r.invalid
               /\ "MediaMonkey" \in r.unusable => "MediaMonkey" \in r'.unusable
    PROVE  TagInv'
<1>1. own \in Stars \union {None} /\ phase = ph
  BY DEF TagInv, TagTypeOK, Reads
<1>2. OwnFieldWins'
  BY <1>1 DEF TagInv, OwnField, OwnFieldWins
<1> QED
  BY <1>1, <1>2, ReadPreserves

-----------------------------------------------------------------------------
(* Each field preserves the invariant *)

LEMMA ZeroType ==
    ASSUME NEW v
    PROVE  isZeroValue(v) \in BOOLEAN /\ (isZeroValue(v) <=> v = 0)
BY DEF isZeroValue

LEMMA Rates ==
    ASSUME TagInv, NEW v
    PROVE  /\ RatedBy([name |-> "FMPS_RATING", value |-> v])
                \subseteq IF v = 0 THEN {} ELSE {"FMPS", "MediaMonkey"}
           /\ RatedBy([name |-> "RATING", value |-> v]) \subseteq
                IF v = 0 THEN {} ELSE {"foobar2000", "MusicBee", "MediaMonkey"}
           /\ format # "Vorbis" =>
                RatedBy([name |-> "RATING", value |-> v])
                  \subseteq IF v = 0 THEN {} ELSE {"foobar2000"}
           /\ phase = "first" =>
                RatedBy([name |-> "RATE", value |-> v])
                  \subseteq IF v = 0 THEN {} ELSE {"MusicBee"}
           /\ RatedBy([name |-> "rating", value |-> v])
                \subseteq IF v = 0 THEN {} ELSE {"iTunes"}
           /\ RatedBy([name |-> "WMP", value |-> v])
                \subseteq IF v = 0 THEN {} ELSE {"WMP", "foobar2000"}
           /\ RatedBy([name |-> "no@email", value |-> v])
                \subseteq IF v = 0 THEN {} ELSE {"MediaMonkey"}
           /\ RatedBy([name |-> "WM/SharedUserRating", value |-> v])
                \subseteq IF v = 0 THEN {} ELSE {"WMP", "MusicBee"}
           /\ RatedBy([name |-> "iTunes", value |-> v])
                \subseteq IF v = 0 THEN {} ELSE {"iTunes"}
           /\ RatedBy([name |-> "MusicBee", value |-> v])
                \subseteq IF v = 0 THEN {} ELSE {"MusicBee"}
BY DEF RatedBy

LEMMA Collected == TagInv => r \in Ratings
BY DEF TagInv, TagTypeOK

LEMMA FmpsFieldPreserves ==
    ASSUME TagInv, NEW v \in Texts, FmpsField(v)
    PROVE  TagInv'
<1>1. Reads(format, "first", "FMPS_RATING", v) /\ phase = "first" /\ v \in Text
  BY ValueTypes DEF FmpsField, Reads
<1>2. /\ r' \in Ratings /\ Keeps(r, r')
      /\ v # 0 => \A s \in {"FMPS", "MediaMonkey"} : Covers(r', s)
  BY <1>1, Collected, FmpsFacts DEF FmpsField
<1>3. \A s \in RatedBy([name |-> "FMPS_RATING", value |-> v]) : Covers(r', s)
  BY <1>2, Rates
<1>4. "FMPS_RATING" \in Names /\ UNCHANGED <<rate, own>>
  BY DEF Names, FmpsField
<1> QED
  BY <1>1, <1>2, <1>3, <1>4, OthersPreserve

LEMMA FoobarPreserves ==
    ASSUME TagInv, NEW v \in Texts, TxxxRating(v) \/ FoobarAtom(v)
    PROVE  TagInv'
<1>1. PICK fo \in {"ID3v2", "MP4"} :
        /\ Reads(fo, "first", "RATING", v)
        /\ r' = Decoded(r, ratingIntToStars(v), isZeroValue(v), {"foobar2000"})
        /\ UNCHANGED <<rate, own>>
  BY DEF TxxxRating, FoobarAtom
<1>2. phase = "first" /\ format # "Vorbis" /\ v \in Text
  BY <1>1, ValueTypes DEF Reads
<1>3. {"foobar2000"} \in SUBSET Sources
  BY DEF Sources
<1>4. /\ r' \in Ratings /\ Keeps(r, r')
      /\ v # 0 => \A s \in {"foobar2000"} : Covers(r', s)
  <2> DEFINE d == Decoded(r, ratingIntToStars(v), isZeroValue(v), {"foobar2000"})
  <2>1. /\ d \in Ratings /\ Keeps(r, d)
        /\ v # 0 => \A s \in {"foobar2000"} : Covers(d, s)
    BY <1>3, Collected, ConverterTypes, ZeroType, DecodedFacts
  <2> QED
    BY <1>1, <2>1
<1>5. \A s \in RatedBy([name |-> "RATING", value |-> v]) : Covers(r', s)
  BY <1>2, <1>4, Rates
<1> QED
  BY <1>1, <1>2, <1>4, <1>5, OthersPreserve DEF Names

LEMMA WmpFramePreserves ==
    ASSUME TagInv, NEW b \in Bytes, WmpFrame(b)
    PROVE  TagInv'
<1> DEFINE taken == r.found["foobar2000"] > 0
           ss == {"WMP"} \union IF taken THEN {} ELSE {"foobar2000"}
<1>1. /\ Reads("ID3v2", "second", "WMP", b)
      /\ r' = Set(r, popmWMPToStars(b), ss)
      /\ UNCHANGED <<rate, own>>
  BY DEF WmpFrame
<1>2. /\ ss \in SUBSET Sources /\ "MediaMonkey" \in Sources \ ss
      /\ "foobar2000" \in ss \/ taken
      /\ "WMP" \in ss
  BY DEF Sources
<1> HIDE DEF ss
<1>3. /\ r' \in Ratings /\ Keeps(r, r')
      /\ popmWMPToStars(b) > 0 => \A s \in ss : Covers(r', s)
      /\ r'.found["MediaMonkey"] = r.found["MediaMonkey"]
      /\ r'.invalid = r.invalid /\ r'.unusable = r.unusable
  BY <1>1, <1>2, Collected, ConverterTypes, SetFacts
<1>4. b # 0 => Covers(r', "WMP") /\ Covers(r', "foobar2000")
  <2>1. b # 0 => popmWMPToStars(b) > 0
    BY BytesRate, ValuesAssumption
  <2>2. taken => Covers(r', "foobar2000")
    BY <1>3 DEF Keeps, Covers, Sources
  <2> QED
    BY <1>2, <1>3, <2>1, <2>2
<1>5. \A s \in RatedBy([name |-> "WMP", value |-> b]) : Covers(r', s)
  BY <1>4, Rates
<1>6. b \in Text /\ "WMP" \in Names
  BY ValueTypes DEF Names
<1> QED
  BY <1>1, <1>3, <1>5, <1>6, OthersPreserve

LEMMA ITunesFramePreserves ==
    ASSUME TagInv, NEW b \in Bytes, ITunesFrame(b)
    PROVE  TagInv'
<1>1. /\ Reads("ID3v2", "second", "iTunes", b)
      /\ r' = Set(r, popmITunesToStars(b), {"iTunes"})
      /\ UNCHANGED <<rate, own>>
  BY DEF ITunesFrame
<1>2. {"iTunes"} \in SUBSET Sources /\ "MediaMonkey" \in Sources \ {"iTunes"}
  BY DEF Sources
<1>3. /\ r' \in Ratings /\ Keeps(r, r')
      /\ popmITunesToStars(b) > 0 => Covers(r', "iTunes")
      /\ r'.found["MediaMonkey"] = r.found["MediaMonkey"]
      /\ r'.invalid = r.invalid /\ r'.unusable = r.unusable
  BY <1>1, <1>2, Collected, ConverterTypes, SetFacts
<1>4. \A s \in RatedBy([name |-> "iTunes", value |-> b]) : Covers(r', s)
  BY <1>3, Rates, BytesRate, ValuesAssumption
<1>5. b \in Text /\ "iTunes" \in Names
  BY ValueTypes DEF Names
<1> QED
  BY <1>1, <1>3, <1>4, <1>5, OthersPreserve

LEMMA MusicBeeFramePreserves ==
    ASSUME TagInv, NEW b \in Bytes, MusicBeeFrame(b)
    PROVE  TagInv'
<1>1. /\ Reads("ID3v2", "second", "MusicBee", b)
      /\ r' = Decoded(r, popmMusicBeeToStars(b), isZeroValue(b), {"MusicBee"})
      /\ UNCHANGED <<rate, own>>
  BY DEF MusicBeeFrame
<1>2. {"MusicBee"} \in SUBSET Sources /\ "MediaMonkey" \in Sources \ {"MusicBee"}
  BY DEF Sources
<1>3. /\ r' \in Ratings /\ Keeps(r, r')
      /\ b # 0 => \A s \in {"MusicBee"} : Covers(r', s)
      /\ r'.found["MediaMonkey"] = r.found["MediaMonkey"]
      /\ "MediaMonkey" \in r'.invalid => "MediaMonkey" \in r.invalid
      /\ "MediaMonkey" \in r.unusable => "MediaMonkey" \in r'.unusable
  <2> DEFINE d == Decoded(r, popmMusicBeeToStars(b), isZeroValue(b), {"MusicBee"})
  <2>1. /\ d \in Ratings /\ Keeps(r, d)
        /\ b # 0 => \A s \in {"MusicBee"} : Covers(d, s)
        /\ \A s \in Sources \ {"MusicBee"} :
               /\ d.found[s] = r.found[s]
               /\ s \in d.invalid <=> s \in r.invalid
               /\ s \in r.unusable => s \in d.unusable
    BY <1>2, Collected, ConverterTypes, ZeroType, DecodedFacts
  <2> QED
    BY <1>1, <1>2, <2>1
<1>4. \A s \in RatedBy([name |-> "MusicBee", value |-> b]) : Covers(r', s)
  BY <1>3, Rates
<1>5. b \in Text /\ "MusicBee" \in Names
  BY ValueTypes DEF Names
<1> QED
  BY <1>1, <1>3, <1>4, <1>5, OthersPreserve

LEMMA MediaMonkeyFramePreserves ==
    ASSUME TagInv, NEW b \in Bytes, MediaMonkeyFrame(b)
    PROVE  TagInv'
<1> DEFINE stars == popmMediaMonkeyToStars(b)
           zero == isZeroValue(b)
<1>1. /\ Reads("ID3v2", "second", "no@email", b)
      /\ r' = Own(r, stars, zero, "MediaMonkey")
      /\ own' = OwnStars(stars, zero)
      /\ rate' = rate
  BY DEF MediaMonkeyFrame
<1>2. stars \in Stars /\ zero \in BOOLEAN /\ (zero <=> b = 0)
  BY ConverterTypes, ZeroType
<1>3. "MediaMonkey" \in Sources /\ "no@email" \in Names /\ b \in Text
      /\ phase = "second" /\ format # "Vorbis"
  BY <1>1, ValueTypes DEF Sources, Names, Reads
<1> HIDE DEF stars, zero
<1>4. /\ r' \in Ratings /\ Keeps(r, r')
      /\ stars = 0 /\ zero => r' = r
      /\ ~(stars = 0 /\ zero) => /\ Covers(r', "MediaMonkey")
                                 /\ r'.found["MediaMonkey"] = stars
                                 /\ "MediaMonkey" \notin r'.invalid
                                 /\ stars = 0 => "MediaMonkey" \in r'.unusable
  BY <1>1, <1>2, <1>3, Collected, OwnFacts
<1>5. own' = IF stars = 0 /\ zero THEN own ELSE stars
  BY <1>1 DEF OwnStars
<1>6. OwnFieldWins'
  BY <1>4, <1>5 DEF OwnFieldWins, TagInv
<1>7. own' \in Stars \union {None}
  BY <1>2, <1>5 DEF TagInv, TagTypeOK
<1>8. \A s \in RatedBy([name |-> "no@email", value |-> b]) : Covers(r', s)
  BY <1>2, <1>4, Rates
<1> QED
  BY <1>1, <1>3, <1>4, <1>6, <1>7, <1>8, ReadPreserves

LEMMA VorbisRatingPreserves ==
    ASSUME TagInv, NEW v \in Texts, VorbisRating(v)
    PROVE  TagInv'
<1> DEFINE foobar == ratingIntToStars(v)
           stars == ratingMusicBeeToStars(v)
           zero == isZeroValue(v)
           b == Decoded(r, foobar, zero, {"foobar2000"})
           c == Decoded(b, stars, zero, {"MusicBee"})
           d == IF foobar > 0 THEN Decoded(c, stars, zero, {"MediaMonkey"})
                ELSE Own(c, stars, zero, "MediaMonkey")
<1>1. /\ Reads("Vorbis", "second", "RATING", v)
      /\ \A f \in read : f.name # "RATING"
      /\ r' = d
      /\ own' = IF foobar > 0 \/ (stars = 0 /\ zero) THEN own ELSE stars
      /\ rate' = rate
  BY DEF VorbisRating, OwnStars
<1>2. /\ foobar \in Stars /\ stars \in Stars
      /\ zero \in BOOLEAN /\ (zero <=> v = 0)
  BY ConverterTypes, ZeroType
<1>3. /\ "MediaMonkey" \in Sources /\ "foobar2000" \in Sources
      /\ "MusicBee" \in Sources /\ "RATING" \in Names /\ v \in Text
      /\ phase = "second" /\ format = "Vorbis"
  BY <1>1, ValueTypes DEF Sources, Names, Reads
<1>4. own = None
  BY <1>1, <1>3 DEF TagInv, OwnField
<1> HIDE DEF foobar, stars, zero
<1>5. /\ b \in Ratings /\ Keeps(r, b)
      /\ ~zero => Covers(b, "foobar2000")
  BY <1>2, <1>3, Collected, DecodedFacts
<1> HIDE DEF b
<1>6. /\ c \in Ratings /\ Keeps(b, c)
      /\ ~zero => Covers(c, "MusicBee")
  BY <1>2, <1>3, <1>5, DecodedFacts
<1> HIDE DEF c
<1>7. /\ d \in Ratings /\ Keeps(c, d)
      /\ ~zero => Covers(d, "MediaMonkey")
      /\ ~(foobar > 0) /\ ~(stars = 0 /\ zero) =>
             /\ d.found["MediaMonkey"] = stars
             /\ "MediaMonkey" \notin d.invalid
             /\ stars = 0 => "MediaMonkey" \in d.unusable
  <2>1. CASE foobar > 0
    BY <1>2, <1>3, <1>6, <2>1, DecodedFacts
  <2>2. CASE ~(foobar > 0)
    BY <1>2, <1>3, <1>6, <2>2, OwnFacts
  <2> QED
    BY <2>1, <2>2
<1> HIDE DEF d
<1>8. Keeps(r, d)
  BY <1>5, <1>6, <1>7 DEF Keeps
<1>9. ~zero => \A s \in {"foobar2000", "MusicBee", "MediaMonkey"} : Covers(d, s)
  BY <1>3, <1>5, <1>6, <1>7 DEF Keeps
<1>10. \A s \in RatedBy([name |-> "RATING", value |-> v]) : Covers(r', s)
  BY <1>1, <1>2, <1>9, Rates
<1>11. OwnFieldWins'
  BY <1>1, <1>4, <1>7 DEF OwnFieldWins
<1>12. own' \in Stars \union {None}
  BY <1>1, <1>2, <1>4
<1> QED
  BY <1>1, <1>3, <1>7, <1>8, <1>10, <1>11, <1>12, ReadPreserves

LEMMA ITunesAtomPreserves ==
    ASSUME TagInv, NEW v \in Texts, ITunesAtom(v)
    PROVE  TagInv'
<1>1. /\ Reads("MP4", "first", "rating", v)
      /\ r' = IF BadPercent(v) THEN Invalid(r, {"iTunes"})
              ELSE Set(r, ratingPercentToStars(v), {"iTunes"})
      /\ UNCHANGED <<rate, own>>
  BY DEF ITunesAtom
<1>2. /\ {"iTunes"} \in SUBSET Sources /\ v \in Text /\ "rating" \in Names
      /\ phase = "first"
  BY <1>1, ValueTypes DEF Sources, Names, Reads
<1>3. r' \in Ratings /\ Keeps(r, r') /\ (v # 0 => Covers(r', "iTunes"))
  <2>1. CASE BadPercent(v)
    BY <1>1, <1>2, <2>1, Collected, InvalidFacts
  <2>2. CASE ~BadPercent(v)
    <3>1. v # 0 => ratingPercentToStars(v) > 0
      BY <1>2, <2>2, PercentRates
    <3> QED
      BY <1>1, <1>2, <2>2, <3>1, Collected, ConverterTypes, SetFacts
  <2> QED
    BY <2>1, <2>2
<1>4. \A s \in RatedBy([name |-> "rating", value |-> v]) : Covers(r', s)
  BY <1>3, Rates
<1> QED
  BY <1>1, <1>2, <1>3, <1>4, OthersPreserve

LEMMA RateAtomPreserves ==
    ASSUME TagInv, NEW v \in Texts, RateAtom(v)
    PROVE  TagInv'
<1>1. /\ Reads("MP4", "first", "RATE", v)
      /\ r' = Decoded(r, ratingMusicBeeToStars(v), isZeroValue(v), {"MusicBee"})
      /\ rate' = v /\ own' = own
  BY DEF RateAtom
<1>2. /\ {"MusicBee"} \in SUBSET Sources /\ v \in Text /\ "RATE" \in Names
      /\ phase = "first" /\ format = "MP4"
  BY <1>1, ValueTypes DEF Sources, Names, Reads
<1>3. r' \in Ratings /\ Keeps(r, r') /\ (v # 0 => Covers(r', "MusicBee"))
  <2> DEFINE d == Decoded(r, ratingMusicBeeToStars(v), isZeroValue(v),
                          {"MusicBee"})
  <2>1. /\ d \in Ratings /\ Keeps(r, d)
        /\ ~isZeroValue(v) => \A s \in {"MusicBee"} : Covers(d, s)
    BY <1>2, Collected, ConverterTypes, ZeroType, DecodedFacts
  <2> QED
    BY <1>1, <2>1, ZeroType
<1>4. \A s \in RatedBy([name |-> "RATE", value |-> v]) : Covers(r', s)
  BY <1>2, <1>3, Rates
<1>5. own = None /\ own' \in Stars \union {None}
  BY <1>1, <1>2 DEF TagInv, OwnField
<1>6. OwnFieldWins'
  BY <1>1, <1>5 DEF OwnFieldWins
<1> QED
  BY <1>1, <1>2, <1>3, <1>4, <1>5, <1>6, ReadPreserves

LEMMA SharedUserRatingPreserves ==
    ASSUME TagInv, NEW v \in SharedRatings, SharedUserRating(v)
    PROVE  TagInv'
<1> DEFINE ss == {"WMP", "MusicBee"}
           d == Decoded(r, sharedUserRatingToStars(v), isZeroValue(v), ss)
<1>1. /\ Reads("ASF", "first", "WM/SharedUserRating", v)
      /\ r' = IF v = NotANumber THEN Invalid(r, ss) ELSE d
      /\ UNCHANGED <<rate, own>>
  BY DEF SharedUserRating
<1>2. /\ ss \in SUBSET Sources /\ v \in Text
      /\ "WM/SharedUserRating" \in Names /\ phase = "first"
  BY <1>1, ValueTypes DEF Sources, Names, Reads
<1>3. r' \in Ratings /\ Keeps(r, r') /\ (v # 0 => \A s \in ss : Covers(r', s))
  <2>1. CASE v = NotANumber
    BY <1>1, <1>2, <2>1, Collected, InvalidFacts
  <2>2. CASE v # NotANumber
    <3>1. /\ d \in Ratings /\ Keeps(r, d)
          /\ ~isZeroValue(v) => \A s \in ss : Covers(d, s)
      BY <1>2, Collected, ConverterTypes, ZeroType, DecodedFacts
    <3> QED
      BY <1>1, <2>2, <3>1, ZeroType
  <2> QED
    BY <2>1, <2>2
<1>4. \A s \in RatedBy([name |-> "WM/SharedUserRating", value |-> v]) :
          Covers(r', s)
  BY <1>3, Rates
<1> QED
  BY <1>1, <1>2, <1>3, <1>4, OthersPreserve

-----------------------------------------------------------------------------
(* The ends of the passes, and the theorems *)

LEMMA InitInv == Init => TagInv
<1>1. newRatings \in Ratings
  BY DEF newRatings, Ratings, Stars
<1> QED
  BY <1>1, ValueTypes
     DEF Init, TagInv, TagTypeOK, Recorded, OwnField, OwnFieldWins,
         RatedNotCleared, TagAbsent, Readings

LEMMA MalformedPreserves ==
    ASSUME TagInv, Malformed
    PROVE  TagInv'
<1>1. FileUnreadable \in Readings /\ FileUnreadable # TagAbsent
  BY DEF Readings, FileUnreadable, TagAbsent, Reading
<1>2. TagTypeOK'
  BY <1>1 DEF TagInv, TagTypeOK, Malformed
<1> QED
  BY <1>1, <1>2
     DEF TagInv, Malformed, Recorded, OwnField, OwnFieldWins, RatedNotCleared

LEMMA EndOfFirstPassPreserves ==
    ASSUME TagInv, EndOfFirstPass
    PROVE  TagInv'
<1> DEFINE stars == ratingMusicBeeToStars(rate)
           zero == isZeroValue(rate)
<1>1. /\ phase = "first" /\ phase' = "second" /\ own = None
      /\ UNCHANGED <<format, tagOrder, rate, reading, read>>
      /\ reading = None
  BY DEF EndOfFirstPass, TagInv, OwnField
<1>2. stars \in Stars /\ zero \in BOOLEAN /\ (zero <=> rate = 0)
  BY ConverterTypes, ZeroType
<1>3. "MediaMonkey" \in Sources /\ r \in Ratings
  BY Collected DEF Sources
<1> DEFINE d == Own(r, stars, zero, "MediaMonkey")
<1>4. rate = None => r' = r /\ own' = None
  BY <1>1 DEF EndOfFirstPass
<1>5. rate # None =>
        r' = d /\ own' = IF stars = 0 /\ zero THEN None ELSE stars
  BY <1>1 DEF EndOfFirstPass, OwnStars
<1> HIDE DEF stars, zero
<1>6. /\ d \in Ratings /\ Keeps(r, d)
      /\ stars = 0 /\ zero => d = r
      /\ ~(stars = 0 /\ zero) => /\ Covers(d, "MediaMonkey")
                                 /\ d.found["MediaMonkey"] = stars
                                 /\ "MediaMonkey" \notin d.invalid
                                 /\ stars = 0 => "MediaMonkey" \in d.unusable
  BY <1>2, <1>3, OwnFacts
<1> HIDE DEF d
<1>7. r' \in Ratings /\ Keeps(r, r') /\ own' \in Stars \union {None}
  BY <1>2, <1>3, <1>4, <1>5, <1>6 DEF Keeps
<1>8. TagTypeOK'
  BY <1>1, <1>7 DEF TagInv, TagTypeOK
<1>9. OwnFieldWins'
  BY <1>4, <1>5, <1>6 DEF OwnFieldWins
<1>10. Recorded'
  <2>1. SUFFICES ASSUME NEW f \in read, NEW s \in RatedBy(f)' PROVE Covers(r', s)
    BY <1>1 DEF Recorded, Covers
  <2>2. f \in Field
    BY DEF TagInv, TagTypeOK
  <2>3. s \in RatedBy(f) \/ (s = "MediaMonkey" /\ rate = f.value /\ f.value # 0)
    BY <1>1 DEF RatedBy
  <2>4. CASE s \in RatedBy(f)
    <3>1. s \in Sources /\ Covers(r, s)
      BY <1>1, <2>2, <2>4, RatedByType DEF TagInv, Recorded
    <3> QED
      BY <1>7, <3>1 DEF Keeps
  <2>5. CASE s = "MediaMonkey" /\ rate = f.value /\ f.value # 0
    <3>1. rate # None /\ ~zero
      BY <1>2, <2>2, <2>5, ValueTypes DEF Field
    <3> QED
      BY <1>5, <1>6, <2>5, <3>1
  <2> QED
    BY <2>3, <2>4, <2>5
<1>11. OwnField'
  BY <1>1, <1>4 DEF TagInv, OwnField
<1>12. RatedNotCleared'
  BY <1>1, ValueTypes DEF RatedNotCleared, Readings
<1> QED
  BY <1>1, <1>8, <1>9, <1>10, <1>11, <1>12 DEF TagInv

LEMMA PickPreserves ==
    ASSUME TagInv, Pick
    PROVE  TagInv'
<1>1. /\ phase = "second" /\ phase' = "picked"
      /\ reading' = pickRating(tagOrder, r)
      /\ UNCHANGED <<format, tagOrder, r, rate, read, own>>
  BY DEF Pick
<1>2. tagOrder \in Seq(Sources) /\ r \in Ratings
  BY OrdersAssumption DEF TagInv, TagTypeOK
<1>3. /\ reading' \in Readings
      /\ reading' = TagAbsent =>
           \A i \in DOMAIN tagOrder : ~Covers(r, tagOrder[i])
  BY <1>1, <1>2, PickFacts
<1>4. \A f : RatedBy(f)' = RatedBy(f)
  BY <1>1 DEF RatedBy
<1>5. TagTypeOK'
  BY <1>1, <1>3 DEF TagInv, TagTypeOK
<1>6. Recorded'
  BY <1>1, <1>4 DEF TagInv, Recorded, Covers
<1>7. RatedNotCleared'
  <2>1. SUFFICES ASSUME reading' = TagAbsent, NEW f \in read,
                        NEW i \in DOMAIN tagOrder, tagOrder[i] \in RatedBy(f)
                 PROVE  FALSE
    BY <1>1, <1>4 DEF RatedNotCleared, TagAbsent, Reading
  <2>2. Covers(r, tagOrder[i])
    BY <1>1, <2>1 DEF TagInv, Recorded
  <2> QED
    BY <1>3, <2>1, <2>2
<1> QED
  BY <1>1, <1>5, <1>6, <1>7 DEF TagInv, OwnField, OwnFieldWins

LEMMA StutterPreserves ==
    ASSUME TagInv, UNCHANGED vars
    PROVE  TagInv'
<1>1. \A f : RatedBy(f)' = RatedBy(f)
  BY DEF RatedBy, vars
<1> QED
  BY <1>1 DEF vars, TagInv, TagTypeOK, Recorded, OwnField, OwnFieldWins,
              RatedNotCleared, Covers, TagAbsent, Reading

LEMMA TagStep == TagInv /\ [Next]_vars => TagInv'
<1>1. SUFFICES ASSUME TagInv, [Next]_vars PROVE TagInv'
  OBVIOUS
<1>2. CASE \E v \in Texts : \/ FmpsField(v) \/ TxxxRating(v)
                            \/ VorbisRating(v) \/ ITunesAtom(v)
                            \/ FoobarAtom(v) \/ RateAtom(v)
  BY <1>1, <1>2, FmpsFieldPreserves, FoobarPreserves, VorbisRatingPreserves,
     ITunesAtomPreserves, RateAtomPreserves
<1>3. CASE \E b \in Bytes : \/ WmpFrame(b) \/ ITunesFrame(b)
                            \/ MusicBeeFrame(b) \/ MediaMonkeyFrame(b)
  BY <1>1, <1>3, WmpFramePreserves, ITunesFramePreserves,
     MusicBeeFramePreserves, MediaMonkeyFramePreserves
<1>4. CASE \E v \in SharedRatings : SharedUserRating(v)
  BY <1>1, <1>4, SharedUserRatingPreserves
<1>5. CASE Malformed \/ EndOfFirstPass \/ Pick
  BY <1>1, <1>5, MalformedPreserves, EndOfFirstPassPreserves, PickPreserves
<1>6. CASE UNCHANGED vars
  BY <1>1, <1>6, StutterPreserves
<1> QED
  BY <1>1, <1>2, <1>3, <1>4, <1>5, <1>6 DEF Next

\* While a file is read, every rating read so far is recorded for its
\* sources, and MediaMonkey's own field is never overruled (ratings.own).
THEOREM Collecting == Spec => []TagInv
BY InitInv, TagStep, PTL DEF Spec

\* Whatever the fields hold, every count of stars is one of 0..5 and every
\* reading one the scanner knows: no conversion leaves the scale (rating.go).
THEOREM TagTyping == Spec => []TagTypeOK
<1>1. TagInv => TagTypeOK
  BY DEF TagInv
<1> QED
  BY Collecting, <1>1, PTL

\* A file that holds any rating of a source the user listens to - whole, half,
\* out of range or broken, in whatever order - never counts as untagged, so
\* its song's rating is never cleared for it (pickRating, processSong).
THEOREM RatedNeverCleared == Spec => []RatedNotCleared
<1>1. TagInv => RatedNotCleared
  BY DEF TagInv
<1> QED
  BY Collecting, <1>1, PTL

\* MediaMonkey's own field outranks an FMPS_RATING wherever the two stand in
\* the file, half stars included (ratings.own).
THEOREM OwnFieldOutranks == Spec => []OwnFieldWins
<1>1. TagInv => OwnFieldWins
  BY DEF TagInv
<1> QED
  BY Collecting, <1>1, PTL

-----------------------------------------------------------------------------
(* What a file says, source by source *)

\* What the collector c has for s: found comes before invalid, and that
\* before unusable.
Kept(c, s) ==
    CASE c.found[s] > 0 -> c.found[s]
      [] ~(c.found[s] > 0) /\ s \in c.invalid -> Broken
      [] ~(c.found[s] > 0) /\ s \notin c.invalid /\ s \in c.unusable -> HalfStar
      [] OTHER -> Unrated

LEMMA SetKept ==
    ASSUME NEW c \in Ratings, NEW stars \in Stars, NEW ss \in SUBSET Sources,
           NEW s \in Sources
    PROVE  Kept(Set(c, stars, ss), s) =
               IF s \in ss /\ stars > 0 THEN stars ELSE Kept(c, s)
BY DEF Set, Kept, Ratings, Stars

LEMMA InvalidKept ==
    ASSUME NEW c \in Ratings, NEW ss \in SUBSET Sources, NEW s \in Sources,
           Kept(c, s) \in {Unrated, Broken}
    PROVE  Kept(Invalid(c, ss), s) = IF s \in ss THEN Broken ELSE Kept(c, s)
BY DEF Invalid, Kept, Ratings, Stars, Unrated, HalfStar, Broken

LEMMA InvalidOthers ==
    ASSUME NEW c \in Ratings, NEW ss \in SUBSET Sources,
           NEW s \in Sources \ ss
    PROVE  Kept(Invalid(c, ss), s) = Kept(c, s)
BY DEF Invalid, Kept, Ratings, Stars, Unrated, HalfStar, Broken

LEMMA DecodedKept ==
    ASSUME NEW c \in Ratings, NEW stars \in Stars, NEW zero \in BOOLEAN,
           NEW ss \in SUBSET Sources, NEW s \in Sources
    PROVE  Kept(Decoded(c, stars, zero, ss), s) =
               IF s \notin ss \/ (stars = 0 /\ zero) THEN Kept(c, s)
               ELSE IF stars > 0 THEN stars
               ELSE IF Kept(c, s) = Unrated THEN HalfStar ELSE Kept(c, s)
<1>1. CASE stars > 0 \/ zero
  BY <1>1, SetKept DEF Decoded, Stars
<1>2. CASE ~(stars > 0 \/ zero)
  <2> DEFINE d == [c EXCEPT !.unusable = c.unusable \union ss]
  <2>1. Decoded(c, stars, zero, ss) = d
    BY <1>2 DEF Decoded
  <2>2. /\ d.found = c.found /\ d.invalid = c.invalid
        /\ d.unusable = c.unusable \union ss
    BY DEF Ratings
  <2>3. c.found[s] \in Stars
    BY DEF Ratings
  <2> HIDE DEF d
  <2> QED
    BY <1>2, <2>1, <2>2, <2>3 DEF Kept, Stars, Unrated, HalfStar, Broken
<1> QED
  BY <1>1, <1>2

LEMMA OwnKept ==
    ASSUME NEW c \in Ratings, NEW stars \in Stars, NEW zero \in BOOLEAN,
           NEW own1 \in Sources, NEW s \in Sources
    PROVE  Kept(Own(c, stars, zero, own1), s) =
               IF s # own1 \/ (stars = 0 /\ zero) THEN Kept(c, s)
               ELSE IF stars > 0 THEN stars ELSE HalfStar
<1>1. CASE stars = 0 /\ zero
  BY <1>1 DEF Own
<1>2. CASE ~(stars = 0 /\ zero)
  <2> DEFINE d == [c EXCEPT !.found = [c.found EXCEPT ![own1] = 0],
                        !.invalid = c.invalid \ {own1}]
  <2>1. /\ d.found = [c.found EXCEPT ![own1] = 0]
        /\ d.invalid = c.invalid \ {own1} /\ d.unusable = c.unusable
    BY DEF Ratings
  <2>2. c.found \in [Sources -> Stars] /\ 0 \in Stars
    BY DEF Ratings, Stars
  <2>3. d \in Ratings
    <3>1. [c.found EXCEPT ![own1] = 0] \in [Sources -> Stars]
      BY <2>2
    <3> QED
      BY <3>1 DEF Ratings
  <2>4. /\ d.found[own1] = 0
        /\ \A t \in Sources \ {own1} : d.found[t] = c.found[t]
    BY <2>1, <2>2
  <2> HIDE DEF d
  <2>5. Own(c, stars, zero, own1) = Decoded(d, stars, zero, {own1})
    BY <1>2 DEF Own, d
  <2>6. s # own1 => Kept(d, s) = Kept(c, s)
    BY <2>1, <2>4 DEF Kept
  <2>7. s = own1 => Kept(d, s) \in {Unrated, HalfStar}
    BY <2>1, <2>4 DEF Kept, Unrated, HalfStar
  <2>8. Kept(Decoded(d, stars, zero, {own1}), s) =
            IF s \notin {own1} \/ (stars = 0 /\ zero) THEN Kept(d, s)
            ELSE IF stars > 0 THEN stars
            ELSE IF Kept(d, s) = Unrated THEN HalfStar ELSE Kept(d, s)
    BY <2>3, DecodedKept
  <2> QED
    BY <1>2, <2>5, <2>6, <2>7, <2>8
<1> QED
  BY <1>1, <1>2

LEMMA ZeroStars ==
    /\ popmWMPToStars(0) = 0 /\ popmITunesToStars(0) = 0
    /\ popmMusicBeeToStars(0) = 0 /\ popmMediaMonkeyToStars(0) = 0
    /\ sharedUserRatingToStars(0) = 0 /\ ratingPercentToStars(0) = 0
    /\ ratingIntToStars(0) = 0 /\ ratingMusicBeeToStars(0) = 0
    /\ fmpsToStars(0) = 0 /\ ~BadFmps(0) /\ ~BadPercent(0) /\ 0 # NotANumber
<1>1. ASSUME NEW starts, DOMAIN starts = 1..5,
             \A n \in 1..5 : starts[n] \in Nat \ {0}
      PROVE  Reached(0, starts) = 0
  <2>1. {n \in DOMAIN starts : 0 >= starts[n]} = {}
    BY <1>1
  <2> QED
    BY <2>1, FS_EmptySet, Zenon DEF Reached
<1>2. /\ popmWMPToStars(0) = 0 /\ popmITunesToStars(0) = 0
      /\ Reached(0, <<1, 13, 38, 63, 88>>) = 0
  BY <1>1 DEF popmWMPToStars, popmITunesToStars
<1>3. sharedUserRatingToStars(0) = 0
  BY <1>2 DEF sharedUserRatingToStars
<1>4. 0 \div One = 0 /\ 0 % One = 0
  BY DEF One
<1>5. ratingPercentToStars(0) = 0
  BY <1>2, <1>4 DEF ratingPercentToStars
<1>6. /\ popmMusicBeeToStars(0) = 0 /\ WholeStar(0, <<20, 40, 60, 80, 100>>) = 0
      /\ popmMediaMonkeyToStars(0) = 0
  BY DEF popmMediaMonkeyToStars, popmMusicBeeToStars, WholeStar
<1>7. 0 # NotANumber
  BY ValuesAssumption
<1>8. /\ ratingIntToStars(0) = 0 /\ ratingMusicBeeToStars(0) = 0
      /\ ~BadFmps(0) /\ ~BadPercent(0)
  BY <1>4, <1>6, <1>7
     DEF ratingIntToStars, ratingMusicBeeToStars, BadFmps, BadPercent, Whole, One
<1>9. fmpsToStars(0) = 0
  BY DEF fmpsToStars, One
<1> QED
  BY <1>2, <1>3, <1>5, <1>6, <1>7, <1>8, <1>9

LEMMA DecodedSays ==
    ASSUME NEW c \in Ratings, NEW stars \in Stars, NEW ss \in SUBSET Sources,
           NEW s \in ss, NEW v, v = 0 => stars = 0,
           Kept(c, s) \in {Unrated, Says(v, stars)}
    PROVE  Kept(Decoded(c, stars, isZeroValue(v), ss), s) = Says(v, stars)
<1>1. s \in Sources /\ isZeroValue(v) \in BOOLEAN /\ (isZeroValue(v) <=> v = 0)
  BY ZeroType
<1>2. Kept(Decoded(c, stars, isZeroValue(v), ss), s) =
          IF stars = 0 /\ v = 0 THEN Kept(c, s)
          ELSE IF stars > 0 THEN stars
          ELSE IF Kept(c, s) = Unrated THEN HalfStar ELSE Kept(c, s)
  BY <1>1, DecodedKept
<1> QED
  BY <1>2 DEF Says, Unrated, HalfStar, Stars

\* What the collector makes of a source: as SourceSays, but that the WMP frame
\* of an ID3v2 tag speaks for foobar2000 wherever that has no stars.
SourceHeard(fo, value, s) ==
    IF fo # "ID3v2" \/ s # "foobar2000" THEN SourceSays(fo, Names, value, s)
    ELSE LET foobar == FoobarSays(value["RATING"])
             wmp == WmpSays(value["WMP"])
         IN  IF foobar > 0 \/ wmp = Unrated THEN foobar ELSE wmp

\* What the collector holds in a pass: RATE, an own field, comes last.
HeardIn(ph, fo, value, s) ==
    IF ph = "first" /\ s = "MediaMonkey" THEN FmpsSays(value["FMPS_RATING"])
    ELSE SourceHeard(fo, value, s)

Hears(c, ph, fo, value) == \A s \in Sources : Kept(c, s) = HeardIn(ph, fo, value, s)

\* The values of fields that come in the second pass.
Waiting(fo, value) ==
    /\ fo = "Vorbis" => value["RATING"] = 0
    /\ fo = "ID3v2" => \A n \in {"WMP", "iTunes", "MusicBee", "no@email"} :
                           value[n] = 0

LEMMA HearsFmps ==
    ASSUME NEW c \in Ratings, NEW fo \in Formats, NEW value \in [Names -> Text],
           NEW v \in Text, value["FMPS_RATING"] \in {0, v},
           Hears(c, "first", fo, value), Waiting(fo, value)
    PROVE  Hears(Fmps(c, v), "first", fo, [value EXCEPT !["FMPS_RATING"] = v])
<1> DEFINE new == [value EXCEPT !["FMPS_RATING"] = v]
           ss == {"FMPS", "MediaMonkey"}
<1>1. /\ new["FMPS_RATING"] = v
      /\ \A n \in Names \ {"FMPS_RATING"} : new[n] = value[n]
  BY DEF Names
<1>2. ss \in SUBSET Sources
  BY DEF Sources
<1>3. \A s \in ss : Kept(c, s) = FmpsSays(value["FMPS_RATING"])
  BY <1>2 DEF Hears, HeardIn, SourceHeard, SourceSays
<1>4. FmpsSays(0) = Unrated
  BY ZeroStars DEF FmpsSays, Says
<1>5. \A s \in ss : Kept(Fmps(c, v), s) = FmpsSays(v)
  <2> TAKE s \in ss
  <2>1. CASE BadFmps(v)
    BY <1>2, <1>3, <1>4, <2>1, InvalidKept DEF Fmps, FmpsSays
  <2>2. CASE ~BadFmps(v)
    BY <1>2, <1>3, <1>4, <2>2, FmpsType, ZeroStars, DecodedSays DEF Fmps, FmpsSays
  <2> QED
    BY <2>1, <2>2
<1>6. \A s \in Sources \ ss : Kept(Fmps(c, v), s) = Kept(c, s)
  <2> TAKE s \in Sources \ ss
  <2>1. CASE BadFmps(v)
    BY <1>2, <2>1, InvalidOthers DEF Fmps
  <2>2. CASE ~BadFmps(v)
    BY <1>2, <2>2, FmpsType, DecodedKept, ZeroType DEF Fmps
  <2> QED
    BY <2>1, <2>2
<1>7. \A s \in Sources \ ss : HeardIn("first", fo, new, s) = HeardIn("first", fo, value, s)
  BY <1>1 DEF HeardIn, SourceHeard, SourceSays, Names
<1>8. \A s \in ss : HeardIn("first", fo, new, s) = FmpsSays(v)
  BY <1>1 DEF HeardIn, SourceHeard, SourceSays
<1> HIDE DEF new
<1>9. \A s \in Sources : Kept(Fmps(c, v), s) = HeardIn("first", fo, new, s)
  BY <1>5, <1>6, <1>7, <1>8 DEF Hears
<1> QED
  BY <1>9 DEF Hears, new

LEMMA HearsFoobar ==
    ASSUME NEW c \in Ratings, NEW fo \in {"ID3v2", "MP4"},
           NEW value \in [Names -> Text],
           NEW v \in Text, value["RATING"] \in {0, v},
           Hears(c, "first", fo, value), Waiting(fo, value)
    PROVE  Hears(Decoded(c, ratingIntToStars(v), isZeroValue(v), {"foobar2000"}),
                 "first", fo, [value EXCEPT !["RATING"] = v])
<1> DEFINE new == [value EXCEPT !["RATING"] = v]
           d == Decoded(c, ratingIntToStars(v), isZeroValue(v), {"foobar2000"})
<1>1. new["RATING"] = v /\ \A n \in Names \ {"RATING"} : new[n] = value[n]
  BY DEF Names
<1>2. "foobar2000" \in Sources /\ {"foobar2000"} \in SUBSET Sources
  BY DEF Sources
<1>3. /\ FoobarSays(0) = Unrated
      /\ fo = "ID3v2" => WmpSays(value["WMP"]) = Unrated
  BY ZeroStars DEF FoobarSays, WmpSays, Says, Waiting
<1>4. \A x : fo = "ID3v2" =>
          (IF x > 0 \/ WmpSays(value["WMP"]) = Unrated THEN x
           ELSE WmpSays(value["WMP"])) = x
  BY <1>3
<1>5. /\ HeardIn("first", fo, value, "foobar2000") = FoobarSays(value["RATING"])
      /\ HeardIn("first", fo, new, "foobar2000") = FoobarSays(v)
  BY <1>1, <1>3, <1>4 DEF HeardIn, SourceHeard, SourceSays, Names
<1>6. Kept(c, "foobar2000") \in {Unrated, Says(v, ratingIntToStars(v))}
  BY <1>2, <1>3, <1>5 DEF Hears, FoobarSays
<1>7. Kept(d, "foobar2000") = FoobarSays(v)
  BY <1>2, <1>6, ConverterTypes, ZeroStars, DecodedSays DEF FoobarSays
<1>8. \A s \in Sources \ {"foobar2000"} :
          /\ Kept(d, s) = Kept(c, s)
          /\ HeardIn("first", fo, new, s) = HeardIn("first", fo, value, s)
  <2> TAKE s \in Sources \ {"foobar2000"}
  <2>1. Kept(d, s) = Kept(c, s)
    BY <1>2, ConverterTypes, ZeroType, DecodedKept
  <2>2. HeardIn("first", fo, new, s) = HeardIn("first", fo, value, s)
    BY <1>1 DEF HeardIn, SourceHeard, SourceSays, Names, Sources
  <2> QED
    BY <2>1, <2>2
<1> HIDE DEF new, d
<1>9. \A s \in Sources : Kept(d, s) = HeardIn("first", fo, new, s)
  BY <1>5, <1>7, <1>8 DEF Hears
<1> QED
  BY <1>9 DEF Hears, new, d

LEMMA HearsWmp ==
    ASSUME NEW c \in Ratings, NEW value \in [Names -> Text],
           NEW b \in Bytes, value["WMP"] \in {0, b},
           Hears(c, "second", "ID3v2", value),
           NEW ss, ss = {"WMP"} \union
                        IF c.found["foobar2000"] > 0 THEN {} ELSE {"foobar2000"}
    PROVE  Hears(Set(c, popmWMPToStars(b), ss),
                 "second", "ID3v2", [value EXCEPT !["WMP"] = b])
<1> DEFINE new == [value EXCEPT !["WMP"] = b]
           stars == popmWMPToStars(b)
           d == Set(c, stars, ss)
           rating == value["RATING"]
           says(x) == IF FoobarSays(rating) > 0 \/ WmpSays(x) = Unrated
                      THEN FoobarSays(rating) ELSE WmpSays(x)
<1>1. new["WMP"] = b /\ \A n \in Names \ {"WMP"} : new[n] = value[n]
  BY DEF Names
<1>2. ss \in SUBSET Sources /\ stars \in Stars
  BY ConverterTypes DEF Sources
<1>3. /\ b = 0 => stars = 0
      /\ b # 0 => stars > 0
  BY ZeroStars, BytesRate, ValuesAssumption
<1>4. WmpSays(b) = stars /\ WmpSays(0) = 0
  BY <1>2, <1>3, ZeroStars DEF WmpSays, Says, Unrated, Stars
<1>5. /\ HeardIn("second", "ID3v2", value, "WMP") = WmpSays(value["WMP"])
      /\ HeardIn("second", "ID3v2", new, "WMP") = WmpSays(b)
      /\ HeardIn("second", "ID3v2", value, "foobar2000") = says(value["WMP"])
      /\ HeardIn("second", "ID3v2", new, "foobar2000") = says(b)
  BY <1>1 DEF HeardIn, SourceHeard, SourceSays, Names
<1>6. \A s \in Sources : Kept(d, s) = IF s \in ss /\ stars > 0 THEN stars
                                      ELSE Kept(c, s)
  BY <1>2, SetKept
<1>7. Kept(d, "WMP") = WmpSays(b)
  <2>1. Kept(c, "WMP") = WmpSays(value["WMP"])
    BY <1>5 DEF Hears, Sources
  <2> QED
    BY <1>2, <1>3, <1>4, <1>6, <2>1 DEF Sources, Stars
<1>8. Kept(d, "foobar2000") = says(b)
  <2>1. Kept(c, "foobar2000") = says(value["WMP"])
    BY <1>5 DEF Hears, Sources
  <2>2. Kept(c, "foobar2000") > 0 <=> c.found["foobar2000"] > 0
    BY DEF Kept, Ratings, Stars, Sources, Unrated, HalfStar, Broken
  <2>3. FoobarSays(rating) \in Int
    BY ConverterTypes DEF FoobarSays, Says, Unrated, HalfStar, Stars
  <2>4. CASE FoobarSays(rating) > 0
    <3>1. "foobar2000" \notin ss
      BY <2>1, <2>2, <2>4
    <3> QED
      BY <1>6, <2>1, <2>4, <3>1 DEF Sources
  <2>5. CASE ~(FoobarSays(rating) > 0) /\ stars = 0
    BY <1>2, <1>3, <1>4, <1>6, <2>1, <2>5 DEF Sources
  <2>6. CASE ~(FoobarSays(rating) > 0) /\ stars > 0
    <3>1. says(b) = stars
      BY <1>2, <1>4, <2>6 DEF Unrated, Stars
    <3>2. CASE "foobar2000" \in ss
      BY <1>6, <2>6, <3>1, <3>2 DEF Sources
    <3>3. CASE "foobar2000" \notin ss
      <4>1. says(value["WMP"]) > 0
        BY <2>1, <2>2, <3>3
      <4>2. value["WMP"] = b
        BY <1>4, <2>6, <4>1 DEF Unrated
      <4> QED
        BY <1>6, <2>1, <3>3, <4>2 DEF Sources
    <3> QED
      BY <3>2, <3>3
  <2> QED
    BY <1>2, <2>4, <2>5, <2>6 DEF Stars
<1>9. \A s \in Sources \ {"WMP", "foobar2000"} :
          /\ Kept(d, s) = Kept(c, s)
          /\ HeardIn("second", "ID3v2", new, s) = HeardIn("second", "ID3v2", value, s)
  <2> TAKE s \in Sources \ {"WMP", "foobar2000"}
  <2>1. Kept(d, s) = Kept(c, s)
    BY <1>6
  <2>2. HeardIn("second", "ID3v2", new, s) = HeardIn("second", "ID3v2", value, s)
    BY <1>1 DEF HeardIn, SourceHeard, SourceSays, Names, Sources
  <2> QED
    BY <2>1, <2>2
<1> HIDE DEF new, d, says
<1>10. \A s \in Sources : Kept(d, s) = HeardIn("second", "ID3v2", new, s)
  BY <1>5, <1>7, <1>8, <1>9 DEF Hears
<1> QED
  BY <1>10 DEF Hears, new, d, stars

\* The POPM frames of iTunes and MusicBee.
LEMMA HearsFrame ==
    ASSUME NEW c \in Ratings, NEW value \in [Names -> Text], NEW b \in Bytes,
           Hears(c, "second", "ID3v2", value),
           NEW s1 \in {"iTunes", "MusicBee"}, value[s1] \in {0, b},
           NEW d, d = IF s1 = "iTunes" THEN Set(c, popmITunesToStars(b), {s1})
                      ELSE Decoded(c, popmMusicBeeToStars(b), isZeroValue(b), {s1})
    PROVE  Hears(d, "second", "ID3v2", [value EXCEPT ![s1] = b])
<1> DEFINE new == [value EXCEPT ![s1] = b]
<1>1. /\ s1 \in Names /\ s1 \in Sources /\ {s1} \in SUBSET Sources
      /\ new[s1] = b /\ \A n \in Names \ {s1} : new[n] = value[n]
  BY DEF Names, Sources
<1>2. \A x : x = 0 => ITunesSays(x) = Unrated /\ MusicBeeSays(x) = Unrated
  BY ZeroStars DEF ITunesSays, MusicBeeSays, Says
<1>3. CASE s1 = "iTunes"
  <2>1. /\ HeardIn("second", "ID3v2", value, s1) = ITunesSays(value[s1])
        /\ HeardIn("second", "ID3v2", new, s1) = ITunesSays(b)
    BY <1>1, <1>3 DEF HeardIn, SourceHeard, SourceSays
  <2>2. \A s \in Sources \ {s1} :
          HeardIn("second", "ID3v2", new, s) = HeardIn("second", "ID3v2", value, s)
    BY <1>1, <1>3 DEF HeardIn, SourceHeard, SourceSays, Names, Sources
  <2>3. popmITunesToStars(b) \in Stars
    BY ConverterTypes
  <2>4. b # 0 => popmITunesToStars(b) > 0
    BY BytesRate, ValuesAssumption
  <2>5. \A s \in Sources : Kept(d, s) =
           IF s = s1 /\ popmITunesToStars(b) > 0 THEN popmITunesToStars(b)
           ELSE Kept(c, s)
    BY <1>1, <1>3, <2>3, SetKept
  <2>6. Kept(d, s1) = ITunesSays(b)
    BY <1>1, <1>2, <2>1, <2>3, <2>4, <2>5, ZeroStars
       DEF Hears, ITunesSays, Says, Unrated
  <2> HIDE DEF new
  <2>7. \A s \in Sources : Kept(d, s) = HeardIn("second", "ID3v2", new, s)
    BY <2>1, <2>2, <2>5, <2>6 DEF Hears
  <2> QED
    BY <2>7 DEF Hears, new
<1>4. CASE s1 = "MusicBee"
  <2>1. /\ HeardIn("second", "ID3v2", value, s1) = MusicBeeSays(value[s1])
        /\ HeardIn("second", "ID3v2", new, s1) = MusicBeeSays(b)
    BY <1>1, <1>4 DEF HeardIn, SourceHeard, SourceSays
  <2>2. \A s \in Sources \ {s1} :
          HeardIn("second", "ID3v2", new, s) = HeardIn("second", "ID3v2", value, s)
    BY <1>1, <1>4 DEF HeardIn, SourceHeard, SourceSays, Names, Sources
  <2>3. d = Decoded(c, popmMusicBeeToStars(b), isZeroValue(b), {s1})
    BY <1>4
  <2>4. Kept(c, s1) \in {Unrated, Says(b, popmMusicBeeToStars(b))}
    BY <1>1, <1>2, <2>1 DEF Hears, MusicBeeSays
  <2>5. Kept(d, s1) = MusicBeeSays(b)
    BY <1>1, <2>3, <2>4, ConverterTypes, ZeroStars, DecodedSays DEF MusicBeeSays
  <2>6. \A s \in Sources \ {s1} : Kept(d, s) = Kept(c, s)
    BY <1>1, <2>3, ConverterTypes, ZeroType, DecodedKept
  <2> HIDE DEF new
  <2>7. \A s \in Sources : Kept(d, s) = HeardIn("second", "ID3v2", new, s)
    BY <2>1, <2>2, <2>5, <2>6 DEF Hears
  <2> QED
    BY <2>7 DEF Hears, new
<1> QED
  BY <1>3, <1>4

LEMMA HearsMediaMonkey ==
    ASSUME NEW c \in Ratings, NEW value \in [Names -> Text], NEW b \in Bytes,
           Hears(c, "second", "ID3v2", value), value["no@email"] \in {0, b}
    PROVE  Hears(Own(c, popmMediaMonkeyToStars(b), isZeroValue(b), "MediaMonkey"),
                 "second", "ID3v2", [value EXCEPT !["no@email"] = b])
<1> DEFINE new == [value EXCEPT !["no@email"] = b]
           s1 == "MediaMonkey"
           fmps == FmpsSays(value["FMPS_RATING"])
           stars == popmMediaMonkeyToStars(b)
           d == Own(c, stars, isZeroValue(b), s1)
<1>1. /\ s1 \in Sources /\ new["no@email"] = b
      /\ \A n \in Names \ {"no@email"} : new[n] = value[n]
  BY DEF Names, Sources
<1>2. /\ HeardIn("second", "ID3v2", value, s1)
            = First(MediaMonkeySays(value["no@email"]), fmps)
      /\ HeardIn("second", "ID3v2", new, s1) = First(MediaMonkeySays(b), fmps)
  BY <1>1 DEF HeardIn, SourceHeard, SourceSays, Names
<1>3. \A s \in Sources \ {s1} :
        HeardIn("second", "ID3v2", new, s) = HeardIn("second", "ID3v2", value, s)
  BY <1>1 DEF HeardIn, SourceHeard, SourceSays, Names, Sources
<1>4. stars \in Stars /\ (b = 0 => stars = 0)
  BY ConverterTypes, ZeroStars
<1>5. \A s \in Sources : Kept(d, s) =
          IF s # s1 \/ (stars = 0 /\ b = 0) THEN Kept(c, s)
          ELSE IF stars > 0 THEN stars ELSE HalfStar
  BY <1>1, <1>4, ZeroType, OwnKept
<1>6. Kept(d, s1) = First(MediaMonkeySays(b), fmps)
  <2>1. CASE b = 0
    BY <1>1, <1>2, <1>4, <1>5, <2>1 DEF Hears
  <2>2. CASE b # 0
    BY <1>1, <1>4, <1>5, <2>2
       DEF First, MediaMonkeySays, Says, Unrated, HalfStar, Stars
  <2> QED
    BY <2>1, <2>2
<1> HIDE DEF new, d
<1>7. \A s \in Sources : Kept(d, s) = HeardIn("second", "ID3v2", new, s)
  BY <1>2, <1>3, <1>5, <1>6 DEF Hears
<1> QED
  BY <1>7 DEF Hears, new, d, stars

LEMMA HearsVorbisRating ==
    ASSUME NEW r0 \in Ratings, NEW value \in [Names -> Text], NEW v \in Text,
           Hears(r0, "second", "Vorbis", value), value["RATING"] = 0,
           NEW foobar, foobar = ratingIntToStars(v),
           NEW stars, stars = ratingMusicBeeToStars(v),
           NEW b, b = Decoded(r0, foobar, isZeroValue(v), {"foobar2000"}),
           NEW c, c = Decoded(b, stars, isZeroValue(v), {"MusicBee"}),
           NEW d, d = IF foobar > 0
                      THEN Decoded(c, stars, isZeroValue(v), {"MediaMonkey"})
                      ELSE Own(c, stars, isZeroValue(v), "MediaMonkey")
    PROVE  Hears(d, "second", "Vorbis", [value EXCEPT !["RATING"] = v])
<1> DEFINE new == [value EXCEPT !["RATING"] = v]
           fmps == FmpsSays(value["FMPS_RATING"])
           monkey == CASE FoobarSays(v) \notin 1..5 -> First(ScaleSays(v), fmps)
                       [] FoobarSays(v) \in 1..5 /\ fmps = Unrated -> HalfStar
                       [] OTHER -> fmps
<1>1. new["RATING"] = v /\ \A n \in Names \ {"RATING"} : new[n] = value[n]
  BY DEF Names
<1>2. /\ HeardIn("second", "Vorbis", new, "foobar2000") = FoobarSays(v)
      /\ HeardIn("second", "Vorbis", new, "MusicBee") = ScaleSays(v)
      /\ HeardIn("second", "Vorbis", new, "MediaMonkey") = monkey
  BY <1>1 DEF HeardIn, SourceHeard, SourceSays, Names
<1>3. ScaleSays(0) = Unrated /\ FoobarSays(0) = Unrated
  BY ZeroStars DEF ScaleSays, FoobarSays, Says
<1>4. /\ HeardIn("second", "Vorbis", value, "foobar2000") = Unrated
      /\ HeardIn("second", "Vorbis", value, "MusicBee") = Unrated
  BY <1>3 DEF HeardIn, SourceHeard, SourceSays
<1>5. HeardIn("second", "Vorbis", value, "MediaMonkey") = fmps
  <2>1. FoobarSays(value["RATING"]) \notin 1..5
    BY <1>3 DEF Unrated
  <2>2. First(ScaleSays(value["RATING"]), fmps) = fmps
    BY <1>3 DEF First
  <2> QED
    BY <2>1, <2>2 DEF HeardIn, SourceHeard, SourceSays
<1>6. \A s \in Sources \ {"foobar2000", "MusicBee", "MediaMonkey"} :
         HeardIn("second", "Vorbis", new, s) = HeardIn("second", "Vorbis", value, s)
  BY <1>1 DEF HeardIn, SourceHeard, SourceSays, Names, Sources
<1>7. /\ foobar \in Stars /\ stars \in Stars
      /\ v = 0 => foobar = 0 /\ stars = 0
      /\ isZeroValue(v) \in BOOLEAN /\ (isZeroValue(v) <=> v = 0)
  BY ConverterTypes, ZeroStars, ZeroType
<1>8. foobar > 0 => stars = 0
  <2> SUFFICES ASSUME foobar > 0 PROVE stars = 0
    OBVIOUS
  <2>1. v \div One \in 1..5
    BY DEF ratingIntToStars
  <2>2. WholeStar(v \div One, <<20, 40, 60, 80, 100>>) = 0
    BY <2>1 DEF WholeStar
  <2> QED
    BY <2>2 DEF ratingMusicBeeToStars
<1>9. /\ b \in Ratings
      /\ \A s \in Sources \ {"foobar2000"} : Kept(b, s) = Kept(r0, s)
      /\ Kept(b, "foobar2000") = FoobarSays(v)
  <2>1. {"foobar2000"} \in SUBSET Sources /\ "foobar2000" \in Sources
    BY DEF Sources
  <2>2. Kept(r0, "foobar2000") = Unrated
    BY <1>4, <2>1 DEF Hears
  <2>3. \A s \in Sources \ {"foobar2000"} : Kept(b, s) = Kept(r0, s)
    BY <1>7, <2>1, DecodedKept
  <2> QED
    BY <1>7, <2>1, <2>2, <2>3, DecodedFacts, DecodedSays DEF FoobarSays
<1>10. /\ c \in Ratings
       /\ \A s \in Sources \ {"MusicBee"} : Kept(c, s) = Kept(b, s)
       /\ Kept(c, "MusicBee") = ScaleSays(v)
  <2>1. {"MusicBee"} \in SUBSET Sources /\ "MusicBee" \in Sources
    BY DEF Sources
  <2>2. Kept(b, "MusicBee") = Unrated
    BY <1>4, <1>9, <2>1 DEF Hears
  <2>3. \A s \in Sources \ {"MusicBee"} : Kept(c, s) = Kept(b, s)
    BY <1>7, <1>9, <2>1, DecodedKept
  <2> QED
    BY <1>7, <1>9, <2>1, <2>2, <2>3, DecodedFacts, DecodedSays DEF ScaleSays
<1>11. Kept(c, "MediaMonkey") = fmps
  BY <1>5, <1>9, <1>10 DEF Hears, Sources
<1>12. /\ \A s \in Sources \ {"MediaMonkey"} : Kept(d, s) = Kept(c, s)
       /\ Kept(d, "MediaMonkey") = monkey
  <2>1. {"MediaMonkey"} \in SUBSET Sources /\ "MediaMonkey" \in Sources
    BY DEF Sources
  <2>2. CASE foobar > 0
    <3>1. \A s \in Sources : Kept(d, s) =
             IF s \notin {"MediaMonkey"} THEN Kept(c, s)
             ELSE IF Kept(c, s) = Unrated THEN HalfStar ELSE Kept(c, s)
      <4> TAKE s \in Sources
      <4>1. Kept(Decoded(c, stars, isZeroValue(v), {"MediaMonkey"}), s) =
               IF s \notin {"MediaMonkey"} \/ (stars = 0 /\ isZeroValue(v))
               THEN Kept(c, s)
               ELSE IF stars > 0 THEN stars
               ELSE IF Kept(c, s) = Unrated THEN HalfStar ELSE Kept(c, s)
        BY <1>7, <1>10, <2>1, DecodedKept
      <4> QED
        BY <1>7, <1>8, <2>2, <4>1
    <3>2. FoobarSays(v) \in 1..5
      BY <1>7, <2>2 DEF FoobarSays, Says, Stars
    <3> QED
      BY <1>11, <2>1, <3>1, <3>2
  <2>3. CASE ~(foobar > 0)
    <3>1. \A s \in Sources : Kept(d, s) =
             IF s # "MediaMonkey" \/ (stars = 0 /\ v = 0) THEN Kept(c, s)
             ELSE IF stars > 0 THEN stars ELSE HalfStar
      BY <1>7, <1>10, <2>1, <2>3, OwnKept
    <3>2. FoobarSays(v) \notin 1..5
      BY <2>3 DEF FoobarSays, Says, Unrated, HalfStar
    <3>3. v = 0 => First(ScaleSays(v), fmps) = fmps
      BY <1>3 DEF First
    <3>4. v # 0 => First(ScaleSays(v), fmps) = IF stars > 0 THEN stars ELSE HalfStar
      BY <1>7 DEF First, ScaleSays, Says, Unrated, HalfStar, Stars
    <3> QED
      BY <1>7, <1>11, <2>1, <3>1, <3>2, <3>3, <3>4
  <2> QED
    BY <2>2, <2>3
<1> HIDE DEF new, monkey
<1>13. \A s \in Sources : Kept(d, s) = HeardIn("second", "Vorbis", new, s)
  BY <1>2, <1>6, <1>9, <1>10, <1>12 DEF Hears, Sources
<1> QED
  BY <1>13 DEF Hears, new

\* The atom of iTunes and WM/SharedUserRating may be off their scale.
LEMMA HearsChecked ==
    ASSUME NEW c \in Ratings, NEW value \in [Names -> Text], NEW v \in Text,
           NEW fo \in {"MP4", "ASF"}, Hears(c, "first", fo, value),
           NEW n, n = IF fo = "MP4" THEN "rating" ELSE "WM/SharedUserRating",
           value[n] \in {0, v},
           NEW ss, ss = IF fo = "MP4" THEN {"iTunes"} ELSE {"WMP", "MusicBee"},
           NEW bad \in BOOLEAN,
           bad <=> IF fo = "MP4" THEN BadPercent(v) ELSE v = NotANumber,
           NEW d,
           d = CASE bad -> Invalid(c, ss)
                 [] ~bad /\ fo = "MP4" -> Set(c, ratingPercentToStars(v), ss)
                 [] OTHER -> Decoded(c, sharedUserRatingToStars(v),
                                     isZeroValue(v), ss)
    PROVE  Hears(d, "first", fo, [value EXCEPT ![n] = v])
<1> DEFINE new == [value EXCEPT ![n] = v]
           says(x) == IF fo = "MP4" THEN PercentSays(x) ELSE SharedSays(x)
<1>1. /\ n \in Names /\ ss \in SUBSET Sources
      /\ new[n] = v /\ \A m \in Names \ {n} : new[m] = value[m]
  BY DEF Names, Sources
<1>2. \A s \in ss : /\ HeardIn("first", fo, value, s) = says(value[n])
                    /\ HeardIn("first", fo, new, s) = says(v)
  BY <1>1 DEF HeardIn, SourceHeard, SourceSays
<1>3. \A s \in Sources \ ss :
         HeardIn("first", fo, new, s) = HeardIn("first", fo, value, s)
  BY <1>1 DEF HeardIn, SourceHeard, SourceSays, Names, Sources
<1>4. says(0) = Unrated
  BY ZeroStars DEF PercentSays, SharedSays, Says
<1>5. \A s \in ss : Kept(c, s) \in {Unrated, says(v)}
  BY <1>1, <1>2, <1>4 DEF Hears
<1>6. CASE bad
  <2>1. says(v) = Broken
    BY <1>6 DEF PercentSays, SharedSays
  <2>2. \A s \in ss : Kept(d, s) = Broken
    BY <1>1, <1>5, <1>6, <2>1, InvalidKept
  <2>3. \A s \in Sources \ ss : Kept(d, s) = Kept(c, s)
    BY <1>1, <1>6, InvalidOthers
  <2> HIDE DEF new, says
  <2>4. \A s \in Sources : Kept(d, s) = HeardIn("first", fo, new, s)
    BY <1>2, <1>3, <2>1, <2>2, <2>3 DEF Hears
  <2> QED
    BY <2>4 DEF Hears, new
<1>7. CASE ~bad /\ fo = "MP4"
  <2> DEFINE stars == ratingPercentToStars(v)
  <2>1. /\ stars \in Stars /\ (v # 0 => stars > 0) /\ (v = 0 => stars = 0)
        /\ says(v) = Says(v, stars)
    BY <1>7, ConverterTypes, PercentRates, ZeroStars DEF PercentSays
  <2> HIDE DEF stars
  <2>2. \A s \in Sources : Kept(d, s) =
           IF s \in ss /\ stars > 0 THEN stars ELSE Kept(c, s)
    BY <1>1, <1>7, <2>1, SetKept DEF stars
  <2>3. \A s \in ss : Kept(d, s) = says(v)
    BY <1>1, <1>5, <2>1, <2>2 DEF Says, Unrated
  <2> HIDE DEF new, says
  <2>4. \A s \in Sources : Kept(d, s) = HeardIn("first", fo, new, s)
    BY <1>2, <1>3, <2>2, <2>3 DEF Hears
  <2> QED
    BY <2>4 DEF Hears, new
<1>8. CASE ~bad /\ fo = "ASF"
  <2> DEFINE stars == sharedUserRatingToStars(v)
  <2>1. /\ stars \in Stars /\ (v = 0 => stars = 0) /\ says(v) = Says(v, stars)
        /\ d = Decoded(c, stars, isZeroValue(v), ss)
    BY <1>8, ConverterTypes, ZeroStars DEF SharedSays
  <2> HIDE DEF stars
  <2>2. \A s \in ss : Kept(d, s) = says(v)
    BY <1>1, <1>5, <2>1, DecodedSays
  <2>3. \A s \in Sources \ ss : Kept(d, s) = Kept(c, s)
    BY <1>1, <2>1, ZeroType, DecodedKept
  <2> HIDE DEF new, says
  <2>4. \A s \in Sources : Kept(d, s) = HeardIn("first", fo, new, s)
    BY <1>2, <1>3, <2>2, <2>3 DEF Hears
  <2> QED
    BY <2>4 DEF Hears, new
<1> QED
  BY <1>6, <1>7, <1>8

LEMMA HearsRate ==
    ASSUME NEW c \in Ratings, NEW value \in [Names -> Text], NEW v \in Text,
           Hears(c, "first", "MP4", value), value["RATE"] \in {0, v}
    PROVE  Hears(Decoded(c, ratingMusicBeeToStars(v), isZeroValue(v), {"MusicBee"}),
                 "first", "MP4", [value EXCEPT !["RATE"] = v])
<1> DEFINE new == [value EXCEPT !["RATE"] = v]
           s1 == "MusicBee"
           d == Decoded(c, ratingMusicBeeToStars(v), isZeroValue(v), {s1})
<1>1. /\ s1 \in Sources /\ {s1} \in SUBSET Sources /\ new["RATE"] = v
      /\ \A n \in Names \ {"RATE"} : new[n] = value[n]
  BY DEF Names, Sources
<1>2. /\ HeardIn("first", "MP4", value, s1) = ScaleSays(value["RATE"])
      /\ HeardIn("first", "MP4", new, s1) = ScaleSays(v)
  BY <1>1 DEF HeardIn, SourceHeard, SourceSays
<1>3. \A s \in Sources \ {s1} :
         HeardIn("first", "MP4", new, s) = HeardIn("first", "MP4", value, s)
  BY <1>1 DEF HeardIn, SourceHeard, SourceSays, Names, Sources
<1>4. Kept(c, s1) \in {Unrated, Says(v, ratingMusicBeeToStars(v))}
  BY <1>1, <1>2, ZeroStars DEF Hears, ScaleSays, Says
<1>5. Kept(d, s1) = ScaleSays(v)
  BY <1>1, <1>4, ConverterTypes, ZeroStars, DecodedSays DEF ScaleSays
<1>6. \A s \in Sources \ {s1} : Kept(d, s) = Kept(c, s)
  BY <1>1, ConverterTypes, ZeroType, DecodedKept
<1> HIDE DEF new, d
<1>7. \A s \in Sources : Kept(d, s) = HeardIn("first", "MP4", new, s)
  BY <1>2, <1>3, <1>5, <1>6 DEF Hears
<1> QED
  BY <1>7 DEF Hears, new, d

\* At the end of the first pass RATE is heard as MediaMonkey's own field.
LEMMA HearsFirstPass ==
    ASSUME NEW c \in Ratings, NEW fo \in Formats, NEW value \in [Names -> Text],
           Hears(c, "first", fo, value), Waiting(fo, value),
           NEW d, d = IF fo # "MP4" \/ value["RATE"] = 0 THEN c
                      ELSE Own(c, ratingMusicBeeToStars(value["RATE"]),
                               isZeroValue(value["RATE"]), "MediaMonkey")
    PROVE  Hears(d, "second", fo, value)
<1> DEFINE s1 == "MediaMonkey"
           fmps == FmpsSays(value["FMPS_RATING"])
           v == value["RATE"]
           stars == ratingMusicBeeToStars(v)
<1>1. s1 \in Sources /\ stars \in Stars
  BY ConverterTypes DEF Sources
<1>2. \A s \in Sources \ {s1} :
         HeardIn("second", fo, value, s) = HeardIn("first", fo, value, s)
  BY DEF HeardIn
<1>3. Kept(c, s1) = fmps
  BY <1>1 DEF Hears, HeardIn
<1>4. /\ ScaleSays(0) = Unrated /\ MediaMonkeySays(0) = Unrated
      /\ FoobarSays(0) \notin 1..5
  BY ZeroStars DEF ScaleSays, MediaMonkeySays, FoobarSays, Says, Unrated
<1>5. First(Unrated, fmps) = fmps
  BY DEF First
<1>6. CASE fo # "MP4" \/ v = 0
  <2>1. SourceHeard(fo, value, s1) = fmps
    <3>1. fo = "ID3v2" => SourceHeard(fo, value, s1) = fmps
      BY <1>4, <1>5 DEF SourceHeard, SourceSays, Waiting
    <3>2. fo = "Vorbis" => SourceHeard(fo, value, s1) = fmps
      BY <1>4, <1>5 DEF SourceHeard, SourceSays, Waiting
    <3>3. fo = "MP4" => SourceHeard(fo, value, s1) = fmps
      BY <1>4, <1>5, <1>6 DEF SourceHeard, SourceSays
    <3>4. fo = "ASF" => SourceHeard(fo, value, s1) = fmps
      BY DEF SourceHeard, SourceSays
    <3> QED
      BY <3>1, <3>2, <3>3, <3>4 DEF Formats
  <2>2. HeardIn("second", fo, value, s1) = fmps
    BY <2>1 DEF HeardIn
  <2> QED
    BY <1>2, <1>3, <1>6, <2>2 DEF Hears
<1>7. CASE fo = "MP4" /\ v # 0
  <2>1. \A s \in Sources : Kept(d, s) =
           IF s # s1 THEN Kept(c, s)
           ELSE IF stars > 0 THEN stars ELSE HalfStar
    BY <1>1, <1>7, ZeroType, OwnKept
  <2>2. HeardIn("second", fo, value, s1) = First(ScaleSays(v), fmps)
    BY <1>7 DEF HeardIn, SourceHeard, SourceSays
  <2>3. First(ScaleSays(v), fmps) = IF stars > 0 THEN stars ELSE HalfStar
    BY <1>1, <1>7 DEF First, ScaleSays, Says, Unrated, HalfStar, Stars
  <2> HIDE DEF stars, v
  <2> QED
    BY <1>1, <1>2, <2>1, <2>2, <2>3 DEF Hears
<1> QED
  BY <1>6, <1>7

\* The fields read so far are those of the pass, and the collector holds
\* what they say.
PassOfField ==
    /\ phase = "first" =>
          \A f \in read :
             /\ format = "Vorbis" => f.name # "RATING"
             /\ format = "ID3v2" =>
                   f.name \notin {"WMP", "iTunes", "MusicBee", "no@email"}
    /\ rate = None => \A f \in read : f.name # "RATE"
    /\ rate # None => \E f \in read : f.name = "RATE" /\ f.value = rate

\* The answer of the first source that has one, if says are all of them.
Answer(p, says, answers, least) ==
    CASE answers # {} /\ says[least] = Broken -> p = FileUnreadable
      [] answers # {} /\ says[least] # Broken -> p = TagFound(says[least])
      [] answers = {} /\ \E i \in DOMAIN says : says[i] = HalfStar ->
           p = TagNotWholeStar
      [] OTHER -> p = TagAbsent

Lowest(S) == CHOOSE i \in S : \A j \in S : i <= j

\* The answer to an order of sources, from the values of the fields.
AnswerTo(order, fo, value, p) ==
    LET says == [i \in DOMAIN order |-> SourceHeard(fo, value, order[i])]
        answers == {i \in DOMAIN says : says[i] \in 1..5 \union {Broken}}
    IN  Answer(p, says, answers, Lowest(answers))

ReadAsHeard ==
    phase = "picked" /\ NamedOnce => AnswerTo(tagOrder, format, Values, reading)

HeardInv ==
    /\ PassOfField
    /\ NamedOnce /\ phase \in {"first", "second"} =>
          Hears(r, phase, format, Values)
    /\ ReadAsHeard

LEMMA ValuesType == TagInv => Values \in [Names -> Text]
<1> SUFFICES ASSUME TagInv, NEW n \in Names, \E f \in read : f.name = n
             PROVE  (CHOOSE f \in read : f.name = n).value \in Text
  BY DEF Values, Text
<1>1. (CHOOSE f \in read : f.name = n) \in Field
  BY DEF TagInv, TagTypeOK
<1> QED
  BY <1>1 DEF Field

LEMMA ValueOfField ==
    ASSUME TagInv, NamedOnce, NEW f \in read
    PROVE  Values[f.name] = f.value
<1>1. f.name \in Names
  BY DEF TagInv, TagTypeOK, Field
<1>2. \A g \in read : g.name = f.name => g = f
  BY DEF NamedOnce
<1>3. (CHOOSE g \in read : g.name = f.name) = f
  BY <1>2
<1> QED
  BY <1>1, <1>3 DEF Values

LEMMA NoField ==
    ASSUME NEW n \in Names, \A f \in read : f.name # n
    PROVE  Values[n] = 0
BY DEF Values

LEMMA ValuesWait ==
    ASSUME TagInv, HeardInv, phase = "first"
    PROVE  Waiting(format, Values)
BY NoField DEF HeardInv, PassOfField, Waiting, Names

\* One more field is one more value.
LEMMA FieldValue ==
    ASSUME TagInv, TagInv', HeardInv, NEW fo, NEW ph \in {"first", "second"},
           NEW n \in Names, NEW v \in Text, Reads(fo, ph, n, v), NamedOnce'
    PROVE  /\ Values \in [Names -> Text] /\ Values[n] \in {0, v}
           /\ Hears(r, ph, format, Values)
           /\ ph = "first" => Waiting(format, Values)
           /\ Values' = [Values EXCEPT ![n] = v]
<1> DEFINE f0 == [name |-> n, value |-> v]
<1>1. /\ read' = read \union {f0} /\ phase = ph /\ format = fo
      /\ f0.name = n /\ f0.value = v
  BY DEF Reads
<1>2. NamedOnce
  BY <1>1 DEF NamedOnce
<1> HIDE DEF f0
<1>3. Values[n] \in {0, v}
  <2>1. CASE \E f \in read : f.name = n
    <3>1. PICK f \in read : f.name = n
      BY <2>1
    <3>2. f = f0
      BY <1>1, <3>1 DEF NamedOnce
    <3> QED
      BY <1>1, <1>2, <3>1, <3>2, ValueOfField
  <2>2. CASE ~\E f \in read : f.name = n
    BY <2>2, NoField
  <2> QED
    BY <2>1, <2>2
<1>4. \A m \in Names :
         (IF \E f \in read' : f.name = m
          THEN (CHOOSE f \in read' : f.name = m).value ELSE 0)
         = IF m = n THEN v ELSE Values[m]
  <2> TAKE m \in Names
  <2>1. CASE m = n
    <3>1. \A g \in read' : g.name = n => g = f0
      BY <1>1 DEF NamedOnce
    <3>2. (CHOOSE g \in read' : g.name = n) = f0
      BY <1>1, <3>1
    <3> QED
      BY <1>1, <2>1, <3>2
  <2>2. CASE m # n /\ \E f \in read : f.name = m
    <3>1. PICK f \in read : f.name = m
      BY <2>2
    <3>2. f \in read' /\ \A g \in read' : g.name = m => g = f
      BY <1>1, <3>1 DEF NamedOnce
    <3>3. (CHOOSE g \in read' : g.name = m) = f
      BY <3>1, <3>2
    <3> QED
      BY <1>2, <2>2, <3>1, <3>2, <3>3, ValueOfField
  <2>3. CASE m # n /\ ~\E f \in read : f.name = m
    BY <1>1, <2>3, NoField
  <2> QED
    BY <2>1, <2>2, <2>3
<1>5. Values' = [m \in Names |-> IF m = n THEN v ELSE Values[m]]
  BY <1>4 DEF Values
<1>6. Values' = [Values EXCEPT ![n] = v]
  BY <1>5, ValuesType
<1> QED
  BY <1>1, <1>2, <1>3, <1>6, ValuesType, ValuesWait DEF HeardInv

\* What a field must do for the collector to hold what it says.
LEMMA FieldHeard ==
    ASSUME TagInv, TagInv', HeardInv, NEW fo, NEW ph \in {"first", "second"},
           NEW n \in Names, NEW v \in Text, Reads(fo, ph, n, v),
           rate' = IF n = "RATE" THEN v ELSE rate,
           ph = "first" =>
              /\ format = "Vorbis" => n # "RATING"
              /\ format = "ID3v2" =>
                    n \notin {"WMP", "iTunes", "MusicBee", "no@email"},
           NamedOnce' => Hears(r', ph, format, [Values EXCEPT ![n] = v])
    PROVE  HeardInv'
<1> DEFINE f0 == [name |-> n, value |-> v]
<1>1. /\ read' = read \union {f0} /\ phase = ph
      /\ UNCHANGED <<format, tagOrder, phase, reading>>
      /\ f0.name = n /\ f0.value = v
  BY DEF Reads
<1> HIDE DEF f0
<1>2. None # v
  BY ValueTypes
<1>3. PassOfField'
  BY <1>1, <1>2 DEF PassOfField, HeardInv
<1>4. NamedOnce' => Hears(r', phase', format', Values')
  <2> SUFFICES ASSUME NamedOnce' PROVE Hears(r', phase', format', Values')
    OBVIOUS
  <2>1. Values' = [Values EXCEPT ![n] = v]
    BY FieldValue
  <2> QED
    BY <1>1, <2>1
<1>5. ReadAsHeard'
  BY <1>1 DEF ReadAsHeard
<1> QED
  BY <1>3, <1>4, <1>5 DEF HeardInv, Hears

LEMMA FirstPassHeard ==
    ASSUME TagInv, TagInv', HeardInv, NEW v \in Texts,
           FmpsField(v) \/ TxxxRating(v) \/ FoobarAtom(v) \/ ITunesAtom(v)
           \/ RateAtom(v)
    PROVE  HeardInv'
<1>1. r \in Ratings /\ v \in Text /\ format \in Formats
  BY ValueTypes, Collected DEF TagInv, TagTypeOK
<1>2. CASE FmpsField(v)
  <2>1. /\ Reads(format, "first", "FMPS_RATING", v) /\ rate' = rate
        /\ r' = Fmps(r, v) /\ "FMPS_RATING" \in Names
    BY <1>2 DEF FmpsField, Names
  <2>2. NamedOnce' =>
           Hears(r', "first", format, [Values EXCEPT !["FMPS_RATING"] = v])
    BY <1>1, <2>1, FieldValue, HearsFmps
  <2> QED
    BY <1>1, <2>1, <2>2, FieldHeard
<1>3. CASE TxxxRating(v) \/ FoobarAtom(v)
  <2>1. /\ Reads("ID3v2", "first", "RATING", v)
           \/ Reads("MP4", "first", "RATING", v)
        /\ rate' = rate /\ "RATING" \in Names
        /\ r' = Decoded(r, ratingIntToStars(v), isZeroValue(v), {"foobar2000"})
    BY <1>3 DEF TxxxRating, FoobarAtom, Names
  <2>2. Reads(format, "first", "RATING", v) /\ format \in {"ID3v2", "MP4"}
    BY <2>1 DEF Reads
  <2>3. NamedOnce' => Hears(r', "first", format, [Values EXCEPT !["RATING"] = v])
    BY <1>1, <2>1, <2>2, FieldValue, HearsFoobar
  <2> QED
    BY <1>1, <2>1, <2>2, <2>3, FieldHeard
<1>4. CASE ITunesAtom(v)
  <2>1. /\ Reads("MP4", "first", "rating", v) /\ rate' = rate
        /\ "rating" \in Names /\ format = "MP4"
        /\ r' = IF BadPercent(v) THEN Invalid(r, {"iTunes"})
                ELSE Set(r, ratingPercentToStars(v), {"iTunes"})
    BY <1>4 DEF ITunesAtom, Names, Reads
  <2>2. ASSUME NamedOnce'
        PROVE  Hears(r', "first", format, [Values EXCEPT !["rating"] = v])
    <3> DEFINE value == Values
    <3>1. /\ value \in [Names -> Text] /\ value["rating"] \in {0, v}
          /\ Hears(r, "first", "MP4", value)
      BY <1>1, <2>1, <2>2, FieldValue
    <3> HIDE DEF value
    <3>2. BadPercent(v) \in BOOLEAN
      BY DEF BadPercent
    <3>3. Hears(r', "first", "MP4", [value EXCEPT !["rating"] = v])
      BY <1>1, <2>1, <3>1, <3>2, HearsChecked
    <3> QED
      BY <2>1, <3>3 DEF value
  <2> QED
    BY <1>1, <2>1, <2>2, FieldHeard
<1>5. CASE RateAtom(v)
  <2>1. /\ Reads("MP4", "first", "RATE", v) /\ rate' = v
        /\ r' = Decoded(r, ratingMusicBeeToStars(v), isZeroValue(v), {"MusicBee"})
        /\ "RATE" \in Names /\ format = "MP4"
    BY <1>5 DEF RateAtom, Names, Reads
  <2>2. NamedOnce' => Hears(r', "first", format, [Values EXCEPT !["RATE"] = v])
    BY <1>1, <2>1, FieldValue, HearsRate
  <2> QED
    BY <1>1, <2>1, <2>2, FieldHeard
<1> QED
  BY <1>2, <1>3, <1>4, <1>5

LEMMA SharedHeard ==
    ASSUME TagInv, TagInv', HeardInv, NEW v \in SharedRatings, SharedUserRating(v)
    PROVE  HeardInv'
<1> DEFINE n == "WM/SharedUserRating"
           ss == {"WMP", "MusicBee"}
<1>1. /\ Reads("ASF", "first", n, v) /\ rate' = rate
      /\ n \in Names /\ format = "ASF" /\ v \in Text /\ r \in Ratings
      /\ r' = IF v = NotANumber THEN Invalid(r, ss)
              ELSE Decoded(r, sharedUserRatingToStars(v), isZeroValue(v), ss)
  BY ValueTypes, Collected DEF SharedUserRating, Names, Reads
<1>2. ASSUME NamedOnce'
      PROVE  Hears(r', "first", format, [Values EXCEPT ![n] = v])
  <2> DEFINE value == Values
             bad == v = NotANumber
  <2>1. /\ value \in [Names -> Text] /\ value[n] \in {0, v}
        /\ Hears(r, "first", "ASF", value)
    BY <1>1, <1>2, FieldValue
  <2> HIDE DEF value
  <2>2. r' = CASE bad -> Invalid(r, ss)
               [] ~bad /\ "ASF" = "MP4" -> Set(r, ratingPercentToStars(v), ss)
               [] OTHER -> Decoded(r, sharedUserRatingToStars(v),
                                   isZeroValue(v), ss)
    BY <1>1
  <2>3. Hears(r', "first", "ASF", [value EXCEPT ![n] = v])
    BY <1>1, <2>1, <2>2, HearsChecked
  <2> QED
    BY <1>1, <2>3 DEF value
<1> QED
  BY <1>1, <1>2, FieldHeard

LEMMA FramesHeard ==
    ASSUME TagInv, TagInv', HeardInv, NEW b \in Bytes,
           WmpFrame(b) \/ ITunesFrame(b) \/ MusicBeeFrame(b) \/ MediaMonkeyFrame(b)
    PROVE  HeardInv'
<1>1. r \in Ratings /\ b \in Text
  BY ValueTypes, Collected
<1>2. CASE WmpFrame(b)
  <2> DEFINE ss == {"WMP"} \union
                   IF r.found["foobar2000"] > 0 THEN {} ELSE {"foobar2000"}
  <2>1. /\ Reads("ID3v2", "second", "WMP", b) /\ rate' = rate
        /\ r' = Set(r, popmWMPToStars(b), ss)
        /\ "WMP" \in Names /\ format = "ID3v2"
    BY <1>2 DEF WmpFrame, Names, Reads
  <2>2. NamedOnce' => Hears(r', "second", format, [Values EXCEPT !["WMP"] = b])
    BY <1>1, <2>1, FieldValue, HearsWmp
  <2> QED
    BY <1>1, <2>1, <2>2, FieldHeard
<1>3. CASE ITunesFrame(b)
  <2>1. /\ Reads("ID3v2", "second", "iTunes", b) /\ rate' = rate
        /\ r' = Set(r, popmITunesToStars(b), {"iTunes"})
        /\ "iTunes" \in Names /\ format = "ID3v2"
    BY <1>3 DEF ITunesFrame, Names, Reads
  <2>2. NamedOnce' => Hears(r', "second", format, [Values EXCEPT !["iTunes"] = b])
    BY <1>1, <2>1, FieldValue, HearsFrame
  <2> QED
    BY <1>1, <2>1, <2>2, FieldHeard
<1>4. CASE MusicBeeFrame(b)
  <2>1. /\ Reads("ID3v2", "second", "MusicBee", b) /\ rate' = rate
        /\ r' = Decoded(r, popmMusicBeeToStars(b), isZeroValue(b), {"MusicBee"})
        /\ "MusicBee" \in Names /\ format = "ID3v2"
    BY <1>4 DEF MusicBeeFrame, Names, Reads
  <2>2. NamedOnce' => Hears(r', "second", format, [Values EXCEPT !["MusicBee"] = b])
    BY <1>1, <2>1, FieldValue, HearsFrame
  <2> QED
    BY <1>1, <2>1, <2>2, FieldHeard
<1>5. CASE MediaMonkeyFrame(b)
  <2>1. /\ Reads("ID3v2", "second", "no@email", b) /\ rate' = rate
        /\ r' = Own(r, popmMediaMonkeyToStars(b), isZeroValue(b), "MediaMonkey")
        /\ "no@email" \in Names /\ format = "ID3v2"
    BY <1>5 DEF MediaMonkeyFrame, Names, Reads
  <2>2. NamedOnce' => Hears(r', "second", format, [Values EXCEPT !["no@email"] = b])
    BY <1>1, <2>1, FieldValue, HearsMediaMonkey
  <2> QED
    BY <1>1, <2>1, <2>2, FieldHeard
<1> QED
  BY <1>2, <1>3, <1>4, <1>5

LEMMA VorbisHeard ==
    ASSUME TagInv, TagInv', HeardInv, NEW v \in Texts, VorbisRating(v)
    PROVE  HeardInv'
<1> DEFINE foobar == ratingIntToStars(v)
           stars == ratingMusicBeeToStars(v)
           b == Decoded(r, foobar, isZeroValue(v), {"foobar2000"})
           c == Decoded(b, stars, isZeroValue(v), {"MusicBee"})
           d == IF foobar > 0
                THEN Decoded(c, stars, isZeroValue(v), {"MediaMonkey"})
                ELSE Own(c, stars, isZeroValue(v), "MediaMonkey")
<1>1. /\ Reads("Vorbis", "second", "RATING", v) /\ rate' = rate
      /\ \A f \in read : f.name # "RATING"
      /\ r' = d /\ "RATING" \in Names /\ format = "Vorbis"
  BY DEF VorbisRating, Names, Reads
<1>2. r \in Ratings /\ v \in Text /\ Values["RATING"] = 0
  BY <1>1, ValueTypes, Collected, NoField
<1> HIDE DEF foobar, stars, b, c, d
<1>3. NamedOnce' => Hears(d, "second", "Vorbis", [Values EXCEPT !["RATING"] = v])
  BY <1>1, <1>2, FieldValue, HearsVorbisRating DEF foobar, stars, b, c, d
<1> QED
  BY <1>1, <1>2, <1>3, FieldHeard

\* Before the first field nothing is heard.
LEMMA HeardInit == Init => HeardInv
<1> SUFFICES ASSUME Init PROVE HeardInv
  OBVIOUS
<1>1. PassOfField /\ ReadAsHeard
  BY DEF Init, PassOfField, ReadAsHeard
<1>2. \A n \in Names : Values[n] = 0
  BY NoField DEF Init
<1>3. \A s \in Sources : Kept(r, s) = Unrated
  BY DEF Init, newRatings, Kept
<1>4. /\ FmpsSays(0) = Unrated /\ FoobarSays(0) = Unrated /\ ScaleSays(0) = Unrated
      /\ PercentSays(0) = Unrated /\ SharedSays(0) = Unrated
      /\ WmpSays(0) = Unrated /\ ITunesSays(0) = Unrated
      /\ MusicBeeSays(0) = Unrated /\ MediaMonkeySays(0) = Unrated
  BY ZeroStars DEF FmpsSays, FoobarSays, ScaleSays, PercentSays, SharedSays,
     WmpSays, ITunesSays, MusicBeeSays, MediaMonkeySays, Says
<1>5. ASSUME NEW value, \A n \in Names : value[n] = 0, NEW s \in Sources
      PROVE  HeardIn("first", format, value, s) = Unrated
  <2>1. CASE s = "MediaMonkey"
    BY <1>4, <1>5, <2>1 DEF HeardIn, Names
  <2>2. CASE s # "MediaMonkey"
    BY <1>4, <1>5, <2>2 DEF HeardIn, SourceHeard, SourceSays, Names, Sources
  <2> QED
    BY <2>1, <2>2
<1>6. Hears(r, phase, format, Values)
  BY <1>2, <1>3, <1>5 DEF Init, Hears
<1> QED
  BY <1>1, <1>6 DEF HeardInv

LEMMA EndOfFirstPassHeard ==
    ASSUME TagInv, HeardInv, EndOfFirstPass
    PROVE  HeardInv'
<1>1. /\ phase = "first" /\ phase' = "second"
      /\ UNCHANGED <<format, tagOrder, rate, reading, read>>
  BY DEF EndOfFirstPass
<1>2. PassOfField' /\ ReadAsHeard'
  BY <1>1 DEF PassOfField, ReadAsHeard, HeardInv
<1>3. ASSUME NamedOnce
      PROVE  Hears(r', "second", format, Values)
  <2> DEFINE value == Values
             v == value["RATE"]
  <2>1. /\ value \in [Names -> Text] /\ Waiting(format, value)
        /\ Hears(r, "first", format, value)
    BY <1>1, <1>3, ValuesType, ValuesWait DEF HeardInv
  <2>2. r \in Ratings /\ format \in Formats
    BY Collected DEF TagInv, TagTypeOK
  <2>3. rate = None => v = 0 /\ r' = r
    BY NoField DEF HeardInv, PassOfField, EndOfFirstPass, Names
  <2>4. rate # None =>
           /\ format = "MP4" /\ v = rate
           /\ r' = Own(r, ratingMusicBeeToStars(rate), isZeroValue(rate),
                       "MediaMonkey")
    BY <1>3, ValueOfField
       DEF HeardInv, PassOfField, EndOfFirstPass, TagInv, OwnField
  <2>5. v = 0 => Own(r, ratingMusicBeeToStars(v), isZeroValue(v), "MediaMonkey") = r
    BY ZeroStars DEF Own, isZeroValue
  <2> HIDE DEF value
  <2>6. r' = IF format # "MP4" \/ v = 0 THEN r
             ELSE Own(r, ratingMusicBeeToStars(v), isZeroValue(v), "MediaMonkey")
    BY <2>3, <2>4, <2>5
  <2>7. Hears(r', "second", format, value)
    BY <2>1, <2>2, <2>6, HearsFirstPass
  <2> QED
    BY <2>7 DEF value
<1>4. Values' = Values /\ (NamedOnce' <=> NamedOnce)
  BY <1>1 DEF Values, NamedOnce
<1> QED
  BY <1>1, <1>2, <1>3, <1>4 DEF HeardInv, Hears

LEMMA MalformedHeard ==
    ASSUME HeardInv, Malformed
    PROVE  HeardInv'
BY DEF Malformed, HeardInv, PassOfField, ReadAsHeard

LEMMA StillHeard ==
    ASSUME HeardInv, UNCHANGED vars
    PROVE  HeardInv'
<1>1. Values' = Values /\ (NamedOnce' <=> NamedOnce)
  BY DEF vars, Values, NamedOnce
<1>2. ReadAsHeard'
  BY <1>1 DEF vars, HeardInv, ReadAsHeard
<1>3. PassOfField'
  BY DEF vars, HeardInv, PassOfField
<1> QED
  BY <1>1, <1>2, <1>3 DEF vars, HeardInv, Hears

LEMMA OnlyLeast ==
    ASSUME NEW S \in SUBSET Nat, NEW n \in S, \A y \in S : n <= y
    PROVE  {i \in S : \A j \in S : ~(j < i)} = {n}
<1>1. \A j \in S : ~(j < n)
  OBVIOUS
<1>2. \A i \in S : (\A j \in S : ~(j < i)) => i = n
  OBVIOUS
<1> QED
  BY <1>1, <1>2, Zenon

LEMMA TheLeast ==
    ASSUME NEW S \in SUBSET Nat, S # {}
    PROVE  /\ Lowest(S) \in S
           /\ {i \in S : \A j \in S : ~(j < i)} = {Lowest(S)}
<1>1. PICK x \in S : \A y \in S : ~(y < x)
  BY Least
<1>2. x \in S /\ \A y \in S : x <= y
  BY <1>1
<1>3. Lowest(S) \in S /\ \A y \in S : Lowest(S) <= y
  BY <1>2, Zenon DEF Lowest
<1> QED
  BY <1>3, OnlyLeast, Zenon

\* pickRating is the answer of the first source that has one, given what the
\* collector keeps of each.
LEMMA PickByOrder ==
    ASSUME NEW c \in Ratings, NEW order \in Seq(Sources),
           NEW says, DOMAIN says = DOMAIN order,
           \A i \in DOMAIN order : says[i] = Kept(c, order[i]),
           NEW answers,
           answers = {i \in DOMAIN says : says[i] \in 1..5 \union {Broken}},
           NEW least, least = Lowest(answers)
    PROVE  Answer(pickRating(order, c), says, answers, least)
<1> DEFINE first == {i \in DOMAIN order :
                       /\ Decisive(c, order[i])
                       /\ \A j \in DOMAIN order :
                            j < i => ~Decisive(c, order[j])}
           source == order[CHOOSE i \in first : TRUE]
           p == pickRating(order, c)
<1>1. DOMAIN order \subseteq Nat /\ \A i \in DOMAIN order : order[i] \in Sources
  OBVIOUS
<1>2. \A s \in Sources :
         /\ Decisive(c, s) <=> Kept(c, s) \in 1..5 \union {Broken}
         /\ Decisive(c, s) /\ c.found[s] > 0 =>
               Kept(c, s) = c.found[s] /\ Kept(c, s) # Broken
         /\ Decisive(c, s) /\ c.found[s] = 0 => Kept(c, s) = Broken
         /\ Decisive(c, s) => c.found[s] > 0 \/ c.found[s] = 0
         /\ ~Decisive(c, s) => (s \in c.unusable <=> Kept(c, s) = HalfStar)
  <2> TAKE s \in Sources
  <2>1. c.found[s] \in Stars
    BY DEF Ratings
  <2> QED
    BY <2>1 DEF Decisive, Kept, Stars, Unrated, HalfStar, Broken
<1>3. answers = {i \in DOMAIN order : Decisive(c, order[i])}
  BY <1>1, <1>2
<1>4. first = {i \in answers : \A j \in answers : ~(j < i)}
  BY <1>3
<1>5. answers # {} => first = {least} /\ least \in answers
  <2> SUFFICES ASSUME answers # {} PROVE first = {least} /\ least \in answers
    OBVIOUS
  <2>1. answers \subseteq Nat
    BY <1>1, <1>3
  <2> HIDE DEF first
  <2> QED
    BY <1>4, <2>1, TheLeast
<1>6. answers = {} => first = {}
  BY <1>4
<1>7. p = CASE first # {} /\ c.found[source] > 0 -> TagFound(c.found[source])
            [] first # {} /\ c.found[source] = 0 -> FileUnreadable
            [] first = {} /\ \E i \in DOMAIN order : order[i] \in c.unusable
               -> TagNotWholeStar
            [] OTHER -> TagAbsent
  BY DEF pickRating
<1> HIDE DEF first, p
<1>8. CASE answers # {}
  <2>1. first # {} /\ source = order[least]
    BY <1>5, <1>8
  <2>2. /\ source \in Sources /\ Decisive(c, source)
        /\ says[least] = Kept(c, source)
    BY <1>1, <1>3, <1>5, <1>8, <2>1
  <2> HIDE DEF source
  <2>3. CASE c.found[source] > 0
    BY <1>2, <1>7, <1>8, <2>1, <2>2, <2>3 DEF p, Answer
  <2>4. CASE c.found[source] = 0
    <3>1. ~(c.found[source] > 0)
      BY <2>4
    <3> QED
      BY <1>2, <1>7, <1>8, <2>1, <2>2, <2>4, <3>1 DEF p, Answer
  <2> QED
    BY <1>2, <2>2, <2>3, <2>4
<1>9. CASE answers = {}
  <2>1. \A i \in DOMAIN order :
           order[i] \in c.unusable <=> says[i] = HalfStar
    BY <1>1, <1>2, <1>3, <1>9
  <2> QED
    BY <1>6, <1>7, <1>9, <2>1 DEF p, Answer
<1> QED
  BY <1>8, <1>9

LEMMA PickHeard ==
    ASSUME TagInv, HeardInv, Pick
    PROVE  HeardInv'
<1>1. /\ phase = "second" /\ phase' = "picked"
      /\ reading' = pickRating(tagOrder, r)
      /\ UNCHANGED <<format, tagOrder, r, rate, read, own>>
  BY DEF Pick
<1>2. tagOrder \in Seq(Sources) /\ r \in Ratings
  BY OrdersAssumption DEF TagInv, TagTypeOK
<1>3. PassOfField'
  BY <1>1 DEF HeardInv, PassOfField
<1>4. Values' = Values /\ (NamedOnce' <=> NamedOnce)
  BY <1>1 DEF Values, NamedOnce
<1>5. ReadAsHeard'
  <2> DEFINE says == [i \in DOMAIN tagOrder |->
                         SourceHeard(format, Values, tagOrder[i])]
             answers == {i \in DOMAIN says : says[i] \in 1..5 \union {Broken}}
             least == Lowest(answers)
  <2> SUFFICES ASSUME NamedOnce
               PROVE  AnswerTo(tagOrder, format, Values, reading')
    BY <1>1, <1>4 DEF ReadAsHeard
  <2>1. Hears(r, "second", format, Values)
    BY <1>1 DEF HeardInv
  <2>2. \A s \in Sources : Kept(r, s) = SourceHeard(format, Values, s)
    BY <2>1 DEF Hears, HeardIn
  <2>3. DOMAIN says = DOMAIN tagOrder
    OBVIOUS
  <2>4. \A i \in DOMAIN tagOrder : says[i] = Kept(r, tagOrder[i])
    BY <1>2, <2>2
  <2> HIDE DEF says
  <2>5. answers = {i \in DOMAIN says : says[i] \in 1..5 \union {Broken}}
    OBVIOUS
  <2>6. least = Lowest(answers)
    OBVIOUS
  <2> HIDE DEF answers, least
  <2>7. Answer(pickRating(tagOrder, r), says, answers, least)
    BY <1>2, <2>3, <2>4, <2>5, <2>6, PickByOrder
  <2> QED
    BY <1>1, <2>7, Zenon DEF AnswerTo, says, answers, least
<1> QED
  BY <1>1, <1>3, <1>5 DEF HeardInv

LEMMA HeardStep == TagInv /\ HeardInv /\ [Next]_vars => HeardInv'
<1>1. SUFFICES ASSUME TagInv, HeardInv, [Next]_vars PROVE HeardInv'
  OBVIOUS
<1>2. TagInv'
  BY <1>1, TagStep
<1>3. CASE \E v \in Texts : \/ FmpsField(v) \/ TxxxRating(v)
                            \/ VorbisRating(v) \/ ITunesAtom(v)
                            \/ FoobarAtom(v) \/ RateAtom(v)
  BY <1>1, <1>2, <1>3, FirstPassHeard, VorbisHeard
<1>4. CASE \E b \in Bytes : \/ WmpFrame(b) \/ ITunesFrame(b)
                            \/ MusicBeeFrame(b) \/ MediaMonkeyFrame(b)
  BY <1>1, <1>2, <1>4, FramesHeard
<1>5. CASE \E v \in SharedRatings : SharedUserRating(v)
  BY <1>1, <1>2, <1>5, SharedHeard
<1>6. CASE Malformed \/ EndOfFirstPass \/ Pick
  BY <1>1, <1>6, MalformedHeard, EndOfFirstPassHeard, PickHeard
<1>7. CASE UNCHANGED vars
  BY <1>1, <1>7, StillHeard
<1> QED
  BY <1>1, <1>3, <1>4, <1>5, <1>6, <1>7 DEF Next

\* The collector hears what the field says of a source, except where the WMP
\* frame speaks up.
LEMMA HeardAsSaid ==
    ASSUME ~FrameSpeaksUp, NEW s \in Sources,
           \E i \in DOMAIN tagOrder : tagOrder[i] = s
    PROVE  SourceHeard(format, Values, s)
             = SourceSays(format, FieldNames, Values, s)
<1>1. CASE format # "ID3v2" \/ s # "foobar2000"
  BY <1>1 DEF SourceHeard, SourceSays, Sources
<1>2. CASE format = "ID3v2" /\ s = "foobar2000"
  <2> DEFINE foobar == FoobarSays(Values["RATING"])
             wmp == WmpSays(Values["WMP"])
  <2>1. /\ SourceHeard(format, Values, s) =
              IF foobar > 0 \/ wmp = Unrated THEN foobar ELSE wmp
        /\ SourceSays(format, FieldNames, Values, s) =
              IF "RATING" \in FieldNames THEN foobar ELSE wmp
    BY <1>2 DEF SourceHeard, SourceSays
  <2>2. CASE "RATING" \in FieldNames
    <3>1. foobar \in 1..5 \/ wmp = Unrated
      BY <1>2, <2>2 DEF FrameSpeaksUp
    <3> HIDE DEF foobar, wmp
    <3> QED
      BY <2>1, <2>2, <3>1
  <2>3. CASE "RATING" \notin FieldNames
    <3>1. \A f \in read : f.name # "RATING"
      BY <2>3 DEF FieldNames
    <3>2. Values["RATING"] = 0
      BY <3>1, NoField DEF Names
    <3>3. foobar = 0
      BY <3>2, ZeroStars DEF FoobarSays, Says, Unrated
    <3> HIDE DEF foobar, wmp
    <3> QED
      BY <2>1, <2>3, <3>3 DEF Unrated
  <2> QED
    BY <2>2, <2>3
<1> QED
  BY <1>1, <1>2

LEMMA HeardOrder ==
    ASSUME TagInv, HeardInv
    PROVE  ReadByOrderOfSources
<1> SUFFICES ASSUME phase = "picked", NamedOnce, ~FrameSpeaksUp
             PROVE  OrderDecides
  BY DEF ReadByOrderOfSources
<1> DEFINE heard == [i \in DOMAIN tagOrder |->
                        SourceHeard(format, Values, tagOrder[i])]
           says == [i \in DOMAIN tagOrder |->
                        SourceSays(format, FieldNames, Values, tagOrder[i])]
<1>1. \A i \in DOMAIN tagOrder : tagOrder[i] \in Sources
  BY OrdersAssumption DEF TagInv, TagTypeOK
<1>2. \A i \in DOMAIN tagOrder :
         SourceHeard(format, Values, tagOrder[i])
           = SourceSays(format, FieldNames, Values, tagOrder[i])
  BY <1>1, HeardAsSaid
<1>3. heard = says
  BY <1>2
<1>4. AnswerTo(tagOrder, format, Values, reading)
  BY DEF HeardInv, ReadAsHeard
<1>5. LET answers == {i \in DOMAIN heard : heard[i] \in 1..5 \union {Broken}}
      IN  Answer(reading, heard, answers, Lowest(answers))
  BY <1>4, Zenon DEF AnswerTo
<1> HIDE DEF heard, says
<1>6. LET answers == {i \in DOMAIN says : says[i] \in 1..5 \union {Broken}}
      IN  Answer(reading, says, answers, Lowest(answers))
  BY <1>3, <1>5
<1> QED
  BY <1>6 DEF OrderDecides, Answer, Lowest, says

\* The rating of a file in which no name comes twice does not depend on the
\* order of its fields: it is that of the first source of ratingTagOrder which
\* has a whole star or is broken, as the table of src/FEATURES.md says it, for
\* every text, byte and order (pickRating and the collect functions of
\* rating.go).  The one exception is FrameSpeaksUp: a WMP frame beside a TXXX
\* RATING of no stars (id3.go:314).
THEOREM RatingByOrderOfSources == Spec => []ReadByOrderOfSources
<1>1. TagInv /\ HeardInv => ReadByOrderOfSources
  BY HeardOrder
<1> QED
  BY InitInv, HeardInit, TagStep, HeardStep, <1>1, PTL DEF Spec

=============================================================================
