----------------------------- MODULE RatingTags -----------------------------
(***************************************************************************)
(* How the rating of one audio file is found.  The parser of the file's    *)
(* format walks its rating fields and collects, per rating source, a       *)
(* number of stars, the fact that a value is invalid, or the fact that it  *)
(* is a half star or out of range; then the first source in the user's     *)
(* ratingTagOrder that holds a rating decides.                             *)
(*                                                                         *)
(* Fields come in any order the format allows, and the same name may come  *)
(* twice (ID3 descriptions that differ in case, repeated MP4 atoms).  A    *)
(* text value is the number it spells, in thousandths, or NotANumber; an   *)
(* empty text is 0 to every converter.  Whole numbers spelled with a       *)
(* decimal point ("3.0") are left out.                                     *)
(***************************************************************************)
EXTENDS Integers, Sequences, FiniteSets

CONSTANTS
    TagOrders,        \* values of ratingTagOrder
    Texts,            \* values of text fields, in thousandths
    Bytes,            \* values of POPM frames
    SharedRatings,    \* values of WM/SharedUserRating
    MaxFields,        \* bound: different fields read from one file
    NotANumber,       \* a value that is not a number
    None

VARIABLES
    format,           \* how the file's container spells its tags
    tagOrder,         \* the user's ratingTagOrder
    phase,            \* first or second pass over the fields, or the end
    r,                \* what was collected: ratings.found, invalid, unusable
    rate,             \* MP4: the value of RATE, applied after the walk
    reading,          \* the file's reading, None before the end
    read,             \* history: the fields read
    own               \* history: stars of MediaMonkey's own field, 0 if half

vars == <<format, tagOrder, phase, r, rate, reading, read, own>>

Sources == {"MediaMonkey", "MusicBee", "foobar2000", "WMP", "iTunes", "FMPS"}
Formats == {"ID3v2", "Vorbis", "MP4", "ASF"}
Stars == 0..5
One == 1000

Text == Int \union {NotANumber}
Ratings == [found: [Sources -> Stars], invalid: SUBSET Sources,
            unusable: SUBSET Sources]
Names == {"FMPS_RATING", "RATING", "rating", "RATE", "WMP", "iTunes",
          "MusicBee", "no@email", "WM/SharedUserRating"}
Field == [name: Names, value: Text]

Reading(result, stars) == [result |-> result, stars |-> stars]
TagFound(stars) == Reading("TagFound", stars)
TagAbsent == Reading("TagAbsent", 0)
TagNotWholeStar == Reading("TagNotWholeStar", 0)
FileUnreadable == Reading("FileUnreadable", 0)
Readings == {TagFound(n) : n \in 1..5}
              \union {TagAbsent, TagNotWholeStar, FileUnreadable}

ASSUME OrdersAssumption == TagOrders \subseteq Seq(Sources)
ASSUME ValuesAssumption ==
    /\ Texts \subseteq Text
    /\ Bytes \subseteq 0..255
    /\ SharedRatings \subseteq Nat \union {NotANumber}
    /\ NotANumber \notin Int /\ None \notin Text /\ None \notin Readings

-----------------------------------------------------------------------------
(* The scales; 0 stars for anything that is not a whole star *)

\* Thresholds of a byte scale: one star for each that b reaches.
Reached(b, starts) == Cardinality({n \in DOMAIN starts : b >= starts[n]})
WholeStar(b, values) ==
    IF \E n \in DOMAIN values : b = values[n]
    THEN CHOOSE n \in DOMAIN values : b = values[n] ELSE 0

popmWMPToStars(b) == Reached(b, <<1, 2, 65, 129, 197>>)
\* As popmITunesToStars would be without its last case.
Twentieths(b) == (b + 19) \div 20

popmITunesToStars(b) == Reached(b, <<1, 21, 41, 61, 81>>)
popmMusicBeeToStars(b) == WholeStar(b, <<1, 64, 128, 196, 255>>)
popmMediaMonkeyToStars(b) ==
    CASE b = 23 -> 1 [] b = 252 -> 5 [] OTHER -> popmMusicBeeToStars(b)
sharedUserRatingToStars(v) ==
    IF v > 99 THEN 0 ELSE Reached(v, <<1, 13, 38, 63, 88>>)

Whole(v) == v # NotANumber /\ v % One = 0
ratingIntToStars(v) ==
    IF Whole(v) /\ v \div One \in 1..5 THEN v \div One ELSE 0
ratingMusicBeeToStars(v) ==
    IF Whole(v) THEN WholeStar(v \div One, <<20, 40, 60, 80, 100>>) ELSE 0

\* The iTunes-style MP4 atom and FMPS_Rating reject what is off their scale.
BadPercent(v) == ~Whole(v) \/ v < 0 \/ v > 100 * One
ratingPercentToStars(v) == popmITunesToStars(v \div One)
BadFmps(v) == v = NotANumber \/ v < 0 \/ v > One
fmpsToStars(v) ==
    LET stars == (5 * v + One \div 2) \div One
        off == 5 * v - One * stars
    IN  IF stars >= 1 /\ off \in -50..50 THEN stars ELSE 0

-----------------------------------------------------------------------------
(* The collector *)

\* No rating: an empty text, or 0.
isZeroValue(v) == v = 0

newRatings == [found |-> [s \in Sources |-> 0], invalid |-> {}, unusable |-> {}]

Set(c, stars, ss) ==
    IF stars = 0 THEN c
    ELSE [c EXCEPT !.found =
             [s \in Sources |-> IF s \in ss THEN stars ELSE c.found[s]]]
Invalid(c, ss) == [c EXCEPT !.invalid = c.invalid \union ss]
Decoded(c, stars, zero, ss) ==
    IF stars > 0 \/ zero THEN Set(c, stars, ss)
    ELSE [c EXCEPT !.unusable = c.unusable \union ss]

Fmps(c, v) ==
    IF BadFmps(v) THEN Invalid(c, {"FMPS", "MediaMonkey"})
    ELSE Decoded(c, fmpsToStars(v), isZeroValue(v), {"FMPS", "MediaMonkey"})

\* A source's own field replaces what a fallback field recorded for it.
Own(c, stars, zero, s) ==
    IF stars = 0 /\ zero THEN c
    ELSE Decoded([c EXCEPT !.found = [c.found EXCEPT ![s] = 0],
                           !.invalid = c.invalid \ {s}], stars, zero, {s})

Decisive(c, s) == c.found[s] > 0 \/ s \in c.invalid
\* As pickRating would be if a half star ended the search.
pickFirstHeld(order, c) ==
    LET Held(s) == Decisive(c, s) \/ s \in c.unusable
        first == {i \in DOMAIN order :
                    /\ Held(order[i])
                    /\ \A j \in DOMAIN order : j < i => ~Held(order[j])}
        source == order[CHOOSE i \in first : TRUE]
    IN  CASE first = {} -> TagAbsent
          [] first # {} /\ c.found[source] > 0 -> TagFound(c.found[source])
          [] first # {} /\ c.found[source] = 0 /\ source \in c.invalid
             -> FileUnreadable
          [] OTHER -> TagNotWholeStar

pickRating(order, c) ==
    LET first == {i \in DOMAIN order :
                    /\ Decisive(c, order[i])
                    /\ \A j \in DOMAIN order : j < i => ~Decisive(c, order[j])}
        source == order[CHOOSE i \in first : TRUE]
    IN  CASE first # {} /\ c.found[source] > 0 -> TagFound(c.found[source])
          [] first # {} /\ c.found[source] = 0 -> FileUnreadable
          [] first = {} /\ \E i \in DOMAIN order : order[i] \in c.unusable
             -> TagNotWholeStar
          [] OTHER -> TagAbsent

-----------------------------------------------------------------------------
(* Reading a file *)

Init ==
    /\ format \in Formats
    /\ tagOrder \in TagOrders
    /\ phase = "first"
    /\ r = newRatings
    /\ rate = None
    /\ reading = None
    /\ read = {}
    /\ own = None

Reads(f, ph, name, v) ==
    /\ format = f /\ phase = ph
    /\ Cardinality(read \union {[name |-> name, value |-> v]}) <= MaxFields
    /\ read' = read \union {[name |-> name, value |-> v]}
    /\ UNCHANGED <<format, tagOrder, phase, reading>>

\* The history of MediaMonkey's own field, as own() treats its value.
OwnStars(stars, zero) == IF stars = 0 /\ zero THEN own ELSE stars

\* FMPS_RATING comes in the first pass of every format; of a Vorbis comment
\* only its first value is read.
FmpsField(v) ==
    /\ Reads(format, "first", "FMPS_RATING", v)
    /\ format = "Vorbis" => read = {}
    /\ r' = Fmps(r, v)
    /\ UNCHANGED <<rate, own>>

\* ID3v2: all TXXX frames come before all POPM frames.
TxxxRating(v) ==
    /\ Reads("ID3v2", "first", "RATING", v)
    /\ r' = Decoded(r, ratingIntToStars(v), isZeroValue(v), {"foobar2000"})
    /\ UNCHANGED <<rate, own>>

WmpFrame(b) ==
    LET stars == popmWMPToStars(b)
        taken == r.found["foobar2000"] > 0
    IN  /\ Reads("ID3v2", "second", "WMP", b)
        /\ r' = Set(r, stars,
                    {"WMP"} \union IF taken THEN {} ELSE {"foobar2000"})
        /\ UNCHANGED <<rate, own>>

ITunesFrame(b) ==
    /\ Reads("ID3v2", "second", "iTunes", b)
    /\ r' = Set(r, popmITunesToStars(b), {"iTunes"})
    /\ UNCHANGED <<rate, own>>

\* As MusicBeeFrame would be if every byte without stars counted as unrated.
MusicBeeFrameAsUnrated(b) ==
    /\ Reads("ID3v2", "second", "MusicBee", b)
    /\ r' = Set(r, popmMusicBeeToStars(b), {"MusicBee"})
    /\ UNCHANGED <<rate, own>>

MusicBeeFrame(b) ==
    /\ Reads("ID3v2", "second", "MusicBee", b)
    /\ r' = Decoded(r, popmMusicBeeToStars(b), isZeroValue(b), {"MusicBee"})
    /\ UNCHANGED <<rate, own>>

MediaMonkeyFrame(b) ==
    LET stars == popmMediaMonkeyToStars(b)
    IN  /\ Reads("ID3v2", "second", "no@email", b)
        /\ r' = Own(r, stars, isZeroValue(b), "MediaMonkey")
        /\ own' = OwnStars(stars, isZeroValue(b))
        /\ UNCHANGED rate

\* A Vorbis RATING of 1 to 5 is foobar2000's; anything else is on MusicBee's
\* scale and MediaMonkey's own.  Only the first RATING is read.
VorbisRating(v) ==
    LET foobar == ratingIntToStars(v)
        stars == ratingMusicBeeToStars(v)
        c == Decoded(Decoded(r, foobar, isZeroValue(v), {"foobar2000"}),
                     stars, isZeroValue(v), {"MusicBee"})
    IN  /\ Reads("Vorbis", "second", "RATING", v)
        /\ \A f \in read : f.name # "RATING"
        /\ IF foobar > 0
           THEN /\ r' = Decoded(c, stars, isZeroValue(v), {"MediaMonkey"})
                /\ own' = own
           ELSE /\ r' = Own(c, stars, isZeroValue(v), "MediaMonkey")
                /\ own' = OwnStars(stars, isZeroValue(v))
        /\ UNCHANGED rate

ITunesAtom(v) ==
    /\ Reads("MP4", "first", "rating", v)
    /\ r' = IF BadPercent(v) THEN Invalid(r, {"iTunes"})
            ELSE Set(r, ratingPercentToStars(v), {"iTunes"})
    /\ UNCHANGED <<rate, own>>

FoobarAtom(v) ==
    /\ Reads("MP4", "first", "RATING", v)
    /\ r' = Decoded(r, ratingIntToStars(v), isZeroValue(v), {"foobar2000"})
    /\ UNCHANGED <<rate, own>>

\* As RateAtom would be if it served MediaMonkey during the walk.
RateAtomAtOnce(v) ==
    LET stars == ratingMusicBeeToStars(v)
    IN  /\ Reads("MP4", "first", "RATE", v)
        /\ r' = Own(Decoded(r, stars, isZeroValue(v), {"MusicBee"}),
                    stars, isZeroValue(v), "MediaMonkey")
        /\ own' = OwnStars(stars, isZeroValue(v))
        /\ UNCHANGED rate

RateAtom(v) ==
    /\ Reads("MP4", "first", "RATE", v)
    /\ r' = Decoded(r, ratingMusicBeeToStars(v), isZeroValue(v), {"MusicBee"})
    /\ rate' = v
    /\ UNCHANGED own

SharedUserRating(v) ==
    /\ Reads("ASF", "first", "WM/SharedUserRating", v)
    /\ r' = IF v = NotANumber THEN Invalid(r, {"WMP", "MusicBee"})
            ELSE Decoded(r, sharedUserRatingToStars(v), isZeroValue(v),
                         {"WMP", "MusicBee"})
    /\ UNCHANGED <<rate, own>>

\* The tag's structure is broken.  The frames of an ID3v2 tag and the
\* comments of a Vorbis block are only looked at after all were parsed.
Malformed ==
    /\ phase = "first"
    /\ format \in {"ID3v2", "Vorbis"} => read = {}
    /\ phase' = "broken"
    /\ reading' = FileUnreadable
    /\ UNCHANGED <<format, tagOrder, r, rate, read, own>>

\* The end of the first pass; MP4 applies RATE, MediaMonkey's own, here.
EndOfFirstPass ==
    /\ phase = "first"
    /\ phase' = "second"
    /\ IF rate = None THEN UNCHANGED <<r, own>>
       ELSE LET stars == ratingMusicBeeToStars(rate)
            IN  /\ r' = Own(r, stars, isZeroValue(rate), "MediaMonkey")
                /\ own' = OwnStars(stars, isZeroValue(rate))
    /\ UNCHANGED <<format, tagOrder, rate, reading, read>>

Pick ==
    /\ phase = "second"
    /\ phase' = "picked"
    /\ reading' = pickRating(tagOrder, r)
    /\ UNCHANGED <<format, tagOrder, r, rate, read, own>>

Next ==
    \/ \E v \in Texts : \/ FmpsField(v) \/ TxxxRating(v) \/ VorbisRating(v)
                        \/ ITunesAtom(v) \/ FoobarAtom(v) \/ RateAtom(v)
    \/ \E b \in Bytes : \/ WmpFrame(b) \/ ITunesFrame(b)
                        \/ MusicBeeFrame(b) \/ MediaMonkeyFrame(b)
    \/ \E v \in SharedRatings : SharedUserRating(v)
    \/ Malformed \/ EndOfFirstPass \/ Pick

Spec == Init /\ [][Next]_vars

-----------------------------------------------------------------------------
(* Properties *)

\* The collected state is well typed (type ratings of rating.go).
TagTypeOK ==
    /\ format \in Formats
    /\ tagOrder \in TagOrders
    /\ phase \in {"first", "second", "picked", "broken"}
    /\ r \in Ratings
    /\ rate \in Text \union {None}
    /\ reading \in Readings \union {None}
    /\ read \subseteq Field
    /\ own \in Stars \union {None}

\* The sources field f holds a rating of.  A later RATE atom replaces an
\* earlier one for MediaMonkey, and for nobody before the walk ends.
RatedBy(f) ==
    CASE f.value = 0 -> {}
      [] f.value # 0 /\ f.name = "FMPS_RATING" -> {"FMPS", "MediaMonkey"}
      [] f.value # 0 /\ f.name = "RATING" ->
           {"foobar2000"} \union IF format # "Vorbis" THEN {}
                                 ELSE {"MusicBee", "MediaMonkey"}
      [] f.value # 0 /\ f.name = "RATE" ->
           {"MusicBee"} \union IF phase # "first" /\ rate = f.value
                               THEN {"MediaMonkey"} ELSE {}
      [] f.value # 0 /\ f.name = "rating" -> {"iTunes"}
      [] f.value # 0 /\ f.name = "WMP" -> {"WMP", "foobar2000"}
      [] f.value # 0 /\ f.name = "no@email" -> {"MediaMonkey"}
      [] f.value # 0 /\ f.name = "WM/SharedUserRating" -> {"WMP", "MusicBee"}
      [] OTHER -> {f.name} \* the POPM frames of iTunes and MusicBee

\* A file counts as untagged only if no field holds a rating - whole, half,
\* out of range or invalid - of a source the user listens to: an untagged
\* file's song may lose its rating in Navidrome (rating.go, processSong).
RatedNotCleared ==
    reading = TagAbsent =>
        \A f \in read : \A i \in DOMAIN tagOrder : tagOrder[i] \notin RatedBy(f)

\* Once MediaMonkey's own field was read, nothing an FMPS_RATING says counts
\* for MediaMonkey any more, wherever it is in the file (ratings.own).
OwnFieldWins ==
    own # None => /\ r.found["MediaMonkey"] = own
                  /\ "MediaMonkey" \notin r.invalid
                  /\ own = 0 => "MediaMonkey" \in r.unusable

(* What a file in which no name comes twice says, whatever the order of its *)
(* fields: a number of stars, Unrated, HalfStar or Broken per source.       *)
NamedOnce == \A f, g \in read : f.name = g.name => f = g

Unrated == 0
HalfStar == -1
Broken == -2

\* The value of each name; 0, like no rating, where there is no such field.
Values ==
    [n \in Names |->
        IF \E f \in read : f.name = n
        THEN (CHOOSE f \in read : f.name = n).value ELSE 0]

Says(v, stars) ==
    CASE v = 0 -> Unrated
      [] v # 0 /\ stars > 0 -> stars
      [] OTHER -> HalfStar
First(own1, fallback) == IF own1 = Unrated THEN fallback ELSE own1

FmpsSays(v) == IF BadFmps(v) THEN Broken ELSE Says(v, fmpsToStars(v))
ScaleSays(v) == Says(v, ratingMusicBeeToStars(v))
FoobarSays(v) == Says(v, ratingIntToStars(v))
SharedSays(v) ==
    IF v = NotANumber THEN Broken ELSE Says(v, sharedUserRatingToStars(v))
PercentSays(v) ==
    IF BadPercent(v) THEN Broken ELSE Says(v, ratingPercentToStars(v))
WmpSays(v) == Says(v, popmWMPToStars(v))
ITunesSays(v) == Says(v, popmITunesToStars(v))
MusicBeeSays(v) == Says(v, popmMusicBeeToStars(v))
MediaMonkeySays(v) == Says(v, popmMediaMonkeyToStars(v))

\* A file of format fo whose fields have these names and values, to source s.
SourceSays(fo, names, value, s) ==
    LET fmps == FmpsSays(value["FMPS_RATING"])
        rating == value["RATING"]
    IN
    CASE s = "FMPS" -> fmps
      [] s = "MediaMonkey" /\ fo = "ID3v2" ->
           First(MediaMonkeySays(value["no@email"]), fmps)
      [] s = "MediaMonkey" /\ fo = "Vorbis" ->
           CASE FoobarSays(rating) \notin 1..5 -> First(ScaleSays(rating), fmps)
             [] FoobarSays(rating) \in 1..5 /\ fmps = Unrated -> HalfStar
             [] OTHER -> fmps
      [] s = "MediaMonkey" /\ fo = "MP4" ->
           First(ScaleSays(value["RATE"]), fmps)
      [] s = "MediaMonkey" /\ fo = "ASF" -> fmps
      [] s = "MusicBee" /\ fo = "ID3v2" -> MusicBeeSays(value["MusicBee"])
      [] s = "MusicBee" /\ fo = "Vorbis" -> ScaleSays(rating)
      [] s = "MusicBee" /\ fo = "MP4" -> ScaleSays(value["RATE"])
      [] s = "foobar2000" /\ fo = "ID3v2" ->
           IF "RATING" \in names THEN FoobarSays(rating)
           ELSE WmpSays(value["WMP"])
      [] s = "foobar2000" /\ fo \in {"Vorbis", "MP4"} -> FoobarSays(rating)
      [] s = "WMP" /\ fo = "ID3v2" -> WmpSays(value["WMP"])
      [] s \in {"WMP", "MusicBee"} /\ fo = "ASF" ->
           SharedSays(value["WM/SharedUserRating"])
      [] s = "iTunes" /\ fo = "ID3v2" -> ITunesSays(value["iTunes"])
      [] s = "iTunes" /\ fo = "MP4" -> PercentSays(value["rating"])
      [] OTHER -> Unrated

FieldNames == {f.name : f \in read}

\* A later source answers where an earlier one has no whole star, unless the
\* earlier one is broken.
OrderDecides ==
    LET says == [i \in DOMAIN tagOrder |->
                    SourceSays(format, FieldNames, Values, tagOrder[i])]
        answers == {i \in DOMAIN says : says[i] \in 1..5 \union {Broken}}
        first == CHOOSE i \in answers : \A j \in answers : i <= j
    IN  CASE answers # {} /\ says[first] = Broken -> reading = FileUnreadable
          [] answers # {} /\ says[first] # Broken ->
               reading = TagFound(says[first])
          [] answers = {} /\ \E i \in DOMAIN says : says[i] = HalfStar ->
               reading = TagNotWholeStar
          [] OTHER -> reading = TagAbsent

\* The WMP frame speaks for foobar2000 although there is a TXXX RATING: one
\* of 0 stars, or one out of range.
FrameSpeaksUp ==
    /\ format = "ID3v2" /\ "RATING" \in FieldNames
    /\ FoobarSays(Values["RATING"]) \notin 1..5
    /\ WmpSays(Values["WMP"]) # Unrated
    /\ \E i \in DOMAIN tagOrder : tagOrder[i] = "foobar2000"

\* The reading of a file depends on what its fields say and on the user's
\* order of sources, not on the order of the fields (table of
\* src/FEATURES.md, pickRating of rating.go); except where the WMP frame
\* speaks for foobar2000 (id3.go:314).
ReadByOrderOfSources ==
    phase = "picked" /\ NamedOnce /\ ~FrameSpeaksUp => OrderDecides

\* The same with nothing excepted: the documents let the WMP frame speak for
\* foobar2000 only where there is no RATING TXXX frame (DETAILS.md:144).  It
\* does not hold.
ReadAsDocumented == phase = "picked" /\ NamedOnce => OrderDecides
=============================================================================
