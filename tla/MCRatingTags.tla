---------------------------- MODULE MCRatingTags ----------------------------
(* Instances of RatingTags for TLC. *)
EXTENDS RatingTags

\* Each source alone, the default order (types.go), its reverse, and two in
\* which a fallback comes before or after the field it stands in for.
Default == <<"WMP", "iTunes", "MediaMonkey", "foobar2000", "MusicBee", "FMPS">>
Reversed == [i \in 1..6 |-> Default[7 - i]]
Few == {<<"MediaMonkey">>, <<"foobar2000">>, <<"foobar2000", "WMP">>,
        <<"FMPS", "MediaMonkey">>}
Orders == {<<s>> : s \in Sources} \union {Default, Reversed} \union Few

\* Unrated; one star and 0.6 of FMPS; half stars; 3 and 7 of foobar2000; 60
\* and 70 of MusicBee; a negative number; no number.
ManyTexts == {0, 600, 700, 3000, 7000, 60000, 70000, -1000, NotANumber}
\* Unrated, one star, MusicBee's half star, MediaMonkey's old five, a player's
\* other bytes.
SomeBytes == {0, 1, 13, 186, 252}
SomeShared == {0, 25, 150, NotANumber}
=============================================================================
