----------------------------- MODULE TagRegions -----------------------------
(***************************************************************************)
(* What the parsers of nd-rating-sync find in the part of a file that the  *)
(* extractors hand to them: an ID3v2 tag, the atoms of an MP4 udta, or a   *)
(* flat list of fields (Vorbis comments, ASF descriptors, ilst items).     *)
(* Which source of a file decides is the subject of RatingTags; here a tag *)
(* holds whole stars, or a half star, or no rating.                        *)
(***************************************************************************)
EXTENDS Integers, Sequences

Ratings == {"none", "whole", "half"}

\* parseStars: the four ways a file can be read.
Results == {"TagFound", "TagNotWholeStar", "TagAbsent", "FileUnreadable"}

Verdict(found) ==
    CASE "whole" \in found -> "TagFound"
      [] "whole" \notin found /\ "half" \in found -> "TagNotWholeStar"
      [] OTHER -> "TagAbsent"

RatingsIn(fields) == {fields[i].rating : i \in DOMAIN fields}

\* Does the list hold a rating, readable or not?
Holds(fields) == \E i \in DOMAIN fields : fields[i].rating # "none"

-----------------------------------------------------------------------------
(* Lists of fields.  A field fits when its length stays inside the block.  *)

Field == [rating: Ratings, fits: BOOLEAN]

RatingFromFields(fields) ==
    IF \E i \in DOMAIN fields : ~fields[i].fits THEN "FileUnreadable"
    ELSE Verdict(RatingsIn(fields))

-----------------------------------------------------------------------------
(* ID3v2.  A carrier is a POPM or TXXX frame; a flagged frame is           *)
(* compressed, encrypted, grouped or has a data-length indicator.  Short   *)
(* padding is padding that cannot hold another frame header.               *)

Frame == [carrier: BOOLEAN, rating: Ratings, flagged: BOOLEAN, fits: BOOLEAN]
ID3Tag == [version: {2, 3, 4, 5}, extended: {"none", "fits", "broken"},
           frames: Seq(Frame), shortPadding: BOOLEAN]

\* Only a POPM or TXXX frame carries a rating.
SoundID3Tag == {tag \in ID3Tag : \A i \in DOMAIN tag.frames :
                   tag.frames[i].rating # "none" => tag.frames[i].carrier}

\* The frames up to the first one whose size does not fit.
Walked(tag) ==
    {i \in DOMAIN tag.frames : \A j \in 1..i : tag.frames[j].fits}

\* prepareID3v2: what the library would misread.
Unsupported(tag) ==
    \/ tag.version = 2
    \/ /\ tag.version \in {3, 4}
       /\ \/ tag.extended = "broken"
          \/ \E i \in Walked(tag) :
                 tag.frames[i].carrier /\ tag.frames[i].flagged

\* The extended header is cut out and the padding completed by the reader.
Prepared(tag) == [tag EXCEPT !.extended = "none", !.shortPadding = FALSE]

\* bogem/id3v2: takes an extended header of v2.3 for the end of the frames,
\* and looks for the value of a flagged frame where it is not.
Library(tag) ==
    CASE \/ tag.version \notin {3, 4} \/ tag.shortPadding
         \/ tag.version = 4 /\ tag.extended # "none" -> "FileUnreadable"
      [] tag.version = 3 /\ tag.extended # "none" -> "TagAbsent"
      [] tag.version \in {3, 4} /\ ~tag.shortPadding /\ tag.extended = "none" ->
           RatingFromFields([i \in DOMAIN tag.frames |->
               [rating |-> IF tag.frames[i].flagged THEN "none"
                           ELSE tag.frames[i].rating,
                fits |-> tag.frames[i].fits]])

RatingFromID3v2(tag) ==
    IF Unsupported(tag) THEN "FileUnreadable" ELSE Library(Prepared(tag))

-----------------------------------------------------------------------------
(* MP4.  A meta atom is a full box, or starts with hdlr right away         *)
(* (QuickTime), or neither (the four bytes skipped belong to its first     *)
(* child, whose size is then nonsense), or is too short.                   *)

Atom == [type: {"meta", "ilst", "other"}, fits: BOOLEAN]
Udta == [udta: Seq(Atom), style: {"full", "quicktime", "shifted", "short"},
         meta: Seq(Atom), ilst: Seq(Field)]

\* findAtom stops at the first atom of the type, or at one that does not fit.
FindAtom(atoms, type) ==
    LET stops == {i \in DOMAIN atoms : atoms[i].type = type \/ ~atoms[i].fits}
        found == \E i \in stops : /\ atoms[i].fits
                                  /\ \A j \in stops : i <= j
    IN  CASE stops = {} -> "nil"
          [] stops # {} /\ found -> "found"
          [] stops # {} /\ ~found -> "malformed"

\* metaChildren, and findAtom in them.
FindIlst(tag) ==
    IF \/ tag.style = "short"
       \/ tag.style = "shifted" /\ tag.meta # <<>>
    THEN "malformed" ELSE FindAtom(tag.meta, "ilst")

RatingFromM4A(tag) ==
    LET meta == FindAtom(tag.udta, "meta")
        ilst == FindIlst(tag)
    IN  CASE meta = "nil" -> "TagAbsent"
          [] meta = "malformed" -> "FileUnreadable"
          [] meta = "found" /\ ilst = "nil" -> "TagAbsent"
          [] meta = "found" /\ ilst = "malformed" -> "FileUnreadable"
          [] meta = "found" /\ ilst = "found" -> RatingFromFields(tag.ilst)

\* A rating is in the items of an ilst, in a meta, in the udta.
HoldsM4A(tag) ==
    /\ \E i \in DOMAIN tag.udta : tag.udta[i].type = "meta"
    /\ \E i \in DOMAIN tag.meta : tag.meta[i].type = "ilst"
    /\ Holds(tag.ilst)

=============================================================================
