--------------------------- MODULE FileWalkProofs ---------------------------
(***************************************************************************)
(* No file of any layout that satisfies FileAssumption is misread, however *)
(* it is cut off or grows while it is read (WAV, FLAC, MP4, ASF, DSF and   *)
(* the formats with a leading ID3v2 tag), no walk loses its place, and     *)
(* every sound file that is complete is read.                              *)
(***************************************************************************)
EXTENDS FileWalk, FiniteSetTheorems, TLAPS

Found == {"TagFound", "TagNotWholeStar"}

-----------------------------------------------------------------------------
(* What a parser says of a tag is true of the tag *)

\* A list of fields: untagged without a rating, rated only with one.
LEMMA FieldsTruthful ==
    ASSUME NEW fields \in Seq(Field)
    PROVE  /\ RatingFromFields(fields) \in Results
           /\ RatingFromFields(fields) = "TagAbsent" => ~Holds(fields)
           /\ RatingFromFields(fields) \in Found => Holds(fields)
<1>1. \A i \in DOMAIN fields : fields[i].rating \in Ratings
  <2>1. \A i \in DOMAIN fields : fields[i] \in Field
    OBVIOUS
  <2> QED
    BY <2>1 DEF Field
<1> DEFINE found == RatingsIn(fields)
<1>2. "whole" \in found \/ "half" \in found <=> Holds(fields)
  BY <1>1 DEF RatingsIn, Holds, Ratings
<1>3. /\ Verdict(found) \in Results
      /\ Verdict(found) = "TagAbsent" => "whole" \notin found /\ "half" \notin found
      /\ Verdict(found) \in Found => "whole" \in found \/ "half" \in found
  BY DEF Verdict, Results, Found
<1> QED
  BY <1>2, <1>3 DEF RatingFromFields, Results, Found

\* An ID3v2 tag, whatever its version, extended header, padding and flags.
LEMMA ID3Truthful ==
    ASSUME NEW tag \in SoundID3Tag
    PROVE  /\ RatingFromID3v2(tag) \in Results
           /\ RatingFromID3v2(tag) = "TagAbsent" => ~Holds(tag.frames)
           /\ RatingFromID3v2(tag) \in Found => Holds(tag.frames)
<1> DEFINE frames == tag.frames
           fields == [i \in DOMAIN frames |->
                         [rating |-> IF frames[i].flagged THEN "none"
                                     ELSE frames[i].rating,
                          fits |-> frames[i].fits]]
<1>1. frames \in Seq(Frame) /\ DOMAIN frames = 1..Len(frames)
  BY DEF SoundID3Tag, ID3Tag
<1>2. fields \in Seq(Field)
  <2>1. \A i \in DOMAIN frames : frames[i] \in Frame
    BY <1>1
  <2>2. \A i \in 1..Len(frames) : fields[i] \in Field
    BY <1>1, <2>1 DEF Frame, Field, Ratings
  <2>3. fields = [i \in 1..Len(frames) |-> fields[i]] /\ Len(frames) \in Nat
    BY <1>1
  <2> HIDE DEF fields
  <2> QED
    BY <2>2, <2>3
<1>3. Holds(fields) => Holds(frames)
  BY DEF Holds
<1>4. /\ Prepared(tag).version = tag.version /\ Prepared(tag).frames = frames
      /\ Prepared(tag).extended = "none" /\ Prepared(tag).shortPadding = FALSE
  BY DEF Prepared, SoundID3Tag, ID3Tag
<1>5. CASE Unsupported(tag) \/ tag.version \notin {3, 4}
  <2>1. RatingFromID3v2(tag) = "FileUnreadable"
    BY <1>4, <1>5 DEF RatingFromID3v2, Library
  <2> QED
    BY <2>1 DEF Results, Found
<1>6. CASE ~Unsupported(tag) /\ tag.version \in {3, 4}
  <2>1. RatingFromID3v2(tag) = RatingFromFields(fields)
    BY <1>4, <1>6 DEF RatingFromID3v2, Library
  <2>2. ASSUME RatingFromFields(fields) = "TagAbsent" PROVE ~Holds(frames)
    <3>1. \A i \in DOMAIN frames : frames[i].fits
      BY <2>2 DEF RatingFromFields
    <3>2. \A i \in DOMAIN frames : \A j \in 1..i : frames[j].fits
      BY <1>1, <3>1
    <3>3. \A i \in DOMAIN frames : ~(frames[i].carrier /\ frames[i].flagged)
      BY <1>6, <3>2 DEF Unsupported, Walked
    <3>4. ~Holds(fields)
      BY <1>2, <2>2, FieldsTruthful
    <3>5. \A i \in DOMAIN frames : ~frames[i].flagged => frames[i].rating = "none"
      BY <3>4 DEF Holds
    <3>6. \A i \in DOMAIN frames : frames[i].flagged => frames[i].rating = "none"
      BY <3>3 DEF SoundID3Tag
    <3> QED
      BY <3>5, <3>6 DEF Holds
  <2> QED
    BY <1>2, <1>3, <2>1, <2>2, FieldsTruthful
<1> QED
  BY <1>5, <1>6

\* findAtom: nothing of the type when it says so, an atom of it when it does.
LEMMA FindAtomTruthful ==
    ASSUME NEW atoms, NEW type
    PROVE  /\ FindAtom(atoms, type) \in {"nil", "found", "malformed"}
           /\ FindAtom(atoms, type) = "nil" =>
                  \A i \in DOMAIN atoms : atoms[i].type # type
           /\ FindAtom(atoms, type) = "found" =>
                  \E i \in DOMAIN atoms : atoms[i].type = type
BY DEF FindAtom

\* The atoms of an MP4 udta, whatever is cut off, misplaced or missing.
LEMMA M4ATruthful ==
    ASSUME NEW tag \in Udta
    PROVE  /\ RatingFromM4A(tag) \in Results
           /\ RatingFromM4A(tag) = "TagAbsent" => ~HoldsM4A(tag)
           /\ RatingFromM4A(tag) \in Found => HoldsM4A(tag)
<1> DEFINE meta == FindAtom(tag.udta, "meta")
           ilst == FindIlst(tag)
<1>1. meta \in {"nil", "found", "malformed"} /\ ilst \in {"nil", "found", "malformed"}
  BY FindAtomTruthful DEF FindIlst
<1>2. tag.ilst \in Seq(Field)
  BY DEF Udta
<1>3. tag.meta \in Seq(Atom) /\ tag.style \in {"full", "quicktime", "shifted", "short"}
  BY DEF Udta
<1>4. meta = "nil" => ~HoldsM4A(tag)
  BY FindAtomTruthful DEF HoldsM4A
<1>5. meta = "found" => \E i \in DOMAIN tag.udta : tag.udta[i].type = "meta"
  BY FindAtomTruthful
<1>6. ilst = "nil" => ~HoldsM4A(tag)
  BY FindAtomTruthful DEF HoldsM4A, FindIlst
<1>7. ilst = "found" => \E i \in DOMAIN tag.meta : tag.meta[i].type = "ilst"
  BY FindAtomTruthful DEF FindIlst
<1>8. CASE meta = "found" /\ ilst = "found"
  <2>1. RatingFromM4A(tag) = RatingFromFields(tag.ilst)
    BY <1>8 DEF RatingFromM4A
  <2>2. HoldsM4A(tag) <=> Holds(tag.ilst)
    BY <1>5, <1>7, <1>8 DEF HoldsM4A
  <2> QED
    BY <1>2, <2>1, <2>2, FieldsTruthful
<1>9. CASE ~(meta = "found" /\ ilst = "found")
  <2>1. RatingFromM4A(tag) =
          IF meta = "nil" \/ (meta = "found" /\ ilst = "nil") THEN "TagAbsent"
          ELSE "FileUnreadable"
    BY <1>1, <1>9 DEF RatingFromM4A
  <2> QED
    BY <1>4, <1>6, <2>1 DEF Results, Found
<1> QED
  BY <1>8, <1>9

-----------------------------------------------------------------------------
(* The walk *)

\* No tag lies behind the reader.
NotPassed == \A e \in file.entries : e.kind = "tag" => pos <= e.at

\* The header of a tag that would still be found fits in front of the limit.
WavInv ==
    Walking("wav") => /\ file.format = "wav"
                      /\ whole => limit = file.size /\ NotPassed

FlacInv ==
    Walking("flac") => /\ file.format = "flac"
                       /\ NotPassed \/ pos + Header > file.size

M4aInv ==
    /\ Walking("m4a") => limit <= file.size /\ (whole => limit = file.size)
    /\ pc = "moov" =>
         /\ reader = "m4a" /\ file.format = "m4a"
         /\ whole \/ ~EndFromSize(file) =>
              /\ NotPassed
              /\ \A e \in file.entries : e.inside => e.within = limit

WmaInv ==
    Walking("wma") =>
        /\ file.format = "wma" /\ NotPassed
        /\ limit = file.headerSize /\ limit \in AsfHeader..file.size
        /\ file.count <= MaxEntries /\ seen <= file.count
        /\ seen <= Cardinality({e \in file.entries : e.at < pos})

WalkInv ==
    /\ whole => written = file.size
    /\ pc = "walk" => reader \in {"wav", "flac", "m4a", "wma", "dsf"}
    /\ Walking("dsf") => file.format = "dsf"
    /\ WavInv /\ FlacInv /\ M4aInv /\ WmaInv

Inv == TypeOK /\ WalkInv /\ NeverMisread

\* The reader of the tag is the one of its format.
Fitting ==
    \/ reader \in {"wav", "dsf", "m4a", "flac", "wma"} /\ file.format = reader
    \/ reader = "mp3" /\ file.format \in {"mp3", "adts"}

LEMMA FileOK == TypeOK => LayoutOK(file)
BY FileAssumption DEF TypeOK, file

LEMMA EntryOK == ASSUME TypeOK, NEW e \in file.entries PROVE e \in Entry
BY FileOK DEF LayoutOK

\* The right parser tells the truth of the file.
LEMMA ParseTruthful ==
    ASSUME TypeOK, Fitting
    PROVE  LET result == Parse(reader, file.tag)
           IN  /\ result \in Results
               /\ result = "TagAbsent" => ~Rated(file)
               /\ result \in Found => Rated(file)
<1>1. TagOf(file)
  BY FileOK DEF LayoutOK
<1>2. CASE reader \in {"mp3", "wav", "dsf"}
  <2>1. file.tag \in SoundID3Tag /\ Parse(reader, file.tag) = RatingFromID3v2(file.tag)
    BY <1>1, <1>2 DEF Fitting, TagOf, Parse
  <2>2. Rated(file) <=> Holds(file.tag.frames)
    BY <1>2 DEF Fitting, Rated
  <2> QED
    BY <2>1, <2>2, ID3Truthful
<1>3. CASE reader = "m4a"
  <2>1. file.tag \in Udta /\ Parse(reader, file.tag) = RatingFromM4A(file.tag)
    BY <1>1, <1>3 DEF Fitting, TagOf, Parse
  <2>2. Rated(file) <=> HoldsM4A(file.tag)
    BY <1>3 DEF Fitting, Rated
  <2> QED
    BY <2>1, <2>2, M4ATruthful
<1>4. CASE reader \in {"flac", "wma"}
  <2>1. file.tag \in Seq(Field) /\ Parse(reader, file.tag) = RatingFromFields(file.tag)
    BY <1>1, <1>4 DEF Fitting, TagOf, Parse
  <2>2. Rated(file) <=> Holds(file.tag)
    BY <1>4 DEF Fitting, Rated
  <2> QED
    BY <2>1, <2>2, FieldsTruthful
<1> QED
  BY <1>2, <1>3, <1>4 DEF Fitting

\* A reading that is true of the file, or excused, keeps the invariant.
LEMMA Concluded ==
    ASSUME Inv, pc # "done", NEW result \in Results, Conclude(result),
           result = "TagAbsent" => ~Rated(file) \/ Blind,
           result \in Found => Rated(file)
    PROVE  Inv'
<1>1. /\ pc' = "done" /\ reading' = result /\ file' = file
      /\ UNCHANGED <<name, written, whole, reader, pos, limit, seen>>
  BY DEF Conclude, rest, file
<1>2. TypeOK'
  BY <1>1 DEF Inv, TypeOK, Results
<1>3. WalkInv'
  BY <1>1 DEF Inv, WalkInv, Walking, WavInv, FlacInv, M4aInv, WmaInv
<1>4. Blind' <=> Blind
  BY <1>1 DEF Blind
<1>5. NeverMisread'
  BY <1>1, <1>4 DEF NeverMisread, Found
<1> QED
  BY <1>2, <1>3, <1>5 DEF Inv

LEMMA Refused == ASSUME Inv, pc # "done", Unreadable PROVE Inv'
BY Concluded DEF Unreadable, Results, Found

LEMMA Taken ==
    ASSUME Inv, pc # "done", Fitting, NEW e, Take(e)
    PROVE  Inv'
<1>1. CASE Unreadable
  BY <1>1, Refused
<1>2. CASE Conclude(Parse(reader, file.tag))
  BY <1>2, ParseTruthful, Concluded DEF Inv
<1> QED
  BY <1>1, <1>2 DEF Take

-----------------------------------------------------------------------------
(* Steps that read on *)

LEMMA InitInv == Init => Inv
<1> SUFFICES ASSUME Init PROVE Inv
  OBVIOUS
<1>1. LayoutOK(file)
  BY FileAssumption DEF Init, file
<1>2. reader \in Formats \union {"none"}
  BY DEF Init, Extractor, Supported, Formats
<1>3. TypeOK
  BY <1>1, <1>2, FileAssumption DEF Init, TypeOK, LayoutOK, Results
<1> QED
  BY <1>3 DEF Init, Inv, WalkInv, Walking, WavInv, FlacInv, M4aInv, WmaInv,
              NeverMisread

LEMMA GrowInv == ASSUME Inv, Grow PROVE Inv'
<1>1. /\ file' = file /\ written' = written + 1 /\ written < file.size
      /\ UNCHANGED <<name, whole, reader, pc, pos, limit, seen, reading>>
  BY DEF Grow, file
<1>2. file.size \in Nat
  BY FileOK DEF Inv, LayoutOK
<1>3. TypeOK'
  BY <1>1, <1>2 DEF Inv, TypeOK
<1>4. WalkInv'
  BY <1>1, <1>2 DEF Inv, TypeOK, WalkInv, Walking, WavInv, FlacInv, M4aInv,
                    WmaInv, NotPassed
<1>5. NeverMisread'
  BY <1>1 DEF Inv, NeverMisread, Blind
<1> QED
  BY <1>3, <1>4, <1>5 DEF Inv

\* Entries passed over lie in front of the entries behind them.
LEMMA PassOver ==
    ASSUME TypeOK, NotPassed, NEW e \in file.entries, e.at = pos,
           e.kind # "tag", file.format = "m4a" => e.inside, e.open \/ Whole(e)
    PROVE  \A d \in file.entries : d.kind = "tag" => After(file, e) <= d.at
<1> SUFFICES ASSUME NEW d \in file.entries, d.kind = "tag"
             PROVE  After(file, e) <= d.at
  OBVIOUS
<1>1. e \in Entry /\ d \in Entry
  BY EntryOK
<1>2. pos <= d.at /\ (d.inside <=> file.format = "m4a") /\ d.at + d.head <= d.within
  BY FileOK DEF NotPassed, LayoutOK, TagPlaced
<1>3. /\ e.at = d.at => e = d
      /\ e.at < d.at /\ (e.open \/ Whole(e)) => After(file, e) <= d.at
  BY <1>2, FileOK DEF LayoutOK, InOrder
<1>4. e.at < d.at
  BY <1>1, <1>2, <1>3 DEF Entry
<1> QED
  BY <1>3, <1>4

LEMMA WavOpenInv == ASSUME Inv, WavOpen PROVE Inv'
<1>1. /\ file' = file /\ pc' = "walk" /\ pos' = Header /\ limit' = written
      /\ seen' = 0 /\ UNCHANGED <<name, written, whole, reader, reading>>
      /\ pc = "open" /\ reader = "wav" /\ file.format = "wav"
  BY DEF WavOpen, Opening, WalkFrom, file
<1>2. file.size \in Nat /\ Listed(file)
  BY FileOK DEF Inv, LayoutOK
<1>3. TypeOK'
  BY <1>1, <1>2, FileAssumption DEF Inv, TypeOK, Header, Results
<1>4. NotPassed'
  BY <1>1, <1>2 DEF NotPassed, Listed, FirstEntry
<1>5. WalkInv' /\ NeverMisread'
  BY <1>1, <1>4 DEF Inv, TypeOK, WalkInv, Walking, WavInv, FlacInv, M4aInv, WmaInv,
                    NeverMisread
<1> QED
  BY <1>3, <1>5 DEF Inv

LEMMA WavEndInv == ASSUME Inv, WavEnd PROVE Inv'
<1>1. /\ pc = "walk" /\ reader = "wav" /\ file.format = "wav"
      /\ ~(pos + Header <= written)
  BY DEF WavEnd, Walking, OnDisk, Inv, WalkInv, WavInv
<1>2. EndFromSize(file)
  BY <1>1 DEF EndFromSize
<1>3. ASSUME whole, Rated(file) PROVE FALSE
  <2>1. PICK e \in file.entries : e.kind = "tag"
    BY <1>1, <1>3, FileOK DEF Inv, LayoutOK, TagPlaced
  <2>2. pos <= e.at /\ written = file.size
    BY <1>1, <1>3, <2>1 DEF Inv, WalkInv, WavInv, Walking, NotPassed
  <2>3. /\ e \in Entry /\ e.head = Header /\ e.at + e.head <= e.within
        /\ e.within = file.size
    BY <1>1, <2>1, FileOK, EntryOK DEF Inv, LayoutOK, TagPlaced, Listed
  <2>4. file.size \in Nat /\ written \in Nat /\ pos \in Nat
    BY FileOK DEF Inv, TypeOK, LayoutOK
  <2> QED
    BY <1>1, <2>2, <2>3, <2>4 DEF Header, Entry
<1> QED
  BY <1>1, <1>2, <1>3, Concluded DEF WavEnd, Blind, Results, Found

\* A seek to where the next entry begins keeps the type invariant.
LEMMA SkipTypes ==
    ASSUME TypeOK, pc # "done", NEW offset \in Nat, SkipTo(offset),
           seen < MaxEntries
    PROVE  TypeOK'
BY FileAssumption DEF TypeOK, SkipTo, file

LEMMA WavChunkInv == ASSUME Inv, WavChunk PROVE Inv'
<1>1. /\ pc = "walk" /\ reader = "wav" /\ file.format = "wav" /\ seen < MaxEntries
  BY DEF WavChunk, Walking, Inv, WalkInv, WavInv
<1>2. PICK e \in EntriesAt(pos) :
          LET end == pos + Header + e.body
          IN  \/ end > limit /\ Unreadable
              \/ end <= limit /\ e.kind = "tag" /\ Take(e)
              \/ end <= limit /\ e.kind = "skip" /\ SkipTo(end + (e.body % 2))
  BY DEF WavChunk
<1>3. /\ e \in Entry /\ e \in file.entries /\ e.at = pos
      /\ ~e.open /\ e.head = Header /\ e.body >= 0 /\ e.within = file.size
  BY <1>1, <1>2, FileOK, EntryOK DEF EntriesAt, Inv, LayoutOK, Listed
<1> DEFINE next == pos + Header + e.body + (e.body % 2)
<1>4. ASSUME pos + Header + e.body <= limit, e.kind = "skip", SkipTo(next)
      PROVE  Inv'
  <2>1. /\ file' = file /\ pos' = next /\ seen' = seen + 1
        /\ UNCHANGED <<name, written, whole, reader, pc, limit, reading>>
    BY <1>4 DEF SkipTo, file
  <2>2. next \in Nat
    BY <1>3 DEF Entry, Header, Inv, TypeOK
  <2>3. TypeOK'
    BY <1>1, <1>4, <2>2, SkipTypes DEF Inv
  <2>4. ASSUME whole PROVE limit = file.size /\ NotPassed'
    <3>1. limit = file.size /\ NotPassed
      BY <1>1, <2>4 DEF Inv, WalkInv, WavInv, Walking
    <3>2. Whole(e)
      BY <1>3, <1>4, <3>1 DEF Whole, Header
    <3>3. After(file, e) = next
      BY <1>1, <1>3 DEF After
    <3> QED
      BY <1>1, <1>3, <1>4, <2>1, <3>1, <3>2, <3>3, PassOver DEF Inv, NotPassed
  <2>5. WalkInv' /\ NeverMisread'
    BY <1>1, <2>1, <2>4 DEF Inv, TypeOK, WalkInv, Walking, WavInv, FlacInv, M4aInv,
                            WmaInv, NeverMisread
  <2> QED
    BY <2>3, <2>5 DEF Inv
<1> QED
  BY <1>1, <1>2, <1>4, Refused, Taken DEF Fitting

LEMMA FlacOpenInv == ASSUME Inv, FlacOpen PROVE Inv'
<1>1. pc = "open" /\ reader = "flac" /\ file.format = "flac"
  BY DEF FlacOpen, Opening
<1>2. CASE Unreadable
  BY <1>1, <1>2, Refused
<1>3. CASE WalkFrom(file.start + Header, 0, "walk")
  <2>1. /\ file' = file /\ pc' = "walk" /\ pos' = file.start + Header /\ limit' = 0
        /\ seen' = 0 /\ UNCHANGED <<name, written, whole, reader, reading>>
    BY <1>3 DEF WalkFrom, file
  <2>2. file.start \in Nat /\ Listed(file)
    BY FileOK DEF Inv, LayoutOK
  <2>3. TypeOK'
    BY <1>1, <2>1, <2>2, FileAssumption DEF Inv, TypeOK, Header, Results
  <2>4. NotPassed'
    BY <1>1, <2>1, <2>2 DEF NotPassed, Listed, FirstEntry
  <2>5. WalkInv' /\ NeverMisread'
    BY <1>1, <2>1, <2>4 DEF Inv, TypeOK, WalkInv, Walking, WavInv, FlacInv, M4aInv,
                            WmaInv, NeverMisread
  <2> QED
    BY <2>3, <2>5 DEF Inv
<1> QED
  BY <1>2, <1>3 DEF FlacOpen

LEMMA FlacBlockInv == ASSUME Inv, FlacBlock PROVE Inv'
<1>1. /\ pc = "walk" /\ reader = "flac" /\ file.format = "flac" /\ seen < MaxEntries
  BY DEF FlacBlock, Walking, Inv, WalkInv, FlacInv
<1>2. CASE Unreadable
  BY <1>1, <1>2, Refused
<1>3. ASSUME NEW e \in EntriesAt(pos), OnDisk(pos + Header),
             \/ e.kind = "tag" /\ Take(e)
             \/ e.kind = "skip" /\ e.last /\ Conclude("TagAbsent")
             \/ e.kind = "skip" /\ ~e.last /\ SkipTo(pos + Header + e.body)
      PROVE  Inv'
  <2>1. /\ e \in Entry /\ e \in file.entries /\ e.at = pos
        /\ ~e.open /\ e.head = Header /\ e.body >= 0 /\ e.within = file.size
    BY <1>1, <1>3, FileOK, EntryOK DEF EntriesAt, Inv, LayoutOK, Listed
  <2>2. file.size \in Nat /\ written \in 0..file.size
    BY FileOK DEF Inv, TypeOK, LayoutOK
  <2>3. NotPassed
    BY <1>1, <1>3, <2>1, <2>2 DEF Inv, WalkInv, FlacInv, Walking, OnDisk, Header, Entry
  <2>4. CASE e.kind = "tag" /\ Take(e)
    BY <1>1, <2>4, Taken DEF Fitting
  <2>5. CASE e.kind = "skip" /\ e.last /\ Conclude("TagAbsent")
    <3>1. ASSUME NEW d \in file.entries, d.kind = "tag" PROVE FALSE
      <4>1. d.at <= e.at /\ (e.at = d.at => e = d)
        BY <1>1, <2>1, <2>5, FileOK DEF Inv, LayoutOK, InOrder
      <4>2. pos <= d.at /\ d \in Entry
        BY <2>3, <3>1, EntryOK DEF NotPassed, Inv
      <4> QED
        BY <2>1, <2>5, <3>1, <4>1, <4>2 DEF Entry
    <3>2. ~Rated(file)
      BY <1>1, <3>1, FileOK DEF Inv, LayoutOK, TagPlaced
    <3> QED
      BY <1>1, <2>5, <3>2, Concluded DEF Results, Found
  <2>6. CASE e.kind = "skip" /\ ~e.last /\ SkipTo(pos + Header + e.body)
    <3> DEFINE next == pos + Header + e.body
    <3>1. /\ file' = file /\ pos' = next /\ seen' = seen + 1
          /\ UNCHANGED <<name, written, whole, reader, pc, limit, reading>>
      BY <2>6 DEF SkipTo, file
    <3>2. next \in Nat
      BY <2>1 DEF Entry, Header, Inv, TypeOK
    <3>3. TypeOK'
      BY <1>1, <2>6, <3>2, SkipTypes DEF Inv
    <3>4. NotPassed' \/ pos' + Header > file.size
      <4>1. CASE next <= file.size
        <5>1. Whole(e)
          BY <2>1, <4>1 DEF Whole, Header
        <5>2. After(file, e) = next
          BY <1>1, <2>1 DEF After, Entry, Header
        <5> QED
          BY <1>1, <2>1, <2>3, <2>6, <3>1, <5>1, <5>2, PassOver DEF Inv, NotPassed
      <4>2. CASE ~(next <= file.size)
        BY <2>2, <3>1, <3>2, <4>2 DEF Header
      <4> QED
        BY <4>1, <4>2
    <3>5. WalkInv' /\ NeverMisread'
      BY <1>1, <3>1, <3>4 DEF Inv, TypeOK, WalkInv, Walking, WavInv, FlacInv, M4aInv,
                              WmaInv, NeverMisread
    <3> QED
      BY <3>3, <3>5 DEF Inv
  <2> QED
    BY <1>3, <2>4, <2>5, <2>6
<1> QED
  BY <1>2, <1>3 DEF FlacBlock

LEMMA M4aOpenInv == ASSUME Inv, M4aOpen PROVE Inv'
<1>1. /\ file' = file /\ pc' = "walk" /\ pos' = 0 /\ limit' = written
      /\ seen' = 0 /\ UNCHANGED <<name, written, whole, reader, reading>>
      /\ pc = "open" /\ reader = "m4a"
  BY DEF M4aOpen, Opening, WalkFrom, file
<1>2. file.size \in Nat
  BY FileOK DEF Inv, LayoutOK
<1>3. TypeOK'
  BY <1>1, <1>2, FileAssumption DEF Inv, TypeOK, Results
<1>4. WalkInv' /\ NeverMisread'
  BY <1>1, <1>2 DEF Inv, TypeOK, WalkInv, Walking, WavInv, FlacInv, M4aInv, WmaInv,
                    NeverMisread
<1> QED
  BY <1>3, <1>4 DEF Inv

\* The size of an atom that fits takes the reader up to the limit at most.
LEMMA AtomFits ==
    ASSUME Inv, NEW e \in Entry, e.at = pos, Fits(e)
    PROVE  /\ pos + Size(e) \in Nat /\ pos + Size(e) <= limit
           /\ ~e.open => e.body >= 0 /\ e.at + e.head + e.body = pos + Size(e)
           /\ e.open => pos + Size(e) = limit
BY DEF Inv, TypeOK, Entry, Header, Fits, Size

LEMMA MoovOpenInv ==
    ASSUME Inv, Walking("m4a"), file.format = "m4a",
           NEW e \in Atoms(FALSE), Fits(e), e.kind = "moov",
           WalkFrom(pos + e.head, pos + Size(e), "moov")
    PROVE  Inv'
<1>1. /\ file' = file /\ pc' = "moov" /\ pos' = pos + e.head
      /\ limit' = pos + Size(e) /\ seen' = 0
      /\ UNCHANGED <<name, written, whole, reader, reading>>
      /\ pc = "walk" /\ reader = "m4a"
  BY DEF Walking, WalkFrom, file
<1>2. e \in Entry /\ e \in file.entries /\ e.at = pos /\ ~e.inside
  BY EntryOK DEF Atoms, EntriesAt, Inv
<1>3. /\ pos + Size(e) \in Nat /\ pos + Size(e) <= limit
      /\ ~e.open => e.body >= 0 /\ e.at + e.head + e.body = pos + Size(e)
      /\ e.open => pos + Size(e) = limit
  BY <1>2, AtomFits
<1>4. limit <= file.size /\ (whole => limit = file.size) /\ file.size \in Nat
      /\ limit \in Nat
  BY <1>1, FileOK DEF Inv, TypeOK, WalkInv, M4aInv, Walking, LayoutOK
<1>5. TypeOK'
  BY <1>1, <1>2, <1>3, FileAssumption DEF Inv, TypeOK, Entry, Header, Results
<1>6. ~e.open => Whole(e)
  <2>1. e.within = file.size
    BY <1>2, FileOK DEF Inv, LayoutOK, Nested
  <2> QED
    BY <1>2, <1>3, <1>4, <2>1 DEF Whole, Entry, Header
<1>7. ASSUME whole \/ ~EndFromSize(file), NEW d \in file.entries, d.inside
      PROVE  pos' <= d.at /\ d.within = limit'
  <2>1. e.open => whole
    BY <1>2, <1>7 DEF EndFromSize
  <2>2. /\ e.at + e.head <= d.at
        /\ d.within = IF e.open THEN file.size ELSE e.at + e.head + e.body
    BY <1>2, <1>6, <1>7, FileOK DEF Inv, LayoutOK, Nested
  <2> QED
    BY <1>1, <1>2, <1>3, <1>4, <2>1, <2>2
<1>8. ASSUME whole \/ ~EndFromSize(file) PROVE NotPassed'
  <2>1. \A d \in file.entries : d.kind = "tag" => d.inside
    BY FileOK DEF Inv, LayoutOK, TagPlaced
  <2> QED
    BY <1>1, <1>7, <1>8, <2>1 DEF NotPassed
<1>9. WalkInv' /\ NeverMisread'
  BY <1>1, <1>7, <1>8 DEF Inv, TypeOK, WalkInv, Walking, WavInv, FlacInv, M4aInv,
                          WmaInv, NeverMisread
<1> QED
  BY <1>5, <1>9 DEF Inv

LEMMA M4aAtomInv == ASSUME Inv, M4aAtom PROVE Inv'
<1>1. pc = "walk" /\ reader = "m4a" /\ file.format = "m4a" /\ seen < MaxEntries
  BY DEF M4aAtom, Walking
<1>2. PICK e \in Atoms(FALSE) :
          /\ Fits(e)
          /\ \/ e.kind = "moov" /\ WalkFrom(pos + e.head, pos + Size(e), "moov")
             \/ e.kind = "skip" /\ SkipTo(pos + Size(e))
  BY DEF M4aAtom
<1>3. CASE e.kind = "moov" /\ WalkFrom(pos + e.head, pos + Size(e), "moov")
  BY <1>1, <1>2, <1>3, MoovOpenInv DEF Walking
<1>4. CASE e.kind = "skip" /\ SkipTo(pos + Size(e))
  <2>1. e \in Entry /\ e.at = pos
    BY EntryOK DEF Atoms, EntriesAt, Inv
  <2>2. pos + Size(e) \in Nat
    BY <1>2, <2>1, AtomFits
  <2>3. /\ file' = file /\ pos' = pos + Size(e)
        /\ UNCHANGED <<name, written, whole, reader, pc, limit, reading>>
    BY <1>4 DEF SkipTo, file
  <2>4. TypeOK'
    BY <1>1, <1>4, <2>2, SkipTypes DEF Inv
  <2>5. WalkInv' /\ NeverMisread'
    BY <1>1, <2>3 DEF Inv, TypeOK, WalkInv, Walking, WavInv, FlacInv, M4aInv, WmaInv,
                      NeverMisread
  <2> QED
    BY <2>4, <2>5 DEF Inv
<1> QED
  BY <1>2, <1>3, <1>4

LEMMA MoovEndInv == ASSUME Inv, MoovEnd PROVE Inv'
<1>1. /\ pc = "moov" /\ reader = "m4a" /\ file.format = "m4a"
      /\ pos + Header > limit
  BY DEF MoovEnd, Inv, WalkInv, M4aInv
<1>2. ASSUME whole \/ ~EndFromSize(file), Rated(file) PROVE FALSE
  <2>1. PICK e \in file.entries : e.kind = "tag"
    BY <1>1, <1>2, FileOK DEF Inv, LayoutOK, TagPlaced
  <2>2. e \in Entry /\ e.inside /\ e.at + e.head <= e.within
    BY <1>1, <2>1, FileOK, EntryOK DEF Inv, LayoutOK, TagPlaced
  <2>3. pos <= e.at /\ e.within = limit
    BY <1>1, <1>2, <2>1, <2>2 DEF Inv, WalkInv, M4aInv, NotPassed
  <2> QED
    BY <1>1, <2>2, <2>3 DEF Entry, Header, Inv, TypeOK
<1> QED
  BY <1>1, <1>2, Concluded DEF MoovEnd, Blind, Results, Found

LEMMA MoovChildInv == ASSUME Inv, MoovChild PROVE Inv'
<1>1. /\ pc = "moov" /\ reader = "m4a" /\ file.format = "m4a" /\ seen < MaxEntries
  BY DEF MoovChild, Inv, WalkInv, M4aInv
<1>2. PICK e \in Atoms(TRUE) :
          /\ Fits(e)
          /\ \/ e.kind = "tag" /\ Take([e EXCEPT !.body = Size(e) - e.head])
             \/ e.kind = "skip" /\ SkipTo(pos + Size(e))
  BY DEF MoovChild
<1>3. CASE e.kind = "tag" /\ Take([e EXCEPT !.body = Size(e) - e.head])
  BY <1>1, <1>3, Taken DEF Fitting
<1>4. CASE e.kind = "skip" /\ SkipTo(pos + Size(e))
  <2>1. e \in Entry /\ e \in file.entries /\ e.at = pos /\ e.inside
    BY EntryOK DEF Atoms, EntriesAt, Inv
  <2>2. /\ pos + Size(e) \in Nat /\ pos + Size(e) <= limit
        /\ ~e.open => e.body >= 0 /\ e.at + e.head + e.body = pos + Size(e)
        /\ e.open => pos + Size(e) = limit
    BY <1>2, <2>1, AtomFits
  <2>3. /\ file' = file /\ pos' = pos + Size(e)
        /\ UNCHANGED <<name, written, whole, reader, pc, limit, reading>>
    BY <1>4 DEF SkipTo, file
  <2>4. TypeOK'
    BY <1>1, <1>4, <2>2, SkipTypes DEF Inv
  <2>5. ASSUME whole \/ ~EndFromSize(file)
        PROVE  /\ NotPassed'
               /\ \A d \in file.entries : d.inside => d.within = limit
    <3>1. NotPassed /\ \A d \in file.entries : d.inside => d.within = limit
      BY <1>1, <2>5 DEF Inv, WalkInv, M4aInv
    <3>2. e.open \/ Whole(e)
      BY <2>1, <2>2, <3>1 DEF Whole
    <3>3. After(file, e) = pos + Size(e)
      BY <1>1, <2>1, <2>2, <3>1 DEF After, Entry, Header
    <3>4. \A d \in file.entries : d.kind = "tag" => After(file, e) <= d.at
      BY <1>4, <2>1, <3>1, <3>2, PassOver DEF Inv
    <3> QED
      BY <2>3, <3>1, <3>3, <3>4 DEF NotPassed
  <2>6. WalkInv' /\ NeverMisread'
    BY <1>1, <2>3, <2>5 DEF Inv, TypeOK, WalkInv, Walking, WavInv, FlacInv, M4aInv,
                            WmaInv, NeverMisread
  <2> QED
    BY <2>4, <2>6 DEF Inv
<1> QED
  BY <1>2, <1>3, <1>4

\* The entries in front of the reader, as many as it has seen.
Behind(offset) == {e \in file.entries : e.at < offset}

LEMMA BehindFinite == ASSUME TypeOK, NEW offset
                      PROVE  IsFiniteSet(Behind(offset)) /\ Cardinality(Behind(offset)) \in Nat
<1>1. IsFiniteSet(file.entries) /\ Behind(offset) \subseteq file.entries
  BY FileOK DEF LayoutOK, Behind
<1> QED
  BY <1>1, FS_Subset, FS_CardinalityType

LEMMA WmaOpenInv == ASSUME Inv, WmaOpen PROVE Inv'
<1>1. pc = "open" /\ reader = "wma" /\ file.format = "wma"
  BY DEF WmaOpen, Opening
<1>2. CASE Unreadable
  BY <1>1, <1>2, Refused
<1>3. CASE /\ AsfHeader <= file.headerSize /\ OnDisk(file.headerSize)
           /\ file.count <= MaxEntries
           /\ WalkFrom(AsfHeader, file.headerSize, "walk")
  <2>1. /\ file' = file /\ pc' = "walk" /\ pos' = AsfHeader
        /\ limit' = file.headerSize /\ seen' = 0
        /\ UNCHANGED <<name, written, whole, reader, reading>>
    BY <1>3 DEF WalkFrom, file
  <2>2. /\ file.headerSize \in Nat /\ file.count \in Nat /\ file.size \in Nat
        /\ Listed(file)
    BY FileOK DEF Inv, LayoutOK
  <2>3. TypeOK'
    BY <1>1, <2>1, <2>2, FileAssumption DEF Inv, TypeOK, AsfHeader, Results
  <2>4. NotPassed' /\ limit' \in AsfHeader..file.size
    BY <1>1, <1>3, <2>1, <2>2
       DEF NotPassed, Listed, FirstEntry, OnDisk, AsfHeader, Inv, TypeOK
  <2>5. seen' <= Cardinality(Behind(pos'))
    BY <2>1, BehindFinite DEF Inv
  <2>6. WalkInv' /\ NeverMisread'
    BY <1>1, <1>3, <2>1, <2>2, <2>4, <2>5
       DEF Inv, TypeOK, WalkInv, Walking, WavInv, FlacInv, M4aInv, WmaInv,
           NeverMisread, Behind
  <2> QED
    BY <2>3, <2>6 DEF Inv
<1> QED
  BY <1>2, <1>3 DEF WmaOpen

LEMMA WmaEndInv == ASSUME Inv, WmaEnd PROVE Inv'
<1>1. /\ pc = "walk" /\ reader = "wma" /\ file.format = "wma" /\ seen = file.count
      /\ NotPassed /\ seen <= Cardinality(Behind(pos))
  BY DEF WmaEnd, Walking, Inv, WalkInv, WmaInv, Behind
<1>2. ASSUME Rated(file) PROVE FALSE
  <2>1. PICK e \in file.entries : /\ e.kind = "tag"
                                  /\ Cardinality(Behind(e.at)) < file.count
    BY <1>1, <1>2, FileOK DEF Inv, LayoutOK, TagPlaced, Behind
  <2>2. pos <= e.at /\ e.at \in Nat /\ pos \in Nat
    BY <1>1, <2>1, EntryOK DEF NotPassed, Inv, TypeOK, Entry
  <2>3. Behind(pos) \subseteq Behind(e.at)
    BY <2>2, EntryOK DEF Behind, Inv, Entry
  <2>4. Cardinality(Behind(pos)) <= Cardinality(Behind(e.at))
    BY <2>3, BehindFinite, FS_Subset DEF Inv
  <2>5. /\ Cardinality(Behind(pos)) \in Nat /\ Cardinality(Behind(e.at)) \in Nat
        /\ file.count \in Nat
    BY BehindFinite, FileOK DEF Inv, LayoutOK
  <2> QED
    BY <1>1, <2>1, <2>4, <2>5
<1> QED
  BY <1>1, <1>2, Concluded DEF WmaEnd, Results, Found

LEMMA WmaObjectInv == ASSUME Inv, WmaObject PROVE Inv'
<1>1. /\ pc = "walk" /\ reader = "wma" /\ file.format = "wma" /\ seen < file.count
      /\ NotPassed /\ limit = file.headerSize /\ limit \in AsfHeader..file.size
      /\ file.count <= MaxEntries /\ seen <= Cardinality(Behind(pos))
  BY DEF WmaObject, Walking, Inv, WalkInv, WmaInv, Behind
<1>2. CASE Unreadable
  BY <1>1, <1>2, Refused
<1>3. ASSUME NEW e \in EntriesAt(pos), e.body >= 0, pos + Header + e.body <= limit,
             \/ e.kind = "tag" /\ Take(e)
             \/ e.kind = "skip" /\ SkipTo(pos + Header + e.body)
      PROVE  Inv'
  <2> DEFINE next == pos + Header + e.body
  <2>1. /\ e \in Entry /\ e \in file.entries /\ e.at = pos
        /\ ~e.open /\ e.head = Header /\ e.within = limit
    BY <1>1, <1>3, FileOK, EntryOK DEF EntriesAt, Inv, LayoutOK, Listed
  <2>2. CASE e.kind = "tag" /\ Take(e)
    BY <1>1, <2>2, Taken DEF Fitting
  <2>3. CASE e.kind = "skip" /\ SkipTo(next)
    <3>1. /\ file' = file /\ pos' = next /\ seen' = seen + 1
          /\ UNCHANGED <<name, written, whole, reader, pc, limit, reading>>
      BY <2>3 DEF SkipTo, file
    <3>2. next \in Nat /\ next > pos /\ pos \in Nat /\ file.count \in Nat /\ seen \in Nat
      BY <1>3, <2>1, FileOK DEF Entry, Header, Inv, TypeOK, LayoutOK
    <3>3. TypeOK'
      BY <1>1, <2>3, <3>2, SkipTypes, FileAssumption DEF Inv
    <3>4. NotPassed'
      <4>1. Whole(e) /\ After(file, e) = next
        BY <1>1, <1>3, <2>1 DEF Whole, After, Entry, Header
      <4> QED
        BY <1>1, <2>1, <2>3, <3>1, <4>1, PassOver DEF Inv, NotPassed
    <3>5. seen + 1 <= Cardinality(Behind(next))
      <4>1. e \notin Behind(pos) /\ Behind(pos) \union {e} \subseteq Behind(next)
        BY <2>1, <3>2, EntryOK DEF Behind, Inv, Entry
      <4>2. /\ IsFiniteSet(Behind(pos) \union {e})
            /\ Cardinality(Behind(pos) \union {e}) = Cardinality(Behind(pos)) + 1
        BY <4>1, BehindFinite, FS_AddElement DEF Inv
      <4>3. Cardinality(Behind(pos) \union {e}) <= Cardinality(Behind(next))
        BY <4>1, BehindFinite, FS_Subset DEF Inv
      <4>4. Cardinality(Behind(pos)) \in Nat /\ Cardinality(Behind(next)) \in Nat
        BY BehindFinite DEF Inv
      <4> QED
        BY <1>1, <3>2, <4>2, <4>3, <4>4
    <3>6. WalkInv' /\ NeverMisread'
      BY <1>1, <3>1, <3>2, <3>4, <3>5
         DEF Inv, TypeOK, WalkInv, Walking, WavInv, FlacInv, M4aInv, WmaInv,
             NeverMisread, Behind
    <3> QED
      BY <3>3, <3>6 DEF Inv
  <2> QED
    BY <1>3, <2>2, <2>3
<1> QED
  BY <1>2, <1>3 DEF WmaObject

-----------------------------------------------------------------------------
(* ID3v2 tags at a known place, and files that are refused *)

LEMMA Mp3TagInv == ASSUME Inv, Mp3Tag PROVE Inv'
<1>1. pc = "open" /\ reader = "mp3"
  BY DEF Mp3Tag, Opening
<1>2. CASE Unreadable
  BY <1>1, <1>2, Refused
<1>3. CASE LeadingID3v2 = {} /\ Conclude("TagAbsent")
  <2>1. file.format \in {"mp3", "adts"} => ~Rated(file)
    BY <1>3, FileOK DEF Inv, LayoutOK, TagPlaced, LeadingID3v2, EntriesAt
  <2> QED
    BY <1>1, <1>3, <2>1, Concluded DEF Blind, Results, Found
<1>4. ASSUME NEW e \in LeadingID3v2, Take(e) PROVE Inv'
  BY <1>1, <1>4, Taken DEF Fitting, LeadingID3v2
<1> QED
  BY <1>2, <1>3, <1>4 DEF Mp3Tag

LEMMA DsfHeaderInv == ASSUME Inv, DsfHeader PROVE Inv'
<1>1. pc = "open" /\ reader = "dsf" /\ file.format = "dsf"
  BY DEF DsfHeader, Opening
<1>2. CASE Unreadable
  BY <1>1, <1>2, Refused
<1>3. CASE file.offset = 0 /\ Conclude("TagAbsent")
  <2>1. ~Rated(file)
    BY <1>1, <1>3, FileOK DEF Inv, LayoutOK, TagPlaced
  <2> QED
    BY <1>1, <1>3, <2>1, Concluded DEF Results, Found
<1>4. CASE WalkFrom(file.offset, written, "walk")
  <2>1. /\ file' = file /\ pc' = "walk" /\ pos' = file.offset /\ limit' = written
        /\ seen' = 0 /\ UNCHANGED <<name, written, whole, reader, reading>>
    BY <1>4 DEF WalkFrom, file
  <2>2. file.offset \in Nat /\ file.size \in Nat
    BY FileOK DEF Inv, LayoutOK
  <2>3. TypeOK'
    BY <1>1, <2>1, <2>2, FileAssumption DEF Inv, TypeOK, Results
  <2>4. WalkInv' /\ NeverMisread'
    BY <1>1, <2>1 DEF Inv, TypeOK, WalkInv, Walking, WavInv, FlacInv, M4aInv, WmaInv,
                      NeverMisread
  <2> QED
    BY <2>3, <2>4 DEF Inv
<1> QED
  BY <1>2, <1>3, <1>4 DEF DsfHeader

LEMMA DsfTagInv == ASSUME Inv, DsfTag PROVE Inv'
<1>1. pc = "walk" /\ reader = "dsf" /\ file.format = "dsf"
  BY DEF DsfTag, Walking, Inv, WalkInv
<1> QED
  BY <1>1, Refused, Taken DEF DsfTag, Fitting

LEMMA AacSniffInv == ASSUME Inv, AacSniff PROVE Inv'
<1>1. pc = "open"
  BY DEF AacSniff, Opening
<1>2. CASE Unreadable
  BY <1>1, <1>2, Refused
<1>3. CASE /\ reader' \in {"mp3", "m4a"}
           /\ UNCHANGED <<name, written, whole, pc, pos, limit, seen, reading>>
  <2>1. file' = file
    BY <1>3 DEF file
  <2> QED
    BY <1>1, <1>3, <2>1
       DEF Inv, TypeOK, WalkInv, Walking, WavInv, FlacInv, M4aInv, WmaInv,
           NeverMisread, Formats
<1> QED
  BY <1>2, <1>3 DEF AacSniff

LEMMA RefusedInv ==
    ASSUME Inv, NotOpened \/ BadStart \/ TooMany \/ NoMoov \/ AtomRefused PROVE Inv'
BY Refused DEF NotOpened, BadStart, TooMany, NoMoov, AtomRefused, Walking

LEMMA StepInv == Inv /\ [Next]_vars => Inv'
<1> SUFFICES ASSUME Inv, [Next]_vars PROVE Inv'
  OBVIOUS
<1>1. CASE Grow
  BY <1>1, GrowInv
<1>2. CASE Walk
  BY <1>2, RefusedInv, WavOpenInv, WavEndInv, WavChunkInv, FlacOpenInv, FlacBlockInv,
     M4aOpenInv, M4aAtomInv, MoovEndInv, MoovChildInv, WmaOpenInv, WmaEndInv,
     WmaObjectInv, Mp3TagInv, DsfHeaderInv, DsfTagInv, AacSniffInv DEF Walk
<1>3. CASE UNCHANGED vars
  BY <1>3 DEF vars, file, Inv, TypeOK, WalkInv, Walking, WavInv, FlacInv, M4aInv,
              WmaInv, NotPassed, NeverMisread, Blind
<1> QED
  BY <1>1, <1>2, <1>3 DEF Next

-----------------------------------------------------------------------------
(* The walk keeps its place *)

\* Where the reader stands an entry begins, or too little is left for one.
EntryInv ==
    /\ Walking("wav") => /\ limit <= file.size
                         /\ pos + Header <= limit => EntriesAt(pos) # {}
    /\ Walking("flac") => (pos + Header <= file.size => EntriesAt(pos) # {})
    /\ Walking("m4a") /\ file.format = "m4a" /\ pos < limit => Atoms(FALSE) # {}
    /\ pc = "moov" =>
         /\ \A d \in file.entries : d.inside => limit <= d.within
         /\ pos + Header <= limit => Atoms(TRUE) # {}

LEMMA OnEntriesKept == Inv /\ EntryInv => OnEntries
<1> SUFFICES ASSUME Inv, EntryInv PROVE OnEntries
  OBVIOUS
<1>1. written \in 0..file.size /\ file.size \in Nat /\ pos \in Nat
  BY FileOK DEF Inv, TypeOK, LayoutOK
<1>2. OnDisk(pos + Header) => pos + Header <= file.size
  BY <1>1 DEF OnDisk, Header
<1> QED
  BY <1>2 DEF EntryInv, OnEntries

\* The room an entry needs to begin.
Least(inside) == IF file.format = "m4a" /\ ~inside THEN 1 ELSE Header
Begins(offset, inside) == \E d \in file.entries : d.at = offset /\ d.inside = inside

LEMMA NextBegins ==
    ASSUME TypeOK, NEW e \in file.entries, e.open \/ Whole(e),
           file.format = "flac" => ~e.last,
           After(file, e) + Least(e.inside) <= e.within
    PROVE  Begins(After(file, e), e.inside)
BY FileOK DEF LayoutOK, SideBySide, Least, Begins

LEMMA FirstBegins ==
    ASSUME TypeOK, file.format \in {"wav", "flac", "m4a"},
           NEW first, first = IF file.format = "m4a" THEN 0 ELSE FirstEntry(file),
           NEW least, least = IF file.format = "m4a" THEN 1 ELSE Header,
           first + least <= file.size
    PROVE  Begins(first, FALSE)
BY FileOK DEF LayoutOK, SideBySide, Begins

LEMMA ChildBegins ==
    ASSUME TypeOK, NEW e \in file.entries, e.open \/ Whole(e), e.kind = "moov",
           e.at + e.head + Header <= After(file, e)
    PROVE  Begins(e.at + e.head, TRUE)
BY FileOK DEF LayoutOK, SideBySide, Begins

LEMMA EntryDone == ASSUME NEW result, Conclude(result) PROVE EntryInv'
BY DEF Conclude, EntryInv, Walking

\* What the reader finds after a seek to a place where an entry begins.
LEMMA EntryThere ==
    ASSUME NEW offset, NEW inside, Begins(offset, inside),
           file' = file, pos' = offset
    PROVE  (EntriesAt(pos) # {})' /\ (Atoms(inside) # {})'
<1>1. PICK d \in file.entries : d.at = offset /\ d.inside = inside
  BY DEF Begins
<1>2. d \in EntriesAt(pos)'
  BY <1>1 DEF EntriesAt
<1>3. d \in Atoms(inside)'
  BY <1>1, <1>2 DEF Atoms
<1> QED
  BY <1>2, <1>3

LEMMA EntryWav == ASSUME Inv, EntryInv, WavOpen \/ WavChunk PROVE EntryInv'
<1>1. file.size \in Nat /\ written \in 0..file.size /\ pos \in Nat /\ limit \in Nat
  BY FileOK DEF Inv, TypeOK, LayoutOK
<1>2. CASE WavOpen
  <2>1. /\ file' = file /\ pc' = "walk" /\ pos' = Header /\ limit' = written
        /\ reader' = "wav" /\ file.format = "wav"
    BY <1>2 DEF WavOpen, Opening, WalkFrom, file
  <2>2. FirstEntry(file) = Header
    BY <2>1 DEF FirstEntry
  <2>3. TypeOK /\ file.format \in {"wav", "flac", "m4a"}
    BY <2>1 DEF Inv
  <2>4. Header + Header <= file.size => Begins(Header, FALSE)
    BY <2>1, <2>2, <2>3, FirstBegins
  <2>5. pos' + Header <= limit' => EntriesAt(pos)' # {}
    <3> SUFFICES ASSUME pos' + Header <= limit' PROVE EntriesAt(pos)' # {}
      OBVIOUS
    <3>1. Header + Header <= file.size
      BY <1>1, <2>1 DEF Header
    <3>2. Begins(Header, FALSE)
      BY <2>4, <3>1
    <3> QED
      BY <2>1, <3>2, EntryThere
  <2> QED
    BY <1>1, <2>1, <2>5 DEF EntryInv, Walking
<1>3. CASE WavChunk
  <2>1. /\ reader = "wav" /\ file.format = "wav" /\ limit <= file.size
    BY <1>3 DEF WavChunk, Walking, Inv, WalkInv, WavInv, EntryInv
  <2>2. PICK e \in EntriesAt(pos) :
           LET end == pos + Header + e.body
           IN  \/ end > limit /\ Unreadable
               \/ end <= limit /\ e.kind = "tag" /\ Take(e)
               \/ end <= limit /\ e.kind = "skip" /\ SkipTo(end + (e.body % 2))
    BY <1>3 DEF WavChunk
  <2> DEFINE next == pos + Header + e.body + (e.body % 2)
  <2>3. CASE pos + Header + e.body <= limit /\ SkipTo(next)
    <3>1. /\ e \in Entry /\ e \in file.entries /\ e.at = pos
          /\ ~e.open /\ e.head = Header /\ e.body >= 0 /\ e.within = file.size
      BY <2>1, FileOK, EntryOK DEF EntriesAt, Inv, LayoutOK, Listed
    <3>2. /\ file' = file /\ pos' = next
          /\ UNCHANGED <<reader, pc, limit>>
      BY <2>3 DEF SkipTo, file
    <3>3. Whole(e) /\ After(file, e) = next /\ next \in Nat
      BY <1>1, <2>1, <2>3, <3>1 DEF Whole, After, Header, Entry
    <3>4. next + Header <= limit => Begins(next, e.inside)
      BY <1>1, <2>1, <3>1, <3>3, NextBegins DEF Inv, Least, Header
    <3> HIDE DEF next
    <3>5. pos' + Header <= limit' => EntriesAt(pos)' # {}
      BY <3>2, <3>4, EntryThere
    <3> QED
      BY <1>3, <2>1, <3>2, <3>5 DEF WavChunk, EntryInv, Walking
  <2> QED
    BY <2>2, <2>3, EntryDone DEF Take, Unreadable
<1> QED
  BY <1>2, <1>3

LEMMA EntryFlac == ASSUME Inv, EntryInv, FlacOpen \/ FlacBlock PROVE EntryInv'
<1>1. file.size \in Nat /\ written \in 0..file.size /\ pos \in Nat
  BY FileOK DEF Inv, TypeOK, LayoutOK
<1>2. ASSUME NEW result, Conclude(result) PROVE EntryInv'
  BY <1>2, EntryDone
<1>3. CASE FlacOpen /\ WalkFrom(file.start + Header, 0, "walk")
  <2>1. /\ file' = file /\ pc' = "walk" /\ pos' = file.start + Header
        /\ reader' = "flac" /\ file.format = "flac"
    BY <1>3 DEF FlacOpen, Opening, WalkFrom, file
  <2>2. FirstEntry(file) = file.start + Header
    BY <2>1 DEF FirstEntry
  <2>3. TypeOK /\ file.format \in {"wav", "flac", "m4a"}
    BY <2>1 DEF Inv
  <2>4. (file.start + Header) + Header <= file.size =>
           Begins(file.start + Header, FALSE)
    BY <2>1, <2>2, <2>3, FirstBegins
  <2>5. pos' + Header <= file'.size => EntriesAt(pos)' # {}
    BY <2>1, <2>4, EntryThere
  <2> QED
    BY <2>1, <2>5 DEF EntryInv, Walking
<1>4. CASE FlacBlock
  <2>1. reader = "flac" /\ file.format = "flac" /\ pc = "walk"
    BY <1>4 DEF FlacBlock, Walking, Inv, WalkInv, FlacInv
  <2>2. ASSUME NEW e \in EntriesAt(pos), ~e.last, SkipTo(pos + Header + e.body)
        PROVE  EntryInv'
    <3> DEFINE next == pos + Header + e.body
    <3>1. /\ e \in Entry /\ e \in file.entries /\ e.at = pos
          /\ ~e.open /\ e.head = Header /\ e.body >= 0 /\ e.within = file.size
      BY <2>1, <2>2, FileOK, EntryOK DEF EntriesAt, Inv, LayoutOK, Listed
    <3>2. file' = file /\ pos' = next /\ UNCHANGED <<reader, pc>>
      BY <2>2 DEF SkipTo, file
    <3>3. ASSUME next + Header <= file.size PROVE Begins(next, e.inside)
      <4>1. Whole(e) /\ After(file, e) = next /\ next \in Nat
        BY <1>1, <2>1, <3>1, <3>3 DEF Whole, After, Header, Entry
      <4> QED
        BY <2>1, <2>2, <3>1, <3>3, <4>1, NextBegins DEF Inv, Least, Header
    <3> HIDE DEF next
    <3>4. pos' + Header <= file'.size => EntriesAt(pos)' # {}
      BY <3>2, <3>3, EntryThere
    <3> QED
      BY <2>1, <3>2, <3>4 DEF EntryInv, Walking
  <2> QED
    BY <1>2, <1>4, <2>2 DEF FlacBlock, Take, Unreadable
<1> QED
  BY <1>2, <1>3, <1>4 DEF FlacOpen, Unreadable

LEMMA EntryM4aOpen == ASSUME Inv, M4aOpen PROVE EntryInv'
<1>1. file.size \in Nat /\ written \in 0..file.size
  BY FileOK DEF Inv, TypeOK, LayoutOK
<1>2. /\ file' = file /\ pc' = "walk" /\ pos' = 0 /\ limit' = written
      /\ reader' = "m4a"
  BY DEF M4aOpen, Opening, WalkFrom, file
<1>3. ASSUME file.format = "m4a", 0 < written PROVE Begins(0, FALSE)
  <2>1. TypeOK /\ file.format \in {"wav", "flac", "m4a"} /\ 0 + 1 <= file.size
    BY <1>1, <1>3 DEF Inv
  <2> QED
    BY <1>3, <2>1, FirstBegins
<1>4. file'.format = "m4a" /\ pos' < limit' => Atoms(FALSE)' # {}
  BY <1>2, <1>3, EntryThere
<1> QED
  BY <1>2, <1>4 DEF EntryInv, Walking

LEMMA EntryM4aAtom == ASSUME Inv, EntryInv, M4aAtom PROVE EntryInv'
<1>1. /\ file.size \in Nat /\ pos \in Nat /\ limit \in Nat /\ limit <= file.size
      /\ pc = "walk" /\ reader = "m4a" /\ file.format = "m4a"
  BY FileOK DEF M4aAtom, Walking, Inv, TypeOK, WalkInv, M4aInv, LayoutOK
<1>2. PICK e \in Atoms(FALSE) :
          /\ Fits(e)
          /\ \/ /\ e.kind = "moov"
                /\ WalkFrom(pos + e.head, pos + Size(e), "moov")
             \/ e.kind = "skip" /\ SkipTo(pos + Size(e))
  BY DEF M4aAtom
<1>3. /\ e \in Entry /\ e \in file.entries /\ e.at = pos /\ ~e.inside
      /\ e.within = file.size
  BY <1>1, <1>2, FileOK, EntryOK DEF Atoms, EntriesAt, Inv, LayoutOK, Nested
<1>4. /\ pos + Size(e) \in Nat /\ pos + Size(e) <= limit
      /\ ~e.open => e.body >= 0 /\ e.at + e.head + e.body = pos + Size(e)
      /\ e.open => pos + Size(e) = limit
  BY <1>2, <1>3, AtomFits
<1>5. e.open \/ Whole(e)
  BY <1>1, <1>3, <1>4 DEF Whole
<1>6. ~e.open => After(file, e) = pos + Size(e)
  BY <1>1, <1>3, <1>4 DEF After, Entry, Header
<1>7. CASE e.kind = "moov" /\ WalkFrom(pos + e.head, pos + Size(e), "moov")
  <2>1. /\ file' = file /\ pc' = "moov" /\ pos' = pos + e.head
        /\ limit' = pos + Size(e)
    BY <1>7 DEF WalkFrom, file
  <2>2. pos + Size(e) <= After(file, e)
    BY <1>1, <1>3, <1>4, <1>6 DEF After
  <2>3. \A d \in file.entries : d.inside => limit' <= d.within
    <3> TAKE d \in file.entries
    <3> SUFFICES ASSUME d.inside PROVE limit' <= d.within
      OBVIOUS
    <3>1. d.within = IF e.open THEN file.size ELSE e.at + e.head + e.body
      BY <1>1, <1>3, <1>5, <1>7, FileOK DEF Inv, LayoutOK, Nested
    <3> QED
      BY <1>1, <1>3, <1>4, <2>1, <3>1
  <2>4. ASSUME pos' + Header <= limit' PROVE Begins(pos + e.head, TRUE)
    <3>1. After(file, e) \in Int /\ e.at + e.head + Header <= After(file, e)
      BY <1>1, <1>3, <1>4, <1>6, <2>1, <2>2, <2>4 DEF After, Entry, Header
    <3> QED
      BY <1>3, <1>5, <1>7, <3>1, ChildBegins DEF Inv
  <2>5. pos' + Header <= limit' => Atoms(TRUE)' # {}
    BY <2>1, <2>4, EntryThere
  <2> QED
    BY <2>1, <2>3, <2>5 DEF EntryInv, Walking
<1>8. CASE SkipTo(pos + Size(e))
  <2>1. /\ file' = file /\ pos' = pos + Size(e) /\ UNCHANGED <<reader, pc, limit>>
    BY <1>8 DEF SkipTo, file
  <2>2. ASSUME pos' < limit' PROVE Begins(pos + Size(e), FALSE)
    <3>1. ~e.open
      BY <1>1, <1>4, <2>1, <2>2
    <3>2. Least(e.inside) = 1 /\ (e.inside <=> FALSE)
      BY <1>1, <1>3 DEF Least
    <3>3. After(file, e) + Least(e.inside) <= e.within
      BY <1>1, <1>3, <1>4, <1>6, <2>1, <2>2, <3>1, <3>2
    <3>4. Begins(After(file, e), e.inside)
      BY <1>1, <1>3, <1>5, <3>3, NextBegins DEF Inv
    <3> QED
      BY <1>6, <3>1, <3>2, <3>4 DEF Begins, Entry
  <2>3. pos' < limit' => Atoms(FALSE)' # {}
    BY <2>1, <2>2, EntryThere
  <2> QED
    BY <1>1, <2>1, <2>3 DEF EntryInv, Walking
<1> QED
  BY <1>2, <1>7, <1>8

LEMMA EntryMoovChild == ASSUME Inv, EntryInv, MoovChild PROVE EntryInv'
<1>1. /\ pos \in Nat /\ limit \in Nat /\ pc = "moov" /\ file.format = "m4a"
      /\ \A d \in file.entries : d.inside => limit <= d.within
  BY DEF MoovChild, Inv, TypeOK, WalkInv, M4aInv, EntryInv
<1>2. PICK e \in Atoms(TRUE) :
          /\ Fits(e)
          /\ \/ e.kind = "tag" /\ Take([e EXCEPT !.body = Size(e) - e.head])
             \/ e.kind = "skip" /\ SkipTo(pos + Size(e))
  BY DEF MoovChild
<1>3. CASE SkipTo(pos + Size(e))
  <2>1. /\ e \in Entry /\ e \in file.entries /\ e.at = pos /\ e.inside
        /\ limit <= e.within
    BY <1>1, <1>2, EntryOK DEF Atoms, EntriesAt, Inv
  <2>2. /\ pos + Size(e) \in Nat /\ pos + Size(e) <= limit
        /\ ~e.open => e.body >= 0 /\ e.at + e.head + e.body = pos + Size(e)
        /\ e.open => pos + Size(e) = limit
    BY <1>2, <2>1, AtomFits
  <2>3. e.open \/ Whole(e)
    BY <1>1, <2>1, <2>2 DEF Whole, Entry
  <2>4. /\ file' = file /\ pos' = pos + Size(e) /\ UNCHANGED <<reader, pc, limit>>
    BY <1>3 DEF SkipTo, file
  <2>5. ASSUME pos' + Header <= limit' PROVE Begins(pos + Size(e), TRUE)
    <3>1. ~e.open
      BY <1>1, <2>2, <2>4, <2>5 DEF Header
    <3>2. After(file, e) = pos + Size(e)
      BY <1>1, <2>1, <2>2, <3>1 DEF After, Entry, Header
    <3>3. Least(e.inside) = Header /\ (e.inside <=> TRUE)
      BY <2>1 DEF Least
    <3>4. pos + Size(e) + Header <= limit /\ e.within \in Nat
      BY <2>1, <2>4, <2>5 DEF Entry
    <3>5. pos + Size(e) + Header <= e.within
      BY <1>1, <2>1, <2>2, <3>4 DEF Header
    <3>6. After(file, e) + Least(e.inside) <= e.within
      BY <3>2, <3>3, <3>5
    <3>7. Begins(After(file, e), e.inside)
      BY <1>1, <2>1, <2>3, <3>6, NextBegins DEF Inv
    <3> QED
      BY <3>2, <3>3, <3>7 DEF Begins, Entry
  <2>6. pos' + Header <= limit' => Atoms(TRUE)' # {}
    BY <2>4, <2>5, EntryThere
  <2> QED
    BY <1>1, <2>4, <2>6 DEF EntryInv, Walking
<1> QED
  BY <1>2, <1>3, EntryDone DEF Take, Unreadable

LEMMA EntryInit == Init => EntryInv
BY DEF Init, EntryInv, Walking

LEMMA EntryStep == ASSUME Inv, EntryInv, [Next]_vars PROVE EntryInv'
<1>1. CASE Grow \/ UNCHANGED vars
  <2>1. UNCHANGED <<name, reader, pc, pos, limit>> /\ file' = file
    BY <1>1 DEF Grow, vars, file
  <2> QED
    BY <2>1 DEF EntryInv, Walking, EntriesAt, Atoms
<1>2. CASE AacSniff
  <2>1. pc' \in {"open", "done"}
    BY <1>2 DEF AacSniff, Opening, Unreadable, Conclude
  <2> QED
    BY <2>1 DEF EntryInv, Walking
<1>3. CASE NotOpened \/ BadStart \/ TooMany \/ NoMoov \/ AtomRefused
           \/ WavEnd \/ MoovEnd \/ WmaEnd \/ Mp3Tag \/ DsfTag
  BY <1>3, EntryDone
     DEF NotOpened, BadStart, TooMany, NoMoov, AtomRefused, WavEnd, MoovEnd, WmaEnd,
         Mp3Tag, DsfTag, Unreadable, Take
<1>4. CASE WmaOpen \/ WmaObject \/ DsfHeader
  <2>1. \/ pc' = "done"
        \/ pc' = "walk" /\ reader' \in {"wma", "dsf"}
    BY <1>4 DEF WmaOpen, WmaObject, DsfHeader, Opening, Walking, WalkFrom, SkipTo,
                Take, Unreadable, Conclude
  <2> QED
    BY <2>1 DEF EntryInv, Walking
<1> QED
  BY <1>1, <1>3, <1>4, <1>2, EntryWav, EntryFlac, EntryM4aOpen, EntryM4aAtom,
     EntryMoovChild DEF Next, Walk

-----------------------------------------------------------------------------
(* Sound files are read *)

\* No step changes the file, and none of these enters or leaves the Ogg walk.
LEMMA NextFrame ==
    ASSUME Inv, Next
    PROVE  /\ UNCHANGED <<name, whole>>
           /\ pc' = "ogg" => pc = "ogg" /\ reader' = reader
<1>1. CASE Grow
  BY <1>1 DEF Grow
<1>2. ASSUME NEW result, Conclude(result)
      PROVE  UNCHANGED <<name, whole>> /\ pc' # "ogg"
  BY <1>2 DEF Conclude, rest
<1>3. ASSUME NEW offset, NEW end, NEW where \in {"walk", "moov"},
             WalkFrom(offset, end, where)
      PROVE  UNCHANGED <<name, whole>> /\ pc' # "ogg"
  BY <1>3 DEF WalkFrom
<1>4. ASSUME NEW offset, SkipTo(offset)
      PROVE  UNCHANGED <<name, whole>> /\ pc' = pc /\ reader' = reader
  BY <1>4 DEF SkipTo
<1>5. CASE NotOpened \/ BadStart \/ TooMany \/ WavEnd \/ NoMoov \/ AtomRefused
           \/ MoovEnd \/ WmaEnd \/ Mp3Tag \/ DsfTag
  BY <1>2, <1>5 DEF NotOpened, BadStart, TooMany, WavEnd, NoMoov, AtomRefused,
                    MoovEnd, WmaEnd, Mp3Tag, DsfTag, Take, Unreadable
<1>6. CASE WavOpen \/ FlacOpen \/ M4aOpen \/ WmaOpen \/ DsfHeader
  BY <1>2, <1>3, <1>6 DEF WavOpen, FlacOpen, M4aOpen, WmaOpen, DsfHeader, Unreadable
<1>7. CASE WavChunk \/ FlacBlock \/ M4aAtom \/ MoovChild \/ WmaObject
  BY <1>2, <1>3, <1>4, <1>7 DEF WavChunk, FlacBlock, M4aAtom, MoovChild, WmaObject,
                                Take, Unreadable
<1>8. CASE AacSniff
  <2>1. pc' \in {"open", "done"} /\ UNCHANGED <<name, whole>>
    BY <1>8 DEF AacSniff, Opening, Unreadable, Conclude, rest
  <2> QED
    BY <2>1
<1> QED
  BY <1>1, <1>5, <1>6, <1>7, <1>8 DEF Next, Walk

\* The file is sound and was complete when it was opened.
Good == whole /\ name \in Sound /\ file.format # "ogg"

\* Entries of this walk in front of an offset.
Passed(offset) == {e \in Level(file, pc = "moov") : e.at < offset}

\* What the extractor has yet to find lies ahead.
Ahead ==
    /\ reader = "flac" => pos + Header <= file.size
    /\ reader = "m4a" => \E e \in file.entries : /\ e.kind = "moov" /\ ~e.inside
                                                 /\ pos <= e.at
    /\ reader = "wma" =>
          /\ Cardinality(Passed(pos)) <= seen
          /\ (\E e \in file.entries : pos <= e.at) => EntriesAt(pos) # {}
    /\ reader = "dsf" => pos = file.offset /\ pos # 0

SoundInv ==
    Good =>
        /\ reading # "FileUnreadable"
        /\ pc = "open" =>
              /\ pos = 0
              /\ \/ reader = file.format
                 \/ reader = "mp3" /\ file.format = "adts"
                 \/ reader = "aac" /\ file.format \in {"adts", "m4a"}
        /\ pc \in {"walk", "moov"} =>
              reader = file.format /\ seen <= Cardinality(Passed(pos))
        /\ pc = "walk" => Ahead

LEMMA GoodFacts ==
    ASSUME Inv, Good
    PROVE  /\ TypeOK /\ Intact(file) /\ LayoutOK(file)
           /\ written = file.size /\ file.size \in Nat
           /\ pos \in Nat /\ limit \in Nat /\ seen \in 0..MaxEntries
           /\ MaxEntries \in Nat /\ MaxRead \in Nat
<1>1. TypeOK /\ LayoutOK(file)
  BY FileOK DEF Inv
<1>2. Intact(file)
  BY SoundAssumption DEF Good, file
<1>3. written = file.size
  BY DEF Good, Inv, WalkInv
<1> QED
  BY <1>1, <1>2, <1>3, FileAssumption DEF TypeOK, LayoutOK

LEMMA IntactFields ==
    ASSUME NEW fields, FieldsIntact(fields)
    PROVE  RatingFromFields(fields) # "FileUnreadable"
BY DEF FieldsIntact, RatingFromFields, Verdict

LEMMA IntactAtoms ==
    ASSUME NEW atoms \in Seq(Atom), NEW type, AtomsIntact(atoms, type)
    PROVE  FindAtom(atoms, type) # "malformed"
<1> DEFINE stops == {i \in DOMAIN atoms : atoms[i].type = type \/ ~atoms[i].fits}
<1>1. CASE \A i \in DOMAIN atoms : atoms[i].type # type /\ atoms[i].fits
  <2>1. stops = {}
    BY <1>1
  <2> QED
    BY <2>1 DEF FindAtom
<1>2. ASSUME NEW i \in DOMAIN atoms, atoms[i].type = type,
             \A j \in 1..i : atoms[j].fits /\ (atoms[j].type = type => j = i)
      PROVE  FindAtom(atoms, type) # "malformed"
  <2>1. i \in Nat /\ i \in 1..i /\ DOMAIN atoms = 1..Len(atoms)
    BY <1>2
  <2>2. i \in stops /\ atoms[i].fits
    BY <1>2, <2>1
  <2>3. \A j \in stops : i <= j
    <3> SUFFICES ASSUME NEW j \in stops, ~(i <= j) PROVE FALSE
      OBVIOUS
    <3>1. j \in DOMAIN atoms /\ (atoms[j].type = type \/ ~atoms[j].fits)
      OBVIOUS
    <3>2. j \in 1..i /\ j # i
      BY <2>1, <3>1
    <3> QED
      BY <1>2, <3>1, <3>2
  <2>4. stops # {} /\ \E k \in stops : atoms[k].fits /\ \A j \in stops : k <= j
    BY <2>2, <2>3
  <2> QED
    BY <2>4 DEF FindAtom
<1> QED
  BY <1>1, <1>2 DEF AtomsIntact

\* The parser of its format reads the tag of a sound file.
LEMMA IntactParsed ==
    ASSUME TypeOK, Intact(file), Fitting
    PROVE  Parse(reader, file.tag) # "FileUnreadable"
<1>1. TagOf(file) /\ TagIntact(file)
  BY FileOK DEF LayoutOK, Intact
<1>2. CASE reader \in {"mp3", "wav", "dsf"}
  <2> DEFINE tag == file.tag
             fields == [i \in DOMAIN tag.frames |->
                           [rating |-> IF tag.frames[i].flagged THEN "none"
                                       ELSE tag.frames[i].rating,
                            fits |-> tag.frames[i].fits]]
  <2>1. /\ tag \in SoundID3Tag /\ Parse(reader, tag) = RatingFromID3v2(tag)
        /\ tag.version \in {3, 4} /\ tag.extended # "broken"
        /\ \A i \in DOMAIN tag.frames :
              tag.frames[i].fits /\ ~(tag.frames[i].carrier /\ tag.frames[i].flagged)
    BY <1>1, <1>2 DEF Fitting, TagOf, TagIntact, Parse
  <2>2. /\ Prepared(tag).version = tag.version /\ Prepared(tag).frames = tag.frames
        /\ Prepared(tag).extended = "none" /\ Prepared(tag).shortPadding = FALSE
    BY <2>1 DEF Prepared, SoundID3Tag, ID3Tag
  <2>3. ~Unsupported(tag)
    BY <2>1 DEF Unsupported, Walked
  <2>4. RatingFromID3v2(tag) = RatingFromFields(fields)
    BY <2>1, <2>2, <2>3 DEF RatingFromID3v2, Library
  <2>5. FieldsIntact(fields)
    BY <2>1 DEF FieldsIntact
  <2> QED
    BY <2>1, <2>4, <2>5, IntactFields
<1>3. CASE reader = "m4a"
  <2> DEFINE tag == file.tag
  <2>1. /\ tag \in Udta /\ Parse(reader, tag) = RatingFromM4A(tag)
        /\ tag.style \in {"full", "quicktime"}
        /\ AtomsIntact(tag.udta, "meta") /\ AtomsIntact(tag.meta, "ilst")
        /\ FieldsIntact(tag.ilst)
    BY <1>1, <1>3 DEF Fitting, TagOf, TagIntact, Parse
  <2>2. tag.udta \in Seq(Atom) /\ tag.meta \in Seq(Atom)
    BY <2>1 DEF Udta
  <2>3. FindAtom(tag.udta, "meta") # "malformed" /\ FindIlst(tag) # "malformed"
    BY <2>1, <2>2, IntactAtoms DEF FindIlst
  <2>4. /\ FindAtom(tag.udta, "meta") \in {"nil", "found"}
        /\ FindIlst(tag) \in {"nil", "found"}
    BY <2>1, <2>3, FindAtomTruthful DEF FindIlst
  <2> QED
    BY <2>1, <2>4, IntactFields DEF RatingFromM4A
<1>4. CASE reader \in {"flac", "wma"}
  BY <1>1, <1>4, IntactFields DEF Fitting, TagIntact, Parse
<1> QED
  BY <1>2, <1>3, <1>4 DEF Fitting

LEMMA GoodKept == ASSUME UNCHANGED <<name, whole>> PROVE (Good' <=> Good) /\ file' = file
BY DEF Good, file

\* The end of a walk, with a reading.
LEMMA SoundDone ==
    ASSUME Inv, SoundInv, NEW result, Conclude(result), result # "FileUnreadable"
    PROVE  SoundInv'
<1>1. pc' = "done" /\ reading' = result /\ UNCHANGED <<name, whole>>
  BY DEF Conclude, rest
<1> QED
  BY <1>1 DEF SoundInv

LEMMA SoundTaken ==
    ASSUME Inv, SoundInv, Good, Fitting, NEW e, Take(e),
           e.body <= MaxRead, e.body \in Int, pos + e.head + e.body <= file.size
    PROVE  SoundInv'
<1>1. OnDisk(pos + e.head + e.body) /\ MaxRead \in Nat
  BY GoodFacts DEF OnDisk
<1>2. Conclude(Parse(reader, file.tag))
  BY <1>1 DEF Take
<1> QED
  BY <1>2, SoundDone, GoodFacts, IntactParsed

-----------------------------------------------------------------------------
(* How many entries are seen *)

LEMMA LevelFinite ==
    ASSUME TypeOK, NEW inside, NEW S \in SUBSET Level(file, inside)
    PROVE  /\ IsFiniteSet(S) /\ Cardinality(S) \in Nat
           /\ IsFiniteSet(Level(file, inside))
           /\ Cardinality(Level(file, inside)) \in Nat
           /\ Cardinality(S) <= Cardinality(Level(file, inside))
<1>1. IsFiniteSet(file.entries) /\ Level(file, inside) \subseteq file.entries
  BY FileOK DEF LayoutOK, Level
<1>2. IsFiniteSet(Level(file, inside))
  BY <1>1, FS_Subset
<1> QED
  BY <1>2, FS_Subset, FS_CardinalityType

LEMMA PassedFinite ==
    ASSUME TypeOK, NEW offset
    PROVE  IsFiniteSet(Passed(offset)) /\ Cardinality(Passed(offset)) \in Nat
BY LevelFinite DEF Passed

\* With one more entry passed over there is one more behind the reader.
LEMMA PassedGrows ==
    ASSUME TypeOK, NEW e \in Level(file, pc = "moov"), e.at = pos,
           NEW S \in SUBSET Level(file, pc = "moov"), Passed(pos) \union {e} \subseteq S
    PROVE  Cardinality(Passed(pos)) + 1 <= Cardinality(S)
<1>1. e \notin Passed(pos) /\ IsFiniteSet(S)
  <2>1. pos \in Nat
    BY DEF TypeOK
  <2> QED
    BY <2>1, LevelFinite DEF Passed
<1>2. /\ IsFiniteSet(Passed(pos) \union {e})
      /\ Cardinality(Passed(pos) \union {e}) = Cardinality(Passed(pos)) + 1
  BY <1>1, PassedFinite, FS_AddElement
<1> QED
  BY <1>1, <1>2, FS_Subset

\* Where an entry begins there is room for one more.
LEMMA RoomForEntry ==
    ASSUME Inv, Good, seen <= Cardinality(Passed(pos)),
           NEW e \in Level(file, pc = "moov"), e.at = pos
    PROVE  seen < MaxEntries
<1>1. TypeOK /\ Intact(file) /\ seen \in Nat /\ MaxEntries \in Nat
  BY GoodFacts
<1>2. Cardinality(Passed(pos)) + 1 <= Cardinality(Level(file, pc = "moov"))
  BY <1>1, PassedGrows DEF Passed
<1>3. Cardinality(Level(file, pc = "moov")) <= MaxEntries
  BY <1>1 DEF Intact
<1>4. /\ Cardinality(Level(file, pc = "moov")) \in Nat
      /\ Cardinality(Passed(pos)) \in Nat
  BY <1>1, LevelFinite, PassedFinite
<1> QED
  BY <1>1, <1>2, <1>3, <1>4

\* A seek over an entry.
LEMMA SeekCounts ==
    ASSUME Inv, Good, NEW e \in Level(file, pc = "moov"), e.at = pos,
           NEW offset \in Nat, offset > pos, SkipTo(offset),
           seen <= Cardinality(Passed(pos))
    PROVE  seen' <= Cardinality(Passed(pos))' /\ Passed(pos)' = Passed(offset)
<1>1. TypeOK /\ seen \in Nat /\ pos \in Nat
  BY GoodFacts
<1>2. \A d \in Level(file, pc = "moov") : d.at \in Nat
  BY <1>1, EntryOK DEF Level, Entry
<1>3. Passed(pos) \union {e} \subseteq Passed(offset)
  BY <1>1, <1>2 DEF Passed
<1>4. Cardinality(Passed(pos)) + 1 <= Cardinality(Passed(offset))
  BY <1>1, <1>3, PassedGrows DEF Passed
<1>5. Passed(pos)' = Passed(offset) /\ seen' = seen + 1
  BY DEF SkipTo, Passed, Level, file
<1>6. Cardinality(Passed(pos)) \in Nat /\ Cardinality(Passed(offset)) \in Nat
  BY <1>1, PassedFinite
<1> QED
  BY <1>1, <1>4, <1>5, <1>6

\* The start of a walk: nothing seen yet.
LEMMA WalkStarts ==
    ASSUME Inv, NEW offset, NEW end, NEW where, WalkFrom(offset, end, where)
    PROVE  seen' <= Cardinality(Passed(pos))'
<1> DEFINE S == {d \in Level(file, where = "moov") : d.at < offset}
<1>1. Passed(pos)' = S /\ seen' = 0
  BY DEF WalkFrom, Passed, Level, file
<1>2. Cardinality(S) \in Nat
  BY LevelFinite DEF Inv
<1> QED
  BY <1>1, <1>2

-----------------------------------------------------------------------------
(* Steps of the walks of a sound file *)

LEMMA IntactEntry ==
    ASSUME Inv, Good, NEW e \in file.entries
    PROVE  /\ e \in Entry /\ EntryIntact(file, e) /\ e.head >= Header
           /\ e.at + Header <= file.size
<1>1. e \in Entry /\ EntryIntact(file, e) /\ file.size \in Nat
  BY GoodFacts, EntryOK DEF Intact
<1>2. /\ e.at \in Nat /\ e.within \in Nat /\ e.head \in Nat /\ e.head >= Header
      /\ e.at + e.head <= e.within /\ e.within <= file.size
  BY <1>1 DEF EntryIntact, Entry, Header
<1> QED
  BY <1>1, <1>2 DEF Header

LEMMA SoundWalks ==
    ASSUME Good, UNCHANGED <<name, whole>>, reading' # "FileUnreadable",
           pc' \in {"walk", "moov"}, reader' = file.format,
           seen' <= Cardinality(Passed(pos))', pc' = "walk" => Ahead'
    PROVE  SoundInv'
BY GoodKept DEF SoundInv

\* Nothing that stops the extractor at the start is wrong with a sound file.
LEMMA SoundStart ==
    ASSUME Inv, SoundInv, Good, NotOpened \/ BadStart PROVE FALSE
<1>1. /\ Intact(file) /\ written = file.size
      /\ pc = "open" => \/ reader = file.format
                        \/ reader = "mp3" /\ file.format = "adts"
                        \/ reader = "aac" /\ file.format \in {"adts", "m4a"}
  BY GoodFacts DEF SoundInv
<1>2. CASE NotOpened
  BY <1>1, <1>2 DEF NotOpened, Intact
<1>3. CASE BadStart
  <2>1. file.format = reader /\ reader \in {"flac", "wav", "dsf", "wma"}
    BY <1>1, <1>3 DEF BadStart
  <2>2. OnDisk(Header) /\ (reader = "wma" => OnDisk(AsfHeader))
    BY <1>1, <2>1, GoodFacts DEF Intact, OnDisk, AsfHeader
  <2> QED
    BY <1>3, <2>1, <2>2 DEF BadStart
<1> QED
  BY <1>2, <1>3

LEMMA SoundTooMany ==
    ASSUME Inv, EntryInv, SoundInv, Good, TooMany PROVE FALSE
<1>1. /\ pc \in {"walk", "moov"} /\ reader = file.format
      /\ seen <= Cardinality(Passed(pos)) /\ seen >= MaxEntries
      /\ pc = "walk" => Ahead
  BY DEF TooMany, SoundInv
<1>2. TypeOK /\ Intact(file) /\ seen \in Nat /\ MaxEntries \in Nat
  BY GoodFacts
<1>3. ASSUME NEW e \in Level(file, pc = "moov"), e.at = pos PROVE FALSE
  BY <1>1, <1>2, <1>3, RoomForEntry
<1>4. CASE pc = "walk" /\ reader = "wav"
  <2>1. Level(file, pc = "moov") = file.entries
    BY <1>1, <1>4 DEF Level
  <2>2. Cardinality(Passed(pos)) <= Cardinality(file.entries)
    BY <1>2, <2>1, LevelFinite DEF Passed
  <2>3. Cardinality(Passed(pos)) \in Nat /\ Cardinality(file.entries) \in Nat
    BY <1>2, <2>1, LevelFinite, PassedFinite DEF Passed
  <2> QED
    BY <1>1, <1>2, <1>4, <2>2, <2>3 DEF Intact
<1>5. CASE pc = "walk" /\ reader = "flac"
  <2>1. PICK e \in file.entries : e.at = pos
    BY <1>1, <1>5 DEF EntryInv, Walking, Ahead, EntriesAt
  <2> QED
    BY <1>1, <1>3, <1>5, <2>1 DEF Level
<1>6. CASE pc = "walk" /\ reader = "m4a" /\ pos < limit
  <2>1. PICK e \in file.entries : e.at = pos /\ e.inside = FALSE
    BY <1>1, <1>6 DEF EntryInv, Walking, Atoms, EntriesAt
  <2> QED
    BY <1>3, <1>6, <2>1 DEF Level
<1>7. CASE pc = "moov" /\ pos + Header <= limit
  <2>1. PICK e \in file.entries : e.at = pos /\ e.inside = TRUE
    BY <1>1, <1>7 DEF EntryInv, Atoms, EntriesAt
  <2> QED
    BY <1>3, <1>7, <2>1 DEF Level
<1> QED
  BY <1>4, <1>5, <1>6, <1>7 DEF TooMany

LEMMA SoundWav ==
    ASSUME Inv, SoundInv, Good, WavOpen \/ WavEnd \/ WavChunk PROVE SoundInv'
<1>1. CASE WavOpen
  <2>1. WalkFrom(Header, written, "walk") /\ reader = "wav" /\ file.format = "wav"
    BY <1>1 DEF WavOpen, Opening
  <2>2. /\ pc' = "walk" /\ UNCHANGED <<name, whole, reader, reading>>
        /\ seen' <= Cardinality(Passed(pos))'
    BY <2>1, WalkStarts DEF WalkFrom
  <2> QED
    BY <2>1, <2>2, SoundWalks DEF SoundInv, Ahead
<1>2. CASE WavEnd
  BY <1>2, SoundDone DEF WavEnd
<1>3. CASE WavChunk
  <2>1. /\ pc = "walk" /\ reader = "wav" /\ file.format = "wav"
        /\ limit = file.size /\ seen <= Cardinality(Passed(pos))
    BY <1>3 DEF WavChunk, Walking, SoundInv, Inv, WalkInv, WavInv, Good
  <2>2. PICK e \in EntriesAt(pos) :
           LET end == pos + Header + e.body
           IN  \/ end > limit /\ Unreadable
               \/ end <= limit /\ e.kind = "tag" /\ Take(e)
               \/ end <= limit /\ e.kind = "skip" /\ SkipTo(end + (e.body % 2))
    BY <1>3 DEF WavChunk
  <2>3. /\ e \in file.entries /\ e.at = pos /\ e.head = Header /\ ~e.open
        /\ e.body >= 0
    BY <2>1, <2>2, GoodFacts DEF EntriesAt, LayoutOK, Listed
  <2>4. /\ e \in Entry /\ EntryIntact(file, e) /\ pos \in Nat
        /\ e.body \in Nat /\ file.size \in Nat
    BY <2>3, IntactEntry, GoodFacts DEF Entry
  <2>5. pos + Header + e.body <= file.size /\ (e.kind = "tag" => e.body <= MaxRead)
    BY <2>3, <2>4, GoodFacts DEF EntryIntact, Whole, Entry, Header
  <2>6. ~(pos + Header + e.body > limit)
    BY <2>1, <2>4, <2>5 DEF Header
  <2>7. CASE e.kind = "tag" /\ Take(e)
    BY <2>1, <2>3, <2>4, <2>5, <2>7, SoundTaken DEF Fitting
  <2>8. CASE SkipTo(pos + Header + e.body + (e.body % 2))
    <3> DEFINE next == pos + Header + e.body + (e.body % 2)
    <3>1. next \in Nat /\ next > pos
      BY <2>4 DEF Header
    <3> HIDE DEF next
    <3>2. e \in Level(file, pc = "moov") /\ SkipTo(next)
      BY <2>1, <2>3, <2>8 DEF Level, next
    <3>3. seen' <= Cardinality(Passed(pos))'
      BY <2>1, <2>3, <3>1, <3>2, SeekCounts
    <3> QED
      BY <2>1, <3>2, <3>3, SoundWalks DEF SkipTo, SoundInv, Ahead
  <2> QED
    BY <2>2, <2>6, <2>7, <2>8
<1> QED
  BY <1>1, <1>2, <1>3

LEMMA SoundFlac ==
    ASSUME Inv, EntryInv, SoundInv, Good, FlacOpen \/ FlacBlock PROVE SoundInv'
<1>1. CASE FlacOpen
  <2>1. /\ reader = "flac" /\ file.format = "flac" /\ file.start = LeadLength(file.lead)
        /\ FirstEntry(file) + Header <= file.size /\ FirstEntry(file) = file.start + Header
    BY <1>1, GoodFacts DEF FlacOpen, Opening, Intact, FirstEntry
  <2>2. OnDisk(file.start + Header)
    BY <2>1, GoodFacts DEF OnDisk, Header, LayoutOK
  <2>3. WalkFrom(file.start + Header, 0, "walk")
    BY <1>1, <2>1, <2>2 DEF FlacOpen
  <2>4. /\ pc' = "walk" /\ UNCHANGED <<name, whole, reader, reading>>
        /\ pos' = file.start + Header /\ file' = file
        /\ seen' <= Cardinality(Passed(pos))'
    BY <2>3, WalkStarts DEF WalkFrom, file
  <2>5. Ahead'
    BY <2>1, <2>4 DEF Ahead
  <2> QED
    BY <2>1, <2>4, <2>5, SoundWalks DEF SoundInv
<1>2. CASE FlacBlock
  <2>1. /\ pc = "walk" /\ reader = "flac" /\ file.format = "flac"
        /\ seen <= Cardinality(Passed(pos)) /\ pos + Header <= file.size
    BY <1>2 DEF FlacBlock, Walking, SoundInv, Inv, WalkInv, FlacInv, Ahead
  <2>2. OnDisk(pos + Header)
    BY <2>1, GoodFacts DEF OnDisk
  <2>3. PICK e \in EntriesAt(pos) :
           \/ e.kind = "tag" /\ Take(e)
           \/ e.kind = "skip" /\ e.last /\ Conclude("TagAbsent")
           \/ e.kind = "skip" /\ ~e.last /\ SkipTo(pos + Header + e.body)
    BY <1>2, <2>2 DEF FlacBlock
  <2>4. /\ e \in file.entries /\ e.at = pos /\ e.head = Header /\ ~e.open
        /\ e.body >= 0
    BY <2>1, <2>3, GoodFacts DEF EntriesAt, LayoutOK, Listed
  <2>5. /\ e \in Entry /\ EntryIntact(file, e) /\ pos \in Nat
        /\ e.body \in Nat /\ file.size \in Nat
    BY <2>4, IntactEntry, GoodFacts DEF Entry
  <2>6. pos + Header + e.body <= file.size /\ (e.kind = "tag" => e.body <= MaxRead)
    BY <2>4, <2>5, GoodFacts DEF EntryIntact, Whole, Entry, Header
  <2>7. CASE e.kind = "tag" /\ Take(e)
    BY <2>1, <2>4, <2>5, <2>6, <2>7, SoundTaken DEF Fitting
  <2>8. CASE Conclude("TagAbsent")
    BY <2>8, SoundDone
  <2>9. CASE ~e.last /\ SkipTo(pos + Header + e.body)
    <3> DEFINE next == pos + Header + e.body
    <3>1. next \in Nat /\ next > pos
      BY <2>5 DEF Header
    <3>2. next + Header <= file.size
      <4>1. After(file, e) = next
        BY <2>1, <2>4, <2>5 DEF After, Header
      <4>2. After(file, e) + Header <= file.size
        BY <2>1, <2>4, <2>9, GoodFacts DEF Intact
      <4> QED
        BY <4>1, <4>2
    <3> HIDE DEF next
    <3>3. e \in Level(file, pc = "moov") /\ SkipTo(next)
      BY <2>1, <2>4, <2>9 DEF Level, next
    <3>4. seen' <= Cardinality(Passed(pos))'
      BY <2>1, <2>4, <3>1, <3>3, SeekCounts
    <3>5. pos' = next /\ file' = file /\ UNCHANGED <<name, whole, reader, pc, reading>>
      BY <3>3 DEF SkipTo, file
    <3>6. Ahead'
      BY <2>1, <3>2, <3>5 DEF Ahead
    <3> QED
      BY <2>1, <3>4, <3>5, <3>6, SoundWalks DEF SoundInv
  <2> QED
    BY <2>3, <2>7, <2>8, <2>9
<1> QED
  BY <1>1, <1>2

\* An atom of a sound file fits where it lies.
LEMMA SoundAtomFits ==
    ASSUME Inv, Good, file.format = "m4a", pc \in {"walk", "moov"}, reader = "m4a",
           NEW e \in Atoms(pc = "moov")
    PROVE  /\ e \in Entry /\ e \in Level(file, pc = "moov") /\ e.at = pos
           /\ e.within = limit /\ limit <= file.size /\ EntryIntact(file, e)
           /\ Fits(e) /\ OnDisk(pos + e.head)
           /\ pos + Size(e) \in Nat /\ pos + Size(e) > pos /\ pos + Size(e) <= limit
<1>1. /\ e \in file.entries /\ e.at = pos /\ (e.inside <=> pc = "moov")
      /\ e \in Entry /\ e \in Level(file, pc = "moov")
  BY EntryOK DEF Atoms, EntriesAt, Inv, Level, Entry
<1>2. /\ EntryIntact(file, e) /\ pos \in Nat /\ limit \in Nat /\ file.size \in Nat
      /\ written = file.size
  BY <1>1, IntactEntry, GoodFacts
<1>3. e.within = limit
  <2>1. CASE pc = "walk"
    BY <1>1, <2>1, GoodFacts DEF LayoutOK, Nested, Inv, WalkInv, M4aInv, Walking, Good
  <2>2. CASE pc = "moov"
    BY <1>1, <2>2 DEF Inv, WalkInv, M4aInv, Good
  <2> QED
    BY <2>1, <2>2
<1>4. limit <= file.size /\ (e.open \/ Whole(e)) /\ pos + e.head <= limit
  BY <1>1, <1>2, <1>3 DEF EntryIntact
<1>5. e.head \in Nat /\ e.head > 0 /\ e.body \in Int
  BY <1>1 DEF Entry, Header
<1>6. e.head <= Size(e) /\ Size(e) <= limit - pos /\ Size(e) \in Int
  <2>1. CASE e.open
    BY <1>2, <1>4, <1>5, <2>1 DEF Size
  <2>2. CASE ~e.open
    <3>1. e.body >= 0 /\ pos + e.head + e.body <= limit
      BY <1>1, <1>3, <1>4, <2>2 DEF Whole
    <3> QED
      BY <1>2, <1>5, <2>2, <3>1 DEF Size
  <2> QED
    BY <2>1, <2>2
<1>7. OnDisk(pos + e.head)
  BY <1>2, <1>4, <1>5 DEF OnDisk
<1>8. pos + Size(e) \in Nat /\ pos + Size(e) > pos /\ pos + Size(e) <= limit
  BY <1>2, <1>5, <1>6
<1> QED
  BY <1>1, <1>2, <1>3, <1>4, <1>6, <1>7, <1>8 DEF Fits

LEMMA SoundAtomRefused ==
    ASSUME Inv, EntryInv, SoundInv, Good, NoMoov \/ AtomRefused PROVE FALSE
<1>1. CASE NoMoov
  <2>1. /\ reader = "m4a" /\ file.format = "m4a" /\ limit = file.size /\ pos >= limit
    BY <1>1 DEF NoMoov, Walking, SoundInv, Inv, WalkInv, M4aInv, Good
  <2>2. PICK e \in file.entries : pos <= e.at
    BY <1>1, <2>1 DEF NoMoov, Walking, SoundInv, Ahead
  <2>3. e.at \in Nat /\ e.at + Header <= file.size
    BY IntactEntry DEF Entry
  <2> QED
    BY <2>1, <2>2, <2>3, GoodFacts DEF Header
<1>2. CASE AtomRefused
  <2>1. /\ reader = "m4a" /\ file.format = "m4a" /\ pc \in {"walk", "moov"}
        /\ pc = "walk" => pos < limit
        /\ pc = "moov" => pos + Header <= limit
    BY <1>2 DEF AtomRefused, SoundInv
  <2>2. PICK e \in Atoms(pc = "moov") : TRUE
    <3>1. CASE pc = "walk"
      BY <2>1, <3>1 DEF EntryInv, Walking
    <3>2. CASE pc = "moov"
      BY <2>1, <3>2 DEF EntryInv
    <3> QED
      BY <2>1, <3>1, <3>2
  <2>3. OnDisk(pos + Header)
    <3>1. pos + Header <= file.size
      BY <2>1, <2>2, SoundAtomFits, IntactEntry DEF Level
    <3> QED
      BY <3>1, GoodFacts DEF OnDisk
  <2> QED
    BY <1>2, <2>1, <2>3, SoundAtomFits DEF AtomRefused
<1> QED
  BY <1>1, <1>2

LEMMA SoundM4a ==
    ASSUME Inv, SoundInv, Good, M4aOpen \/ M4aAtom \/ MoovEnd \/ MoovChild
    PROVE  SoundInv'
<1>1. CASE M4aOpen
  <2>1. WalkFrom(0, written, "walk") /\ reader = "m4a" /\ pc = "open"
    BY <1>1 DEF M4aOpen, Opening
  <2>2. file.format = "m4a"
    BY <2>1 DEF SoundInv
  <2>3. /\ pc' = "walk" /\ UNCHANGED <<name, whole, reader, reading>>
        /\ pos' = 0 /\ file' = file /\ seen' <= Cardinality(Passed(pos))'
    BY <2>1, WalkStarts DEF WalkFrom, file
  <2>4. PICK e \in file.entries : e.kind = "moov" /\ ~e.inside
    BY <2>2, GoodFacts DEF Intact
  <2>5. 0 <= e.at
    BY IntactEntry DEF Entry
  <2>6. Ahead'
    BY <2>1, <2>3, <2>4, <2>5 DEF Ahead
  <2> QED
    BY <2>1, <2>2, <2>3, <2>6, SoundWalks DEF SoundInv
<1>2. CASE M4aAtom
  <2>1. /\ pc = "walk" /\ reader = "m4a" /\ file.format = "m4a"
        /\ seen <= Cardinality(Passed(pos)) /\ limit = file.size
    BY <1>2 DEF M4aAtom, Walking, SoundInv, Inv, WalkInv, M4aInv, Good
  <2>2. PICK e \in Atoms(FALSE) :
            \/ e.kind = "moov" /\ WalkFrom(pos + e.head, pos + Size(e), "moov")
            \/ e.kind = "skip" /\ SkipTo(pos + Size(e))
    BY <1>2 DEF M4aAtom
  <2>3. e \in Atoms(pc = "moov") /\ (FALSE <=> pc = "moov")
    BY <2>1, <2>2
  <2>4. /\ e \in Entry /\ e \in Level(file, pc = "moov") /\ e.at = pos
        /\ pos + Size(e) \in Nat /\ pos + Size(e) > pos /\ pos + Size(e) <= limit
        /\ e.within = limit
    BY <2>1, <2>3, SoundAtomFits
  <2>5. CASE WalkFrom(pos + e.head, pos + Size(e), "moov")
    <3>1. /\ pc' = "moov" /\ UNCHANGED <<name, whole, reader, reading>>
          /\ seen' <= Cardinality(Passed(pos))'
      BY <2>5, WalkStarts DEF WalkFrom
    <3> QED
      BY <2>1, <3>1, SoundWalks DEF SoundInv
  <2>6. CASE e.kind = "skip" /\ SkipTo(pos + Size(e))
    <3>1. seen' <= Cardinality(Passed(pos))'
      BY <2>1, <2>4, <2>6, SeekCounts
    <3>2. /\ pos' = pos + Size(e) /\ file' = file
          /\ UNCHANGED <<name, whole, reader, pc, reading>>
      BY <2>6 DEF SkipTo, file
    <3>3. PICK d \in file.entries : d.kind = "moov" /\ ~d.inside /\ pos <= d.at
      BY <2>1 DEF SoundInv, Ahead
    <3>4. After(file, e) <= d.at
      <4>1. e \in Level(file, FALSE) /\ d \in Level(file, FALSE)
        BY <2>1, <2>4, <3>3 DEF Level, Entry, Atoms
      <4>2. e # d /\ e.at <= d.at
        BY <2>4, <2>6, <3>3
      <4> QED
        BY <2>1, <4>1, <4>2, GoodFacts DEF Intact
    <3>5. pos + Size(e) <= d.at
      <4>1. CASE e.open
        <5>1. After(file, e) = limit /\ Size(e) = limit - pos
          BY <2>4, <4>1 DEF After, Size
        <5> QED
          BY <3>4, <5>1, GoodFacts
      <4>2. CASE ~e.open
        <5>1. After(file, e) = pos + Size(e)
          BY <2>1, <2>4, <4>2, GoodFacts DEF After, Size, Entry, Header
        <5> QED
          BY <3>4, <5>1
      <4> QED
        BY <4>1, <4>2
    <3>6. Ahead'
      BY <2>1, <3>2, <3>3, <3>5 DEF Ahead
    <3> QED
      BY <2>1, <3>1, <3>2, <3>6, SoundWalks DEF SoundInv
  <2> QED
    BY <2>2, <2>5, <2>6
<1>3. CASE MoovEnd
  BY <1>3, SoundDone DEF MoovEnd
<1>4. CASE MoovChild
  <2>1. /\ pc = "moov" /\ reader = "m4a" /\ file.format = "m4a"
        /\ seen <= Cardinality(Passed(pos))
    BY <1>4 DEF MoovChild, SoundInv, Inv, WalkInv, M4aInv
  <2>2. PICK e \in Atoms(TRUE) :
            \/ e.kind = "tag" /\ Take([e EXCEPT !.body = Size(e) - e.head])
            \/ e.kind = "skip" /\ SkipTo(pos + Size(e))
    BY <1>4 DEF MoovChild
  <2>3. e \in Atoms(pc = "moov")
    BY <2>1, <2>2
  <2>4. /\ e \in Entry /\ e \in Level(file, pc = "moov") /\ e.at = pos
        /\ pos + Size(e) \in Nat /\ pos + Size(e) > pos /\ pos + Size(e) <= limit
        /\ e.within = limit /\ limit <= file.size /\ EntryIntact(file, e)
    BY <2>1, <2>3, SoundAtomFits
  <2>5. CASE e.kind = "tag" /\ Take([e EXCEPT !.body = Size(e) - e.head])
    <3> DEFINE body == Size(e) - e.head
               taken == [e EXCEPT !.body = body]
    <3>1. /\ e.head \in Nat /\ e.body \in Int /\ pos \in Nat /\ limit \in Nat
          /\ file.size \in Nat /\ MaxRead \in Nat
      BY <2>4, GoodFacts DEF Entry, Header
    <3>2. Size(e) = IF e.open THEN limit - pos ELSE e.head + e.body
      BY DEF Size
    <3>3. body <= MaxRead /\ body \in Int
      <4>1. MaxRead >= (IF e.open THEN e.within - e.at - e.head ELSE e.body)
        BY <2>4, <2>5 DEF EntryIntact
      <4>2. body = IF e.open THEN e.within - e.at - e.head ELSE e.body
        BY <2>4, <3>1, <3>2
      <4> QED
        BY <2>4, <3>1, <4>1, <4>2
    <3>4. taken.body = body /\ taken.head = e.head
      BY <2>4 DEF Entry
    <3>5. pos + e.head + body <= file.size
      BY <2>4, <3>1, <3>2
    <3> HIDE DEF body
    <3>6. taken.body <= MaxRead /\ taken.body \in Int
          /\ pos + taken.head + taken.body <= file.size
      BY <3>3, <3>4, <3>5
    <3>7. Take(taken)
      BY <2>5 DEF body
    <3> HIDE DEF taken
    <3> QED
      BY <2>1, <3>6, <3>7, SoundTaken DEF Fitting
  <2>6. CASE SkipTo(pos + Size(e))
    <3>1. seen' <= Cardinality(Passed(pos))'
      BY <2>1, <2>4, <2>6, SeekCounts
    <3> QED
      BY <2>1, <2>6, <3>1, SoundWalks DEF SkipTo, SoundInv
  <2> QED
    BY <2>2, <2>5, <2>6
<1> QED
  BY <1>1, <1>2, <1>3, <1>4

LEMMA SoundWmaOpen ==
    ASSUME Inv, SoundInv, Good, WmaOpen PROVE SoundInv'
<1>1. /\ reader = "wma" /\ file.format = "wma" /\ pc = "open"
      /\ file.headerSize \in AsfHeader..file.size /\ file.count <= MaxEntries
  BY GoodFacts DEF WmaOpen, Opening, Intact
<1>2. OnDisk(file.headerSize) /\ file.count \in Nat /\ MaxEntries \in Nat
  BY <1>1, GoodFacts DEF OnDisk, LayoutOK
<1>3. WalkFrom(AsfHeader, file.headerSize, "walk")
  BY <1>1, <1>2 DEF WmaOpen, AsfHeader
<1>4. /\ pc' = "walk" /\ UNCHANGED <<name, whole, reader, reading>>
      /\ pos' = AsfHeader /\ seen' = 0 /\ file' = file
      /\ seen' <= Cardinality(Passed(pos))'
  BY <1>3, WalkStarts DEF WalkFrom, file
<1>5. \A e \in file.entries : e.at \in Nat /\ AsfHeader <= e.at
  BY <1>1, GoodFacts, IntactEntry DEF LayoutOK, Listed, FirstEntry, Entry
<1>6. Passed(pos)' = {}
  BY <1>4, <1>5 DEF Passed, Level, AsfHeader
<1>7. Cardinality(Passed(pos)') = 0
  BY <1>6, FS_EmptySet
<1>8. (\E e \in file.entries : TRUE) => EntriesAt(pos)' # {}
  BY <1>1, <1>4, GoodFacts DEF Intact, FirstEntry, EntriesAt
<1>9. Ahead'
  BY <1>1, <1>4, <1>7, <1>8 DEF Ahead
<1> QED
  BY <1>1, <1>4, <1>9, SoundWalks DEF SoundInv

LEMMA SoundWmaObject ==
    ASSUME Inv, SoundInv, Good, WmaObject PROVE SoundInv'
<1>1. /\ pc = "walk" /\ reader = "wma" /\ file.format = "wma" /\ seen < file.count
      /\ limit = file.headerSize /\ limit \in AsfHeader..file.size
      /\ seen <= Cardinality(Passed(pos)) /\ Cardinality(Passed(pos)) <= seen
      /\ (\E e \in file.entries : pos <= e.at) => EntriesAt(pos) # {}
  BY DEF WmaObject, Walking, SoundInv, Ahead, Inv, WalkInv, WmaInv
<1>2. /\ TypeOK /\ pos \in Nat /\ seen \in Nat /\ file.count \in Nat
      /\ file.count <= Cardinality(file.entries)
  BY <1>1, GoodFacts DEF LayoutOK, Intact
<1>3. Level(file, pc = "moov") = file.entries
  BY <1>1 DEF Level
<1>4. \E e \in file.entries : pos <= e.at
  <2> SUFFICES ASSUME \A e \in file.entries : ~(pos <= e.at) PROVE FALSE
    OBVIOUS
  <2>1. \A e \in file.entries : e.at < pos
    BY <1>2, IntactEntry DEF Entry
  <2>2. Passed(pos) = file.entries
    BY <1>3, <2>1 DEF Passed
  <2>3. Cardinality(Passed(pos)) \in Nat
    BY <1>2, PassedFinite
  <2> QED
    BY <1>1, <1>2, <2>2, <2>3
<1>5. EntriesAt(pos) # {}
  BY <1>1, <1>4
<1>6. ASSUME NEW e \in EntriesAt(pos)
      PROVE  /\ e \in file.entries /\ e \in Entry /\ e.at = pos /\ e.head = Header
             /\ ~e.open /\ e.body \in Nat /\ e.within = limit /\ Whole(e)
             /\ pos + Header + e.body <= limit /\ OnDisk(pos + Header)
             /\ e.kind = "tag" => e.body <= MaxRead
  <2>1. /\ e \in file.entries /\ e.at = pos /\ e.head = Header /\ ~e.open
        /\ e.within = limit
    BY <1>1, <1>6, GoodFacts DEF EntriesAt, LayoutOK, Listed
  <2>2. e \in Entry /\ EntryIntact(file, e) /\ pos + Header <= file.size
    BY <2>1, IntactEntry
  <2>3. Whole(e) /\ e.body \in Nat /\ pos + Header + e.body <= limit
    BY <2>1, <2>2 DEF EntryIntact, Whole, Entry
  <2>4. OnDisk(pos + Header)
    BY <2>2, GoodFacts DEF OnDisk
  <2>5. e.kind = "tag" => e.body <= MaxRead
    BY <2>1, <2>2, <2>3, GoodFacts DEF EntryIntact
  <2> QED
    BY <2>1, <2>2, <2>3, <2>4, <2>5
<1>7. PICK e \in EntriesAt(pos) :
          \/ e.kind = "tag" /\ Take(e)
          \/ e.kind = "skip" /\ SkipTo(pos + Header + e.body)
  <2>1. OnDisk(pos + Header)
    BY <1>5, <1>6
  <2>2. \A e \in EntriesAt(pos) : e.body >= 0 /\ pos + Header + e.body <= limit
    BY <1>6
  <2> QED
    BY <1>5, <2>1, <2>2 DEF WmaObject
<1> DEFINE next == pos + Header + e.body
<1>8. CASE e.kind = "tag" /\ Take(e)
  <2>1. pos + e.head + e.body <= file.size /\ e.body \in Int
    BY <1>1, <1>2, <1>6, GoodFacts DEF Header
  <2> QED
    BY <1>1, <1>6, <1>8, <2>1, SoundTaken DEF Fitting
<1>9. CASE SkipTo(next)
  <2>1. next \in Nat /\ next > pos /\ After(file, e) = next
    BY <1>1, <1>2, <1>6 DEF Header, After
  <2> HIDE DEF next
  <2>2. e \in Level(file, pc = "moov") /\ e.at = pos
    BY <1>3, <1>6
  <2>3. seen' <= Cardinality(Passed(pos))' /\ Passed(pos)' = Passed(next)
    BY <1>1, <1>9, <2>1, <2>2, SeekCounts
  <2>4. /\ pos' = next /\ seen' = seen + 1 /\ file' = file
        /\ UNCHANGED <<name, whole, reader, pc, reading>>
    BY <1>9 DEF SkipTo, file
  <2>5. Passed(next) \subseteq Passed(pos) \union {e}
    <3> SUFFICES ASSUME NEW d \in file.entries, d.at < next, ~(d.at < pos)
                 PROVE  d = e
      BY <1>3 DEF Passed
    <3>1. d.at \in Nat
      BY IntactEntry DEF Entry
    <3>2. /\ e.at = d.at => e = d
          /\ e.at < d.at => next <= d.at
      BY <1>1, <1>6, <2>1, GoodFacts DEF LayoutOK, InOrder
    <3> QED
      BY <1>2, <2>1, <2>2, <3>1, <3>2
  <2>6. Cardinality(Passed(next)) <= seen + 1
    <3>1. /\ IsFiniteSet(Passed(pos) \union {e})
          /\ Cardinality(Passed(pos) \union {e}) <= Cardinality(Passed(pos)) + 1
          /\ Cardinality(Passed(pos) \union {e}) \in Nat
      <4>1. IsFiniteSet(Passed(pos)) /\ Cardinality(Passed(pos)) \in Nat
        BY <1>2, PassedFinite
      <4>2. /\ IsFiniteSet(Passed(pos) \union {e})
            /\ Cardinality(Passed(pos) \union {e})
                 \in {Cardinality(Passed(pos)), Cardinality(Passed(pos)) + 1}
        BY <4>1, FS_AddElement
      <4> QED
        BY <4>1, <4>2
    <3>2. Cardinality(Passed(next)) <= Cardinality(Passed(pos) \union {e})
      BY <2>5, <3>1, FS_Subset
    <3>3. Cardinality(Passed(next)) \in Nat /\ Cardinality(Passed(pos)) \in Nat
      BY <1>2, PassedFinite
    <3> QED
      BY <1>1, <1>2, <3>1, <3>2, <3>3
  <2>7. ASSUME NEW d \in file.entries, next <= d.at PROVE EntriesAt(next) # {}
    <3>1. d \in Entry /\ EntryIntact(file, d) /\ d.within = limit /\ d.head = Header
      BY <1>1, IntactEntry, GoodFacts DEF LayoutOK, Listed
    <3>2. next + Header <= limit
      BY <1>1, <2>1, <2>7, <3>1 DEF EntryIntact, Entry, Header
    <3>3. Least(e.inside) = Header /\ TypeOK
      BY <1>1, <1>2 DEF Least
    <3>4. Begins(next, e.inside)
      BY <1>1, <1>6, <2>1, <3>2, <3>3, NextBegins
    <3> QED
      BY <3>4 DEF Begins, EntriesAt
  <2>8. Ahead'
    <3>1. Cardinality(Passed(pos))' <= seen'
      BY <2>3, <2>4, <2>6
    <3>2. (\E d \in file.entries : next <= d.at) => EntriesAt(pos)' # {}
      BY <2>4, <2>7 DEF EntriesAt
    <3> QED
      BY <1>1, <2>4, <3>1, <3>2 DEF Ahead
  <2> QED
    BY <1>1, <2>3, <2>4, <2>8, SoundWalks DEF SoundInv
<1> QED
  BY <1>7, <1>8, <1>9

\* An ID3v2 tag at a known place.
LEMMA SoundKnownPlace ==
    ASSUME Inv, SoundInv, Good, file.format \in {"mp3", "adts", "dsf"}, Fitting,
           NEW e \in EntriesAt(pos), Take(e)
    PROVE  SoundInv'
<1>1. /\ e \in file.entries /\ e.at = pos /\ e.kind = "tag" /\ ~e.open
      /\ e \in Entry /\ EntryIntact(file, e)
  BY GoodFacts, IntactEntry DEF EntriesAt, Intact
<1>2. e.body <= MaxRead /\ e.body \in Int
  BY <1>1, GoodFacts DEF EntryIntact, Entry
<1>3. pos + e.head + e.body <= file.size
  <2>1. /\ e.head \in Nat /\ e.within \in Nat /\ e.within <= file.size
        /\ e.at + e.head + e.body <= e.within
    BY <1>1 DEF EntryIntact, Whole, Entry, Header
  <2> QED
    BY <1>1, <1>2, <2>1, GoodFacts
<1> QED
  BY <1>2, <1>3, SoundTaken

LEMMA SoundID3v2 ==
    ASSUME Inv, SoundInv, Good, Mp3Tag \/ DsfHeader \/ DsfTag PROVE SoundInv'
<1>1. OnDisk(Header)
  BY GoodFacts DEF Intact, OnDisk
<1>2. CASE Mp3Tag
  <2>1. /\ reader = "mp3" /\ file.format \in {"mp3", "adts"} /\ pos = 0 /\ Fitting
    BY <1>2 DEF Mp3Tag, Opening, SoundInv, Fitting
  <2>2. LeadingID3v2 = EntriesAt(pos)
    BY <2>1 DEF LeadingID3v2
  <2> QED
    BY <1>1, <1>2, <2>1, <2>2, SoundDone, SoundKnownPlace DEF Mp3Tag
<1>3. CASE DsfHeader
  <2>1. reader = "dsf" /\ file.format = "dsf" /\ file.offset \in Nat
    BY <1>3, GoodFacts DEF DsfHeader, Opening, LayoutOK
  <2>2. ASSUME file.offset # 0 PROVE file.offset < written
    <3>1. PICK e \in file.entries : e.at = file.offset
      BY <2>1, <2>2, GoodFacts DEF Intact
    <3>2. e.at + Header <= file.size
      BY IntactEntry
    <3> QED
      BY <2>1, <3>1, <3>2, GoodFacts DEF Header
  <2>3. CASE Conclude("TagAbsent")
    BY <2>3, SoundDone
  <2>4. CASE file.offset # 0 /\ WalkFrom(file.offset, written, "walk")
    <3>1. /\ pc' = "walk" /\ UNCHANGED <<name, whole, reader, reading>>
          /\ pos' = file.offset /\ file' = file /\ seen' <= Cardinality(Passed(pos))'
      BY <2>4, WalkStarts DEF WalkFrom, file
    <3>2. Ahead'
      BY <2>1, <2>4, <3>1 DEF Ahead
    <3> QED
      BY <2>1, <3>1, <3>2, SoundWalks DEF SoundInv
  <2>5. ~(file.offset >= written /\ file.offset # 0)
    BY <2>1, <2>2, GoodFacts
  <2> QED
    BY <1>3, <2>3, <2>4, <2>5 DEF DsfHeader
<1>4. CASE DsfTag
  <2>1. /\ reader = "dsf" /\ file.format = "dsf" /\ pos = file.offset /\ pos # 0
        /\ Fitting
    BY <1>4 DEF DsfTag, Walking, SoundInv, Ahead, Fitting
  <2>2. PICK e \in file.entries : e.at = pos
    BY <2>1, GoodFacts DEF Intact
  <2>3. e \in EntriesAt(pos) /\ OnDisk(pos + Header)
    BY <2>2, IntactEntry, GoodFacts DEF EntriesAt, OnDisk
  <2> QED
    BY <1>4, <2>1, <2>3, SoundKnownPlace DEF DsfTag
<1> QED
  BY <1>2, <1>3, <1>4

LEMMA SoundAac ==
    ASSUME Inv, SoundInv, Good, AacSniff PROVE SoundInv'
<1>1. /\ pc = "open" /\ reader = "aac" /\ pos = 0 /\ reading # "FileUnreadable"
  BY DEF AacSniff, Opening, SoundInv
<1>2. file.format \in {"adts", "m4a"}
  <2>1. file.format # "aac"
    BY GoodFacts DEF Intact, Extractor
  <2> QED
    BY <1>1, <2>1 DEF SoundInv
<1>3. OnDisk(Header) /\ (file.format = "adts" => LeadingID3v2 # {})
      /\ (file.format = "m4a" => LeadingID3v2 = {})
  BY GoodFacts DEF Intact, OnDisk, LeadingID3v2, EntriesAt
<1>4. /\ reader' = IF file.format = "adts" THEN "mp3" ELSE "m4a"
      /\ UNCHANGED <<name, whole, pc, pos, reading>>
  BY <1>2, <1>3 DEF AacSniff
<1> QED
  BY <1>1, <1>2, <1>4, GoodKept DEF SoundInv

LEMMA SoundInit == Init => SoundInv
<1> SUFFICES ASSUME Init, Good PROVE SoundInv
  BY DEF SoundInv
<1>1. Inv
  BY InitInv
<1>2. Intact(file)
  BY <1>1, GoodFacts
<1>3. reader = Extractor[file.ext] /\ reading = "none" /\ pc = "open" /\ pos = 0
  BY <1>2 DEF Init, Intact
<1> QED
  BY <1>2, <1>3 DEF SoundInv, Intact

LEMMA SoundStep == ASSUME Inv, EntryInv, SoundInv, [Next]_vars PROVE SoundInv'
<1>1. UNCHANGED <<name, whole>>
  BY NextFrame DEF vars
<1>2. CASE ~Good
  BY <1>1, <1>2, GoodKept DEF SoundInv
<1>3. CASE Good /\ (Grow \/ UNCHANGED vars)
  <2>1. ~Grow
    BY <1>3, GoodFacts DEF Grow
  <2> QED
    BY <1>3, <2>1 DEF vars, SoundInv, Good, Ahead, Passed, Level, EntriesAt, file
<1>4. CASE Good /\ Walk
  <2>1. CASE WmaEnd
    BY <2>1, SoundDone DEF WmaEnd
  <2> QED
    BY <1>4, <2>1, SoundStart, SoundTooMany, SoundWav, SoundFlac, SoundAtomRefused,
       SoundM4a, SoundWmaOpen, SoundWmaObject, SoundID3v2, SoundAac DEF Walk
<1> QED
  BY <1>2, <1>3, <1>4 DEF Next

-----------------------------------------------------------------------------
(* Theorems *)

\* The extractors stay within their types: offsets are never negative and no
\* more than MaxEntries entries of a container are visited.
THEOREM WalkTyping == Spec => []TypeOK
<1>1. Inv => TypeOK
  BY DEF Inv
<1> QED
  BY <1>1, InitInv, StepInv, PTL DEF Spec

\* No file with a rating is read as untagged, and none without one as rated,
\* but for what the reader cannot know (Blind): so clear_rating_if_untagged
\* takes no rating away because of a damaged, cut-off or growing file.
THEOREM CutOffNotCleared == Spec => []NeverMisread
<1>1. Inv => NeverMisread
  BY DEF Inv
<1> QED
  BY <1>1, InitInv, StepInv, PTL DEF Spec

\* Where an extractor reads a header, one begins: sizes, padding and parents add
\* up, whatever the layout and however much of the file is there.
THEOREM HeadersWhereRead == Spec => []OnEntries
<1>1. Init => Inv /\ EntryInv
  BY InitInv, EntryInit
<1>2. (Inv /\ EntryInv) /\ [Next]_vars => (Inv /\ EntryInv)'
  BY StepInv, EntryStep
<1> QED
  BY <1>1, <1>2, OnEntriesKept, PTL DEF Spec

\* A sound file that was complete when it was opened is read, whatever its
\* layout: no limit, no cut and no size that is right makes it unreadable.
\* (extractStarsFromFile; of Ogg files see OggWalkProofs.)
THEOREM IntactIsRead == Spec => [](file.format # "ogg" => SoundFilesAreRead)
<1>1. Inv /\ SoundInv => (file.format # "ogg" => SoundFilesAreRead)
  BY DEF SoundInv, Good, SoundFilesAreRead
<1>2. Init => Inv /\ EntryInv /\ SoundInv
  BY InitInv, EntryInit, SoundInit
<1>3. (Inv /\ EntryInv /\ SoundInv) /\ [Next]_vars => (Inv /\ EntryInv /\ SoundInv)'
  BY StepInv, EntryStep, SoundStep
<1> QED
  BY <1>1, <1>2, <1>3, PTL DEF Spec

=============================================================================
