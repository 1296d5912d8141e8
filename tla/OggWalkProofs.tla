--------------------------- MODULE OggWalkProofs ---------------------------
(***************************************************************************)
(* The reader of all formats, Ogg with them: no file of any layout that    *)
(* satisfies FileAssumption and OggAssumption is misread.  An Ogg file is  *)
(* untagged only when every comment was dealt with and none was a rating,  *)
(* whatever its pages, lacing and packets, and wherever it is cut off.     *)
(* A comment is read where one begins (PlaceInv), a sound file is read     *)
(* (OggSoundInv), and the stream oggSynth rebuilds is taken apart into the *)
(* packets it was made of (RoundTrip).                                     *)
(***************************************************************************)
EXTENDS OggWalk, FileWalkProofs, SequenceTheorems, WellFoundedInduction

\* Comments the reader has dealt with: kept, dropped or passed over.
Dealt == IF field = "length" THEN index - 1 ELSE index

\* Whatever is kept is of the file, and no rating dealt with is lost.
KeptOK ==
    /\ kept \in Seq(Comment)
    /\ \A k \in DOMAIN kept : \E i \in DOMAIN file.comments : kept[k] = file.comments[i]
    /\ \A i \in DOMAIN file.comments :
          i <= Dealt /\ file.comments[i].rating # "none" =>
              \E k \in DOMAIN kept : kept[k] = file.comments[i]

OggInv ==
    /\ Inv /\ EntryInv /\ OggTypeOK
    /\ pc = "ogg" => reader = "ogg" /\ file.format = "ogg"
    /\ file.format = "ogg" => KeptOK

-----------------------------------------------------------------------------
(* Steps outside the Ogg reader *)

LEMMA OggFileOK ==
    ASSUME TypeOK, file.format = "ogg"
    PROVE  LayoutOK(file) /\ OggLayoutOK(file)
BY FileOK, OggAssumption DEF TypeOK, file

LEMMA OtherInv == ASSUME OggInv, Next, UNCHANGED oggVars PROVE OggInv'
<1>1. Inv' /\ EntryInv'
  BY StepInv, EntryStep DEF OggInv
<1>2. OggTypeOK'
  BY <1>1 DEF OggInv, OggTypeOK, oggVars, Inv
<1>3. file' = file /\ (pc' = "ogg" => pc = "ogg" /\ reader' = reader)
  BY NextFrame DEF OggInv, file
<1>4. KeptOK => KeptOK'
  BY <1>3 DEF KeptOK, Dealt, oggVars
<1> QED
  BY <1>1, <1>2, <1>3, <1>4 DEF OggInv

-----------------------------------------------------------------------------
(* The end of an Ogg walk *)

LEMMA OggConcluded ==
    ASSUME OggInv, pc # "done", NEW result \in Results, OggConclude(result),
           result = "TagAbsent" => ~Rated(file) \/ Blind,
           result \in Found => Rated(file)
    PROVE  OggInv'
<1>1. Inv' /\ pc' = "done" /\ UNCHANGED oggVars
  BY Concluded DEF OggInv, OggConclude, Conclude
<1>2. OggTypeOK'
  BY <1>1 DEF OggInv, OggTypeOK, oggVars, Inv
<1>3. EntryInv'
  BY <1>1 DEF EntryInv, Walking
<1>4. file' = file /\ (KeptOK => KeptOK')
  BY DEF OggConclude, Conclude, rest, file, oggVars, KeptOK, Dealt
<1> QED
  BY <1>1, <1>2, <1>3, <1>4 DEF OggInv

LEMMA OggRefused == ASSUME OggInv, pc # "done", OggUnreadable PROVE OggInv'
BY OggConcluded DEF OggUnreadable, Results, Found

\* The comments that were kept, as the parser finds them.
KeptFields == [i \in DOMAIN kept |-> [rating |-> kept[i].rating, fits |-> TRUE]]

LEMMA KeptFieldsOK == ASSUME kept \in Seq(Comment) PROVE KeptFields \in Seq(Field)
<1>1. DOMAIN kept = 1..Len(kept) /\ Len(kept) \in Nat
  OBVIOUS
<1>2. \A i \in 1..Len(kept) : kept[i] \in Comment
  OBVIOUS
<1>3. \A i \in 1..Len(kept) : KeptFields[i] \in Field
  BY <1>1, <1>2 DEF KeptFields, Comment, Field
<1>4. KeptFields = [i \in 1..Len(kept) |-> KeptFields[i]]
  BY <1>1 DEF KeptFields
<1> QED
  BY <1>1, <1>3, <1>4

\* A rating that is kept is one of the file.
LEMMA KeptIsOfFile ==
    ASSUME OggInv, pc = "ogg", Holds(KeptFields) PROVE Rated(file)
<1>1. KeptOK /\ OggLayoutOK(file) /\ (Rated(file) <=> Holds(file.tag))
  BY OggFileOK DEF OggInv, Inv, Rated
<1>2. PICK k \in DOMAIN kept : kept[k].rating # "none"
  BY DEF Holds, KeptFields
<1>3. PICK i \in DOMAIN file.comments : kept[k] = file.comments[i]
  BY <1>1 DEF KeptOK
<1>4. i \in DOMAIN file.tag /\ file.tag[i].rating # "none"
  BY <1>1, <1>2, <1>3 DEF OggLayoutOK
<1> QED
  BY <1>1, <1>4 DEF Holds

\* At the end of the walk every rating was kept, unless there are more comments
\* than are walked.
LEMMA RatingsKept ==
    ASSUME OggInv, pc = "ogg", field # "length", index = Count, Rated(file), ~Blind
    PROVE  Holds(KeptFields)
<1>1. /\ KeptOK /\ OggLayoutOK(file) /\ (Rated(file) <=> Holds(file.tag))
      /\ reader = "ogg" /\ file.count \in Nat
  BY OggFileOK DEF OggInv, Inv, Rated, LayoutOK
<1>2. PICK i \in DOMAIN file.tag : file.tag[i].rating # "none"
  BY <1>1 DEF Holds
<1>3. i \in DOMAIN file.comments /\ file.comments[i].rating # "none"
  BY <1>1, <1>2 DEF OggLayoutOK
<1>4. /\ MaxComments \in Nat /\ Len(file.comments) \in Nat /\ i \in 1..Len(file.comments)
      /\ Len(file.comments) <= file.count /\ ~(Len(file.comments) > MaxComments)
  BY <1>1, <1>3, OggAssumption DEF Blind, OggLayoutOK, Commented
<1>5. i <= Dealt
  BY <1>1, <1>4 DEF Dealt, Count
<1>6. PICK k \in DOMAIN kept : kept[k] = file.comments[i]
  BY <1>1, <1>3, <1>5 DEF KeptOK
<1> QED
  BY <1>3, <1>6 DEF Holds, KeptFields

LEMMA OggEnded ==
    ASSUME OggInv, pc = "ogg", field # "length", index = Count,
           OggConclude(ParsedSynth)
    PROVE  OggInv'
<1>1. kept \in Seq(Comment)
  BY DEF OggInv, KeptOK
<1>2. /\ RatingFromFields(KeptFields) \in Results
      /\ RatingFromFields(KeptFields) = "TagAbsent" => ~Holds(KeptFields)
      /\ RatingFromFields(KeptFields) \in Found => Holds(KeptFields)
  BY <1>1, KeptFieldsOK, FieldsTruthful
<1>3. ParsedSynth \in {RatingFromFields(KeptFields), "FileUnreadable"}
  BY DEF ParsedSynth, Parse, KeptFields
<1>4. ParsedSynth \in Results
  BY <1>2, <1>3 DEF Results
<1>5. ParsedSynth = "TagAbsent" => ~Rated(file) \/ Blind
  BY <1>2, <1>3, RatingsKept
<1>6. ParsedSynth \in Found => Rated(file)
  BY <1>2, <1>3, KeptIsOfFile DEF Found
<1> QED
  BY <1>4, <1>5, <1>6, OggConcluded

-----------------------------------------------------------------------------
(* Steps that read on *)

\* The walks of the other formats are not concerned.
LEMMA WalksAside ==
    ASSUME OggInv, pc = "ogg", UNCHANGED InOgg, pos' \in Nat
    PROVE  Inv' /\ EntryInv' /\ file' = file /\ pc' = "ogg" /\ reader' = reader
<1>1. /\ file' = file
      /\ UNCHANGED <<name, written, whole, reader, pc, limit, seen, reading>>
  BY DEF InOgg, file
<1>2. TypeOK'
  BY <1>1 DEF OggInv, Inv, TypeOK
<1>3. WalkInv' /\ EntryInv'
  BY <1>1 DEF OggInv, Inv, WalkInv, Walking, WavInv, FlacInv, M4aInv, WmaInv,
              EntryInv
<1>4. NeverMisread'
  BY <1>1 DEF OggInv, Inv, NeverMisread, Blind
<1> QED
  BY <1>1, <1>2, <1>3, <1>4 DEF Inv

\* A step inside a segment or a page keeps what was kept.
LEMMA KeptAside ==
    ASSUME KeptOK, file' = file, UNCHANGED <<index, kept>>,
           field' = "length" <=> field = "length"
    PROVE  KeptOK'
BY DEF KeptOK, Dealt

LEMMA OggOpenInv == ASSUME OggInv, OggOpen PROVE OggInv'
<1>1. pc = "open" /\ reader = "ogg"
  BY DEF OggOpen, Opening
<1>2. CASE OggUnreadable
  BY <1>1, <1>2, OggRefused
<1>3. CASE file.format = "ogg" /\ WalkFrom(0, 0, "ogg") /\ UNCHANGED oggVars
  <2>1. /\ file' = file /\ pc' = "ogg" /\ pos' = 0 /\ limit' = 0 /\ seen' = 0
        /\ UNCHANGED <<name, written, whole, reader, reading>>
    BY <1>3 DEF WalkFrom, file
  <2>2. TypeOK'
    BY <1>1, <2>1, FileAssumption DEF OggInv, Inv, TypeOK
  <2>3. WalkInv' /\ EntryInv'
    BY <2>1 DEF OggInv, Inv, WalkInv, Walking, WavInv, FlacInv, M4aInv, WmaInv,
                EntryInv
  <2>4. NeverMisread'
    BY <1>1, <2>1 DEF OggInv, Inv, TypeOK, NeverMisread
  <2>5. Inv' /\ OggTypeOK'
    BY <1>3, <2>2, <2>3, <2>4 DEF Inv, OggInv, OggTypeOK, oggVars
  <2>6. KeptOK => KeptOK'
    BY <1>3, <2>1 DEF KeptOK, Dealt, oggVars
  <2> QED
    BY <1>1, <1>3, <2>1, <2>3, <2>5, <2>6 DEF OggInv
<1> QED
  BY <1>2, <1>3 DEF OggOpen

LEMMA NextPageInv == ASSUME OggInv, NextPage PROVE OggInv'
<1>1. pc = "ogg" /\ file.format = "ogg" /\ pos \in Nat /\ OggLayoutOK(file)
  BY OggFileOK DEF NextPage, Wanting, OggInv, Inv, TypeOK
<1>2. CASE OggUnreadable
  BY <1>1, <1>2, OggRefused
<1>3. ASSUME NEW p \in file.pages, pos' = pos + Header + Len(p.lacing),
             lacing' = p.lacing, pages < MaxPages, pages' = pages + 1,
             UNCHANGED <<InOgg, segLeft, lastSeg, field, need, index, kept, entries>>
      PROVE  OggInv'
  <2>1. p.lacing \in Seq(0..Lace) /\ Len(p.lacing) \in Nat
    BY <1>1 DEF OggLayoutOK, Paginated, Page
  <2>2. pos' \in Nat
    <3> DEFINE length == Len(p.lacing)
    <3>1. pos' = pos + Header + length /\ length \in Nat
      BY <1>3, <2>1
    <3> HIDE DEF length
    <3> QED
      BY <1>1, <3>1 DEF Header
  <2>3. Inv' /\ EntryInv' /\ file' = file /\ pc' = "ogg" /\ reader' = reader
    BY <1>1, <1>3, <2>2, WalksAside
  <2>4. pages' \in 0..MaxPages
    <3>1. MaxPages \in Nat /\ pages \in 0..MaxPages
      BY OggAssumption DEF OggInv, OggTypeOK
    <3>2. pages < MaxPages /\ pages' = pages + 1
      BY <1>3
    <3> QED
      BY <3>1, <3>2
  <2>5. OggTypeOK'
    BY <1>3, <2>1, <2>3, <2>4 DEF OggInv, OggTypeOK, Inv
  <2>6. KeptOK'
    BY <1>1, <1>3, <2>3, KeptAside DEF OggInv
  <2> QED
    BY <1>1, <2>3, <2>5, <2>6 DEF OggInv
<1> QED
  BY <1>2, <1>3 DEF NextPage

LEMMA NextSegmentInv == ASSUME OggInv, NextSegment PROVE OggInv'
<1>1. pc = "ogg" /\ file.format = "ogg" /\ pos \in Nat
  BY DEF NextSegment, Wanting, OggInv, Inv, TypeOK
<1>2. /\ lacing \in Seq(0..Lace) /\ lacing # <<>>
      /\ segLeft' = Head(lacing) /\ lacing' = Tail(lacing)
      /\ lastSeg' = (Head(lacing) < Lace)
      /\ UNCHANGED <<InOgg, pos, pages, field, need, index, kept, entries>>
  BY DEF NextSegment, OggInv, OggTypeOK
<1>3. Inv' /\ EntryInv' /\ file' = file /\ pc' = "ogg" /\ reader' = reader
  BY <1>1, <1>2, WalksAside
<1>4. segLeft' \in 0..Lace /\ lacing' \in Seq(0..Lace) /\ lastSeg' \in BOOLEAN
  <2>1. Head(lacing) \in 0..Lace /\ Tail(lacing) \in Seq(0..Lace)
    BY <1>2, HeadTailProperties
  <2> QED
    BY <1>2, <2>1
<1>5. OggTypeOK'
  BY <1>2, <1>3, <1>4 DEF OggInv, OggTypeOK, Inv
<1>6. KeptOK'
  BY <1>1, <1>2, <1>3, KeptAside DEF OggInv
<1> QED
  BY <1>1, <1>3, <1>5, <1>6 DEF OggInv

LEMMA PastPacketInv == ASSUME OggInv, PastPacket PROVE OggInv'
BY OggRefused DEF PastPacket, Wanting

\* Bytes read or passed over inside a segment.
LEMMA InSegment ==
    ASSUME OggInv, pc = "ogg", pos' \in Nat, need' \in Nat, segLeft' \in 0..Lace,
           UNCHANGED <<InOgg, lacing, lastSeg, pages, field, index, kept, entries>>
    PROVE  OggInv'
<1>1. Inv' /\ EntryInv' /\ file' = file /\ pc' = "ogg" /\ reader' = reader
  BY WalksAside
<1>2. OggTypeOK'
  BY <1>1 DEF OggInv, OggTypeOK, Inv
<1>3. KeptOK'
  BY <1>1, KeptAside DEF OggInv
<1> QED
  BY <1>1, <1>2, <1>3 DEF OggInv

LEMMA ReadIdentInv == ASSUME OggInv, ReadIdent PROVE OggInv'
<1>1. pc = "ogg" /\ pos \in Nat /\ segLeft \in Nat /\ need \in Nat /\ Lace \in Nat
  BY OggAssumption DEF ReadIdent, OggInv, OggTypeOK, Inv, TypeOK
<1>2. CASE OggUnreadable
  BY <1>1, <1>2, OggRefused
<1>3. CASE /\ pos' = pos + segLeft /\ need' = need + segLeft /\ segLeft' = 0
           /\ UNCHANGED <<InOgg, lacing, lastSeg, pages, field, index, kept, entries>>
  <2>1. pos' \in Nat /\ need' \in Nat /\ segLeft' \in 0..Lace
    BY <1>1, <1>3
  <2> QED
    BY <1>1, <1>3, <2>1, InSegment
<1> QED
  BY <1>2, <1>3 DEF ReadIdent

LEMMA ReadPartInv == ASSUME OggInv, ReadPart PROVE OggInv'
<1>1. /\ pc = "ogg" /\ pos \in Nat /\ segLeft \in 0..Lace /\ need \in Nat
      /\ Lace \in Nat
  BY OggAssumption DEF ReadPart, OggInv, OggTypeOK, Inv, TypeOK
<1> DEFINE n == IF need < segLeft THEN need ELSE segLeft
<1>2. CASE OggUnreadable
  BY <1>1, <1>2, OggRefused
<1>3. CASE /\ pos' = pos + n /\ need' = need - n /\ segLeft' = segLeft - n
           /\ UNCHANGED <<InOgg, lacing, lastSeg, pages, field, index, kept, entries>>
  <2>1. pos' \in Nat /\ need' \in Nat /\ segLeft' \in 0..Lace
    BY <1>1, <1>3
  <2> QED
    BY <1>1, <1>3, <2>1, InSegment
<1> QED
  BY <1>2, <1>3 DEF ReadPart

-----------------------------------------------------------------------------
(* Steps of the comment packet *)

OggFields == {"ident", "prefix", "vendor length", "vendor", "count",
              "length", "comment", "large comment"}

\* From one field to the next.
LEMMA NextField ==
    ASSUME OggInv, pc = "ogg", UNCHANGED InField, lastSeg' \in BOOLEAN,
           field' \in OggFields, need' \in Nat, index' \in 0..MaxComments, KeptOK',
           entries' \in 0..MaxRead
    PROVE  OggInv'
<1>1. UNCHANGED <<InOgg, pos, lacing, segLeft, pages>> /\ pos \in Nat
  BY DEF InField, OggInv, Inv, TypeOK
<1>2. Inv' /\ EntryInv' /\ file' = file /\ pc' = "ogg" /\ reader' = reader
  BY <1>1, WalksAside
<1>3. OggTypeOK'
  BY <1>1, <1>2 DEF OggInv, OggTypeOK, OggFields, Inv
<1> QED
  BY <1>2, <1>3 DEF OggInv

LEMMA FileAside == UNCHANGED InField => file' = file
BY DEF InField, InOgg, file

LEMMA StartPacketInv == ASSUME OggInv, StartPacket PROVE OggInv'
<1>1. /\ pc = "ogg" /\ field = "ident" /\ file.format = "ogg"
      /\ lastSeg' = FALSE /\ field' = "prefix" /\ need' = Prefix
      /\ UNCHANGED <<InField, index, kept, entries>>
  BY DEF StartPacket, OggInv
<1>2. KeptOK'
  BY <1>1, FileAside, KeptAside DEF OggInv
<1>3. index' \in 0..MaxComments /\ entries' \in 0..MaxRead
  BY <1>1 DEF OggInv, OggTypeOK
<1> QED
  BY <1>1, <1>2, <1>3, NextField DEF Prefix, OggFields

LEMMA GotoInv ==
    ASSUME OggInv, pc = "ogg", field # "length",
           NEW next \in OggFields \ {"length"}, NEW length \in Nat, Goto(next, length)
    PROVE  OggInv'
<1>1. field' = next /\ need' = length /\ UNCHANGED <<InField, lastSeg, index, kept, entries>>
  BY DEF Goto
<1>2. KeptOK'
  BY <1>1, FileAside, KeptAside DEF OggInv
<1>3. index' \in 0..MaxComments /\ lastSeg' \in BOOLEAN /\ entries' \in 0..MaxRead
  BY <1>1 DEF OggInv, OggTypeOK
<1> QED
  BY <1>1, <1>2, <1>3, NextField

LEMMA HeadFieldInv ==
    ASSUME OggInv, PrefixRead \/ VendorLengthRead \/ VendorSkipped PROVE OggInv'
<1>1. pc = "ogg" /\ field # "length" /\ file.vendor \in Nat
  BY OggFileOK DEF PrefixRead, VendorLengthRead, VendorSkipped, FieldRead, OggInv,
                   Inv, OggLayoutOK
<1>2. U32 \in Nat /\ {"vendor length", "vendor", "count"} \subseteq OggFields \ {"length"}
  BY DEF U32, OggFields
<1> QED
  BY <1>1, <1>2, GotoInv, OggRefused DEF PrefixRead, VendorLengthRead, VendorSkipped

LEMMA CountBounded ==
    ASSUME OggInv, pc = "ogg" PROVE Count \in 0..MaxComments
<1>1. file.count \in Nat /\ MaxComments \in Nat
  BY OggFileOK, OggAssumption DEF OggInv, Inv, LayoutOK
<1> QED
  BY <1>1 DEF Count

LEMMA NextCommentInv == ASSUME OggInv, NextComment PROVE OggInv'
<1>1. pc = "ogg" /\ field # "length" /\ file.format = "ogg"
  BY DEF NextComment, FieldRead, OggInv
<1>2. CASE index = Count /\ OggConclude(ParsedSynth)
  BY <1>1, <1>2, OggEnded
<1>3. CASE /\ index < Count /\ index' = index + 1 /\ field' = "length" /\ need' = U32
           /\ UNCHANGED <<InField, lastSeg, kept, entries>>
  <2>1. Count \in 0..MaxComments /\ index \in 0..MaxComments /\ MaxComments \in Nat
        /\ lastSeg' \in BOOLEAN /\ entries' \in 0..MaxRead
    BY <1>1, <1>3, CountBounded, OggAssumption DEF OggInv, OggTypeOK
  <2>2. index < Count /\ index' = index + 1
    BY <1>3
  <2>3. index' \in 0..MaxComments /\ index' - 1 = index
    BY <2>1, <2>2
  <2>4. Dealt' = Dealt /\ file' = file
    BY <1>1, <1>3, <2>3, FileAside DEF Dealt
  <2>5. KeptOK'
    BY <1>1, <1>3, <2>4 DEF KeptOK, OggInv
  <2> QED
    BY <1>1, <1>3, <2>1, <2>3, <2>5, NextField DEF U32, OggFields
<1> QED
  BY <1>2, <1>3 DEF NextComment

LEMMA CommentOK ==
    ASSUME OggLayoutOK(file), NEW i \in DOMAIN file.comments
    PROVE  file.comments[i] \in Comment /\ file.comments[i].size \in Nat
<1>1. file.comments \in Seq(Comment)
  BY DEF OggLayoutOK, Commented
<1>2. file.comments[i] \in Comment
  BY <1>1
<1> QED
  BY <1>2 DEF Comment

\* A comment is no rating when it is dropped or passed over.
LEMMA LengthReadInv == ASSUME OggInv, LengthRead PROVE OggInv'
<1>1. /\ pc = "ogg" /\ field = "length" /\ file.format = "ogg" /\ KeptOK
      /\ OggLayoutOK(file)
  BY OggFileOK DEF LengthRead, FieldRead, OggInv, Inv
<1>2. index \in 0..MaxComments /\ MaxComments \in Nat /\ lastSeg \in BOOLEAN
  BY OggAssumption DEF OggInv, OggTypeOK
<1>3. CASE OggUnreadable
  BY <1>1, <1>3, OggRefused
<1>4. ASSUME index \in DOMAIN file.comments, field' \in {"comment", "large comment"},
             need' = file.comments[index].size, entries' \in 0..MaxRead,
             UNCHANGED <<InField, lastSeg, index>>,
             kept' \in {kept, Append(kept, file.comments[index])},
             file.comments[index].rating # "none" =>
                 kept' = Append(kept, file.comments[index])
      PROVE  OggInv'
  <2> DEFINE c == file.comments[index]
  <2>1. c \in Comment /\ c.size \in Nat
    BY <1>1, <1>4, CommentOK
  <2>2. file' = file /\ Dealt = index - 1 /\ Dealt' = index
    BY <1>1, <1>4, FileAside DEF Dealt
  <2>3. kept \in Seq(Comment)
    BY <1>1 DEF KeptOK
  <2> HIDE DEF c
  <2>4. /\ Append(kept, c) \in Seq(Comment)
        /\ Len(Append(kept, c)) = Len(kept) + 1
        /\ \A k \in 1..Len(kept) : Append(kept, c)[k] = kept[k]
        /\ Append(kept, c)[Len(kept) + 1] = c
    BY <2>1, <2>3, AppendProperties
  <2>5. kept' \in Seq(Comment)
    BY <1>4, <2>3, <2>4 DEF c
  <2>6. \A k \in DOMAIN kept' : \E i \in DOMAIN file.comments : kept'[k] = file.comments[i]
    <3>1. CASE kept' = kept
      BY <1>1, <3>1 DEF KeptOK
    <3>2. CASE kept' = Append(kept, c)
      <4> SUFFICES ASSUME NEW k \in DOMAIN kept'
                   PROVE  \E i \in DOMAIN file.comments : kept'[k] = file.comments[i]
        OBVIOUS
      <4>1. Len(kept) \in Nat /\ k \in 1..(Len(kept) + 1) /\ DOMAIN kept = 1..Len(kept)
        BY <2>3, <2>4, <3>2
      <4>2. CASE k = Len(kept) + 1
        BY <1>4, <2>4, <3>2, <4>2 DEF c
      <4>3. CASE k \in 1..Len(kept)
        BY <1>1, <2>4, <3>2, <4>1, <4>3 DEF KeptOK
      <4> QED
        BY <4>1, <4>2, <4>3
    <3> QED
      BY <1>4, <3>1, <3>2 DEF c
  <2>7. ASSUME NEW i \in DOMAIN file.comments, i <= index,
               file.comments[i].rating # "none"
        PROVE  \E k \in DOMAIN kept' : kept'[k] = file.comments[i]
    <3>1. i \in Nat /\ Len(kept) \in Nat /\ DOMAIN kept = 1..Len(kept)
      BY <1>1, <2>3, <2>7 DEF OggLayoutOK, Commented
    <3>2. CASE i = index
      <4>1. kept' = Append(kept, c) /\ file.comments[i] = c
        BY <1>4, <2>7, <3>2 DEF c
      <4>2. Len(kept) + 1 \in DOMAIN kept' /\ kept'[Len(kept) + 1] = c
        BY <2>4, <3>1, <4>1
      <4> QED
        BY <4>1, <4>2
    <3>3. CASE i # index
      <4>1. i <= index - 1
        BY <1>2, <2>7, <3>1, <3>3
      <4>2. PICK k \in DOMAIN kept : kept[k] = file.comments[i]
        BY <1>1, <2>2, <2>7, <4>1 DEF KeptOK
      <4>3. CASE kept' = Append(kept, c)
        <5>1. k \in 1..Len(kept) /\ kept'[k] = kept[k]
          BY <2>4, <3>1, <4>2, <4>3
        <5>2. DOMAIN kept' = 1..(Len(kept) + 1)
          BY <2>4, <4>3
        <5>3. k \in DOMAIN kept'
          BY <3>1, <5>1, <5>2
        <5> QED
          BY <4>2, <5>1, <5>3
      <4> QED
        BY <1>4, <4>2, <4>3 DEF c
    <3> QED
      BY <3>2, <3>3
  <2>8. KeptOK'
    BY <2>2, <2>5, <2>6, <2>7 DEF KeptOK
  <2>9. need' \in Nat /\ field' \in OggFields /\ index' \in 0..MaxComments
        /\ lastSeg' \in BOOLEAN
    BY <1>2, <1>4, <2>1 DEF c, OggFields
  <2> QED
    BY <1>1, <1>4, <2>8, <2>9, NextField
<1>5. PICK i \in DOMAIN file.comments :
          LET c == file.comments[i]
          IN  /\ i = index
              /\ \/ c.size > MaxKeptComment /\ Goto("large comment", c.size)
                 \/ /\ c.size <= MaxKeptComment
                    /\ entries + U32 + c.size > MaxRead /\ OggUnreadable
                 \/ /\ c.size <= MaxKeptComment
                    /\ entries + U32 + c.size <= MaxRead
                    /\ field' = "comment" /\ need' = c.size
                    /\ kept' = IF c.picture THEN kept ELSE Append(kept, c)
                    /\ entries' = IF c.picture THEN entries
                                  ELSE entries + U32 + c.size
                    /\ UNCHANGED <<InField, lastSeg, index>>
  BY DEF LengthRead
<1>6. file.comments[index].rating # "none" =>
          ~file.comments[index].picture /\ file.comments[index].size <= MaxKeptComment
  BY <1>1, <1>5 DEF OggLayoutOK, Commented
<1>7. /\ file.comments[index].size \in Nat /\ MaxKeptComment \in Nat
      /\ entries \in 0..MaxRead /\ MaxRead \in Nat
  BY <1>1, <1>5, CommentOK, OggAssumption, FileAssumption DEF OggInv, OggTypeOK
<1>8. CASE /\ file.comments[index].size > MaxKeptComment
           /\ Goto("large comment", file.comments[index].size)
  <2> DEFINE size == file.comments[index].size
  <2>1. ~(size <= MaxKeptComment)
    <3>1. size > MaxKeptComment /\ size \in Nat /\ MaxKeptComment \in Nat
      BY <1>7, <1>8
    <3> HIDE DEF size
    <3> QED
      BY <3>1
  <2>2. file.comments[index].rating = "none"
    BY <1>6, <2>1
  <2>3. entries' \in 0..MaxRead
    BY <1>7, <1>8 DEF Goto
  <2> QED
    BY <1>4, <1>5, <1>8, <2>2, <2>3 DEF Goto
<1>9. CASE /\ file.comments[index].size <= MaxKeptComment
           /\ entries + U32 + file.comments[index].size <= MaxRead
           /\ field' = "comment" /\ need' = file.comments[index].size
           /\ kept' = IF file.comments[index].picture THEN kept
                      ELSE Append(kept, file.comments[index])
           /\ entries' = IF file.comments[index].picture THEN entries
                         ELSE entries + U32 + file.comments[index].size
           /\ UNCHANGED <<InField, lastSeg, index>>
  <2> DEFINE size == file.comments[index].size
  <2>1. size \in Nat /\ entries + U32 + size <= MaxRead
        /\ entries' \in {entries, entries + U32 + size}
    BY <1>7, <1>9
  <2> HIDE DEF size
  <2>2. entries' \in 0..MaxRead
    BY <1>7, <2>1 DEF U32
  <2> QED
    BY <1>4, <1>5, <1>6, <1>9, <2>2
<1> QED
  BY <1>3, <1>5, <1>8, <1>9

-----------------------------------------------------------------------------
LEMMA OggInitInv == OggInit => OggInv
<1> SUFFICES ASSUME OggInit PROVE OggInv
  OBVIOUS
<1>1. Inv /\ EntryInv
  BY InitInv, EntryInit DEF OggInit
<1>2. OggTypeOK
  <2>1. 0 \in 0..Lace /\ 0 \in 0..MaxPages /\ 0 \in 0..MaxComments
    BY OggAssumption
  <2>2. lacing = <<>> /\ segLeft = 0 /\ lastSeg = FALSE /\ pages = 0
    BY DEF OggInit
  <2>3. lacing \in Seq(0..Lace)
    BY <2>2, EmptySeq
  <2>4. segLeft \in 0..Lace /\ lastSeg \in BOOLEAN /\ pages \in 0..MaxPages
    BY <2>1, <2>2
  <2>5. field = "ident" /\ need \in Nat /\ index \in 0..MaxComments
        /\ entries \in 0..MaxRead
    BY <2>1, FileAssumption DEF OggInit
  <2> QED
    BY <1>1, <2>3, <2>4, <2>5 DEF OggTypeOK, Inv
<1>3. file.format = "ogg" => KeptOK
  <2> SUFFICES ASSUME file.format = "ogg" PROVE KeptOK
    OBVIOUS
  <2>1. OggLayoutOK(file)
    BY <1>1, OggFileOK DEF Inv
  <2>2. \A i \in DOMAIN file.comments : ~(i <= 0)
    BY <2>1 DEF OggLayoutOK, Commented
  <2>3. kept = <<>> /\ Dealt = 0
    BY DEF OggInit, Dealt
  <2> QED
    BY <2>2, <2>3 DEF KeptOK
<1>4. pc = "open"
  BY DEF OggInit, Init
<1> QED
  BY <1>1, <1>2, <1>3, <1>4 DEF OggInv

LEMMA OggStepInv == OggInv /\ [OggNext]_<<vars, oggVars>> => OggInv'
<1> SUFFICES ASSUME OggInv, [OggNext]_<<vars, oggVars>> PROVE OggInv'
  OBVIOUS
<1>1. CASE Next /\ UNCHANGED oggVars
  BY <1>1, OtherInv
<1>2. CASE Ogg
  BY <1>2, OggOpenInv, NextPageInv, NextSegmentInv, PastPacketInv, ReadIdentInv,
     ReadPartInv, StartPacketInv, HeadFieldInv, NextCommentInv, LengthReadInv DEF Ogg
<1>3. CASE UNCHANGED <<vars, oggVars>>
  <2>1. Inv' /\ EntryInv'
    BY <1>3, StepInv, EntryStep DEF OggInv
  <2>2. OggTypeOK'
    BY <1>3, <2>1 DEF OggInv, OggTypeOK, oggVars, Inv
  <2>3. file' = file /\ UNCHANGED <<pc, reader>>
    BY <1>3 DEF vars, file
  <2>4. KeptOK => KeptOK'
    BY <1>3, <2>3 DEF KeptOK, Dealt, oggVars
  <2> QED
    BY <2>1, <2>2, <2>3, <2>4 DEF OggInv
<1> QED
  BY <1>1, <1>2, <1>3 DEF OggNext

\* No step of the Ogg reader changes the file.
LEMMA OggFrame == ASSUME Ogg PROVE UNCHANGED <<name, whole>>
<1>1. OggUnreadable \/ OggConclude(ParsedSynth) => UNCHANGED <<name, whole>>
  BY DEF OggUnreadable, OggConclude, Conclude, rest
<1>2. UNCHANGED InOgg \/ UNCHANGED InField => UNCHANGED <<name, whole>>
  BY DEF InOgg, InField
<1>3. CASE OggOpen
  BY <1>1, <1>3 DEF OggOpen, WalkFrom
<1>4. CASE NextPage \/ NextSegment \/ PastPacket \/ ReadIdent \/ ReadPart
  BY <1>1, <1>2, <1>4 DEF NextPage, NextSegment, PastPacket, ReadIdent, ReadPart
<1>5. CASE StartPacket \/ PrefixRead \/ VendorLengthRead \/ VendorSkipped
           \/ NextComment \/ LengthRead
  BY <1>1, <1>2, <1>5 DEF StartPacket, PrefixRead, VendorLengthRead, VendorSkipped,
                          NextComment, LengthRead, Goto
<1> QED
  BY <1>3, <1>4, <1>5 DEF Ogg

\* No sound file of another format comes to the Ogg reader.
LEMMA SoundBeside ==
    ASSUME OggInv, SoundInv, [OggNext]_<<vars, oggVars>> PROVE SoundInv'
<1>1. Inv /\ EntryInv
  BY DEF OggInv
<1>2. CASE [Next]_vars
  BY <1>1, <1>2, SoundStep
<1>3. CASE Ogg
  <2>1. Good => pc # "ogg" /\ ~OggOpen
    BY DEF OggInv, Good, SoundInv, OggOpen, Opening
  <2>2. ~OggOpen => pc = "ogg"
    BY <1>3 DEF Ogg, NextPage, NextSegment, PastPacket, ReadIdent, ReadPart,
                StartPacket, PrefixRead, VendorLengthRead, VendorSkipped, NextComment,
                LengthRead, Wanting, FieldRead
  <2>3. UNCHANGED <<name, whole>>
    BY <1>3, OggFrame
  <2> QED
    BY <2>1, <2>2, <2>3, GoodKept DEF SoundInv
<1> QED
  BY <1>2, <1>3 DEF OggNext

-----------------------------------------------------------------------------
(* Where the Ogg reader is: n segments of the file are begun, the last of  *)
(* them on page p.                                                         *)

\* Inside a segment, or at the end of one that ends its packet.
Begun == segLeft > 0 \/ lastSeg

\* The packet that is read, and how much of it is behind the reader.
PacketRead(n) == IF Begun THEN file.segments[n].packet ELSE PacketAfter(file, n)

ReadOf(n) ==
    IF Begun THEN file.segments[n].in + file.segments[n].size - segLeft
    ELSE InAfter(file, n)

\* A field ends where the layout has it.
FieldInv(read) ==
    /\ field \in {"ident", "prefix", "vendor length", "vendor", "count"} => index = 0
    /\ field = "ident" => need = read
    /\ field = "prefix" => read + need = Prefix
    /\ field = "vendor length" => read + need = Prefix + U32
    /\ field = "vendor" => read + need = Prefix + U32 + file.vendor
    /\ field = "count" => read + need = CommentsEnd(file, 0)
    /\ field = "length" =>
           /\ index - 1 \in 0..Len(file.comments) /\ index <= file.count
           /\ read + need = CommentsEnd(file, index - 1) + U32
    /\ field \in {"comment", "large comment"} =>
           index \in DOMAIN file.comments /\ read + need = CommentsEnd(file, index)
    /\ entries = HeldUpTo(file, Dealt)

SegmentInv(n) ==
    /\ n \in 0..Len(file.segments)
    /\ Begun => /\ n > 0 /\ segLeft <= file.segments[n].size
                /\ lastSeg <=> file.segments[n].size < Lace
    /\ PacketRead(n) = IF field = "ident" THEN 1 ELSE 2
    /\ FieldInv(ReadOf(n))

\* Pages the reader has come to when it is on p.
Turned(p) == {q \in file.pages : q.at <= p.at /\ q.first <= p.first}

PageInv(n, p) ==
    /\ n \in p.first..(p.first + Len(p.lacing))
    /\ lacing = SubSeq(p.lacing, n - p.first + 1, Len(p.lacing))
    /\ PageBody(p) <= pos
    /\ IF n = p.first THEN ~Begun /\ pos = PageBody(p)
       ELSE pos = file.segments[n].at + file.segments[n].size - segLeft
    /\ pages <= Cardinality(Turned(p))

\* In front of the first page.
AtStart(n) == n = 0 /\ pages = 0 /\ lacing = <<>> /\ pos = 0 /\ ~Begun

Placement(n) == SegmentInv(n) /\ (AtStart(n) \/ \E p \in file.pages : PageInv(n, p))

PlaceInv ==
    file.format = "ogg" =>
        /\ pc = "open" => SegmentInv(0) /\ AtStart(0)
        /\ pc = "ogg" => \E n \in Nat : Placement(n)

LEMMA SegmentOK ==
    ASSUME OggLayoutOK(file), NEW n \in DOMAIN file.segments
    PROVE  /\ n \in 1..Len(file.segments) /\ Len(file.segments) \in Nat
           /\ file.segments[n].at \in Nat /\ file.segments[n].size \in 0..Lace
           /\ file.segments[n].packet \in Nat /\ file.segments[n].in \in Nat
           /\ file.segments[n].packet = PacketAfter(file, n - 1)
           /\ file.segments[n].in = InAfter(file, n - 1)
           /\ file.segments[n].size \in Nat
<1>1. file.segments \in Seq(Segment)
  BY DEF OggLayoutOK, Segmented
<1>2. n \in 1..Len(file.segments) /\ file.segments[n] \in Segment
  BY <1>1
<1>3. /\ file.segments[n].at \in Nat /\ file.segments[n].size \in 0..Lace
      /\ file.segments[n].packet \in Nat /\ file.segments[n].in \in Nat
  BY <1>2 DEF Segment
<1>4. /\ file.segments[n].packet = PacketAfter(file, n - 1)
      /\ file.segments[n].in = InAfter(file, n - 1)
  BY DEF OggLayoutOK, Segmented
<1>5. file.segments[n].size \in Nat
  <2>1. Lace \in Nat
    BY OggAssumption
  <2> QED
    BY <1>3, <2>1
<1> QED
  BY <1>1, <1>2, <1>3, <1>4, <1>5

LEMMA PageOK ==
    ASSUME OggLayoutOK(file), NEW p \in file.pages
    PROVE  /\ p.at \in Nat /\ p.first \in Nat /\ p.lacing \in Seq(0..Lace)
           /\ Len(p.lacing) \in Nat /\ Len(file.segments) \in Nat
           /\ p.first + Len(p.lacing) <= Len(file.segments)
           /\ PageBody(p) \in Nat /\ p.at + Header <= PageBody(p)
<1>1. p \in Page /\ file.segments \in Seq(Segment)
  BY DEF OggLayoutOK, Paginated, Segmented
<1>2. p.at \in Nat /\ p.first \in Nat /\ p.lacing \in Seq(0..Lace)
  BY <1>1 DEF Page
<1>3. Len(p.lacing) \in Nat /\ Len(file.segments) \in Nat
  BY <1>1, <1>2
<1>4. p.first + Len(p.lacing) <= Len(file.segments)
  BY DEF OggLayoutOK, Paginated
<1>5. PageBody(p) \in Nat /\ p.at + Header <= PageBody(p)
  <2> DEFINE length == Len(p.lacing)
  <2>1. PageBody(p) = p.at + Header + length /\ length \in Nat
    BY <1>3 DEF PageBody
  <2> HIDE DEF length
  <2> QED
    BY <1>2, <2>1 DEF Header
<1> QED
  BY <1>2, <1>3, <1>4, <1>5

LEMMA SegmentOfPage ==
    ASSUME OggLayoutOK(file), NEW p \in file.pages, NEW k \in DOMAIN p.lacing
    PROVE  /\ file.segments[p.first + k].size = p.lacing[k]
           /\ file.segments[p.first + k].at =
                  IF k = 1 THEN PageBody(p)
                  ELSE file.segments[p.first + k - 1].at
                           + file.segments[p.first + k - 1].size
<1>1. Paginated(file)
  BY DEF OggLayoutOK
<1> QED
  BY <1>1 DEF Paginated

\* The comments end behind each other.
LEMMA CommentsEndOK ==
    ASSUME OggLayoutOK(file), NEW i \in 0..Len(file.comments)
    PROVE  /\ CommentsEnd(file, i) \in Nat
           /\ i # 0 => /\ CommentsEnd(file, i - 1) + U32 <= CommentsEnd(file, i)
                       /\ CommentsEnd(file, i) =
                              CommentsEnd(file, i - 1) + U32 + file.comments[i].size
<1>1. file.comments \in Seq(Comment) /\ file.vendor \in Nat
  BY DEF OggLayoutOK, Commented
<1>2. CASE i = 0
  BY <1>1, <1>2 DEF CommentsEnd, Prefix, U32
<1>3. CASE i # 0
  <2>1. i \in DOMAIN file.comments
    BY <1>1, <1>3
  <2>2. file.comments[i] \in Comment
    BY <1>1, <2>1
  <2>5. file.comments[i].at \in Nat /\ file.comments[i].size \in Nat
    BY <2>2 DEF Comment
  <2>3. file.comments[i].at = CommentsEnd(file, i - 1)
    BY <2>1 DEF OggLayoutOK, Commented
  <2>4. CommentsEnd(file, i) = file.comments[i].at + U32 + file.comments[i].size
    BY <1>3 DEF CommentsEnd
  <2> QED
    BY <2>3, <2>4, <2>5 DEF U32
<1> QED
  BY <1>2, <1>3

\* How much is kept, comment by comment.
LEMMA HeldUpToOK ==
    ASSUME OggLayoutOK(file), NEW i \in DOMAIN file.comments
    PROVE  /\ file.comments[i].held = HeldUpTo(file, i - 1)
           /\ HeldUpTo(file, i) =
                  HeldUpTo(file, i - 1)
                    + IF Keeps(file.comments[i]) THEN U32 + file.comments[i].size ELSE 0
           /\ file.comments[i].held \in Nat
<1>1. file.comments \in Seq(Comment)
  BY DEF OggLayoutOK, Commented
<1>2. i # 0 /\ file.comments[i] \in Comment
  BY <1>1
<1>3. file.comments[i].held = HeldUpTo(file, i - 1)
  BY DEF OggLayoutOK, Commented
<1> QED
  BY <1>2, <1>3 DEF HeldUpTo, Comment

-----------------------------------------------------------------------------
(* Every step of the Ogg reader comes to the place the layout has *)

\* What a place depends on.
PlaceVars == <<lacing, segLeft, lastSeg, pages, field, need, index, entries, pos>>

LEMMA PlaceAside ==
    ASSUME file' = file, UNCHANGED PlaceVars, NEW n
    PROVE  /\ SegmentInv(n)' <=> SegmentInv(n)
           /\ AtStart(n)' <=> AtStart(n)
           /\ Placement(n)' <=> Placement(n)
<1>1. /\ Begun' = Begun /\ PacketRead(n)' = PacketRead(n) /\ ReadOf(n)' = ReadOf(n)
      /\ Dealt' = Dealt
  BY DEF PlaceVars, Begun, PacketRead, ReadOf, Dealt
<1>2. SegmentInv(n)' <=> SegmentInv(n)
  BY <1>1 DEF PlaceVars, SegmentInv, FieldInv
<1>3. AtStart(n)' <=> AtStart(n)
  BY <1>1 DEF PlaceVars, AtStart
<1>4. \A p : PageInv(n, p)' <=> PageInv(n, p)
  BY <1>1 DEF PlaceVars, PageInv, Turned
<1> QED
  BY <1>2, <1>3, <1>4 DEF Placement

\* The reader of another format, or the file growing.
LEMMA PlaceOther ==
    ASSUME OggInv, PlaceInv, Next, UNCHANGED oggVars PROVE PlaceInv'
<1>1. file' = file
  BY NextFrame DEF OggInv, file
<1>2. CASE pc' = "ogg"
  <2>1. pc = "ogg"
    BY <1>2, NextFrame DEF OggInv
  <2>2. pos' = pos
    <3>1. CASE Grow
      BY <3>1 DEF Grow
    <3>2. CASE Walk
      BY <2>1, <3>2 DEF Walk, NotOpened, BadStart, TooMany, WavOpen, WavEnd, WavChunk,
         FlacOpen, FlacBlock, M4aOpen, NoMoov, AtomRefused, M4aAtom, MoovEnd, MoovChild,
         WmaOpen, WmaEnd, WmaObject, Mp3Tag, DsfHeader, DsfTag, AacSniff, Opening, Walking
    <3> QED
      BY <3>1, <3>2 DEF Next
  <2>3. \A n : Placement(n)' <=> Placement(n)
    BY <1>1, <2>2, PlaceAside DEF oggVars, PlaceVars
  <2> QED
    BY <1>1, <1>2, <2>1, <2>3 DEF PlaceInv
<1>3. CASE pc' = "open"
  <2>1. pc = "open" /\ pos' = pos
    <3>1. CASE Grow
      BY <1>3, <3>1 DEF Grow
    <3>2. ASSUME NEW result PROVE ~Conclude(result)
      BY <1>3 DEF Conclude
    <3>3. ASSUME NEW offset, NEW end, NEW where \in {"walk", "moov"}
          PROVE  ~WalkFrom(offset, end, where)
      BY <1>3 DEF WalkFrom
    <3>4. ASSUME NEW offset, pc # "open" PROVE ~SkipTo(offset)
      BY <1>3, <3>4 DEF SkipTo
    <3>5. CASE AacSniff
      BY <3>2, <3>5 DEF AacSniff, Opening, Unreadable
    <3>6. CASE NotOpened \/ BadStart \/ TooMany \/ WavEnd \/ NoMoov \/ AtomRefused
               \/ MoovEnd \/ WmaEnd \/ Mp3Tag \/ DsfTag
      BY <3>2, <3>6 DEF NotOpened, BadStart, TooMany, WavEnd, NoMoov, AtomRefused,
                        MoovEnd, WmaEnd, Mp3Tag, DsfTag, Take, Unreadable
    <3>7. CASE WavOpen \/ FlacOpen \/ M4aOpen \/ WmaOpen \/ DsfHeader
      BY <3>2, <3>3, <3>7 DEF WavOpen, FlacOpen, M4aOpen, WmaOpen, DsfHeader, Unreadable
    <3>8. CASE WavChunk \/ FlacBlock \/ M4aAtom \/ MoovChild \/ WmaObject
      BY <3>2, <3>3, <3>4, <3>8 DEF WavChunk, FlacBlock, M4aAtom, MoovChild, WmaObject,
                                    Take, Unreadable, Walking
    <3> QED
      BY <3>1, <3>5, <3>6, <3>7, <3>8 DEF Next, Walk
  <2>2. (SegmentInv(0)' <=> SegmentInv(0)) /\ (AtStart(0)' <=> AtStart(0))
    BY <1>1, <2>1, PlaceAside DEF oggVars, PlaceVars
  <2> QED
    BY <1>1, <1>3, <2>1, <2>2 DEF PlaceInv
<1> QED
  BY <1>2, <1>3 DEF PlaceInv

\* A walk that ends has no place.
LEMMA PlaceEnded == ASSUME NEW result, OggConclude(result) PROVE PlaceInv'
BY DEF OggConclude, Conclude, PlaceInv

LEMMA PlaceOpened == ASSUME OggInv, PlaceInv, OggOpen PROVE PlaceInv'
<1>1. CASE OggUnreadable
  BY <1>1, PlaceEnded DEF OggUnreadable
<1>2. CASE file.format = "ogg" /\ WalkFrom(0, 0, "ogg") /\ UNCHANGED oggVars
  <2>1. file' = file /\ pc' = "ogg" /\ pos' = 0
    BY <1>2 DEF WalkFrom, file
  <2>2. pc = "open" /\ SegmentInv(0) /\ AtStart(0)
    BY <1>2 DEF OggOpen, Opening, PlaceInv
  <2>3. pos' = pos
    BY <2>1, <2>2 DEF AtStart
  <2>4. SegmentInv(0)' /\ AtStart(0)'
    BY <1>2, <2>1, <2>2, <2>3, PlaceAside DEF oggVars, PlaceVars
  <2> QED
    BY <2>1, <2>4 DEF PlaceInv, Placement
<1> QED
  BY <1>1, <1>2 DEF OggOpen

\* A page whose segments are used up ends where the reader is.
LEMMA PageOver ==
    ASSUME OggLayoutOK(file), NEW n \in Nat, NEW p \in file.pages, PageInv(n, p),
           lacing = <<>>, segLeft = 0
    PROVE  n = p.first + Len(p.lacing) /\ pos = PageEnd(file, p)
<1>1. /\ p.at \in Nat /\ p.lacing \in Seq(0..Lace) /\ Len(p.lacing) \in Nat
      /\ p.first \in Nat /\ PageBody(p) \in Nat /\ p.at + Header <= PageBody(p)
  BY PageOK
<1>2. n = p.first + Len(p.lacing)
  <2> DEFINE k == n - p.first + 1
  <2>1. n \in p.first..(p.first + Len(p.lacing))
        /\ SubSeq(p.lacing, k, Len(p.lacing)) = <<>>
    BY DEF PageInv
  <2>2. k \in 1..(Len(p.lacing) + 1)
    BY <1>1, <2>1
  <2> HIDE DEF k
  <2>3. Len(SubSeq(p.lacing, k, Len(p.lacing))) =
            IF k <= Len(p.lacing) THEN Len(p.lacing) - k + 1 ELSE 0
    BY <1>1, <2>2, SubSeqProperties
  <2>4. Len(SubSeq(p.lacing, k, Len(p.lacing))) = 0
    BY <2>1
  <2>5. k = Len(p.lacing) + 1
    BY <1>1, <2>2, <2>3, <2>4
  <2>6. n - p.first = Len(p.lacing)
    <3>1. n - p.first + 1 = Len(p.lacing) + 1
      BY <2>5 DEF k
    <3> QED
      BY <1>1, <3>1
  <2> QED
    BY <1>1, <2>6
<1>3. CASE n = p.first
  <2>1. Len(p.lacing) = 0
    BY <1>1, <1>2, <1>3
  <2>2. p.lacing = <<>>
    BY <1>1, <2>1, EmptySeq
  <2> QED
    BY <1>2, <1>3, <2>2 DEF PageInv, PageEnd
<1>4. CASE n # p.first
  <2>1. p.lacing # <<>>
    BY <1>1, <1>2, <1>4
  <2>2. n \in DOMAIN file.segments
    <3>1. n \in 1..Len(file.segments)
      BY <1>1, <1>2, <1>4, PageOK
    <3>2. file.segments \in Seq(Segment)
      BY DEF OggLayoutOK, Segmented
    <3> QED
      BY <3>1, <3>2
  <2>3. file.segments[n].at \in Nat /\ file.segments[n].size \in Nat
    BY <2>2, SegmentOK
  <2>4. pos = file.segments[n].at + file.segments[n].size - segLeft
    BY <1>4 DEF PageInv
  <2>5. pos = file.segments[n].at + file.segments[n].size
    BY <2>3, <2>4
  <2> QED
    BY <1>2, <2>1, <2>5 DEF PageEnd
<1> QED
  BY <1>3, <1>4

\* The page behind it goes on with the next segment, and is a new one.
LEMMA PageTurned ==
    ASSUME OggLayoutOK(file), NEW p \in file.pages, NEW q \in file.pages,
           q.at = PageEnd(file, p), PageBody(p) <= q.at
    PROVE  /\ q.first = p.first + Len(p.lacing)
           /\ Turned(p) \union {q} \subseteq Turned(q)
           /\ IsFiniteSet(Turned(p)) /\ IsFiniteSet(Turned(q))
           /\ IsFiniteSet(Turned(p) \union {q})
           /\ Cardinality(Turned(p) \union {q}) = Cardinality(Turned(p)) + 1
           /\ Cardinality(Turned(p)) \in Nat /\ Cardinality(Turned(q)) \in Nat
<1>1. /\ p.at \in Nat /\ Len(p.lacing) \in Nat /\ q.at \in Nat /\ q.first \in Nat
      /\ p.first \in Nat /\ PageBody(p) \in Nat /\ p.at + Header <= PageBody(p)
  BY PageOK
<1>2. q.first = p.first + Len(p.lacing)
  BY DEF OggLayoutOK, Paginated
<1>3. p.at < q.at /\ p.first <= q.first
  BY <1>1, <1>2 DEF Header
<1>4. IsFiniteSet(Turned(p)) /\ IsFiniteSet(Turned(q)) /\ q \notin Turned(p)
  <2>1. IsFiniteSet(file.pages)
    BY DEF OggLayoutOK, Paginated
  <2>2. Turned(p) \subseteq file.pages /\ Turned(q) \subseteq file.pages
    BY DEF Turned
  <2>3. IsFiniteSet(Turned(p)) /\ IsFiniteSet(Turned(q))
    BY <2>1, <2>2, FS_Subset
  <2>4. q \notin Turned(p)
    BY <1>1, <1>3 DEF Turned
  <2> QED
    BY <2>3, <2>4
<1>5. Turned(p) \union {q} \subseteq Turned(q)
  <2>1. q \in Turned(q)
    BY <1>1 DEF Turned
  <2>2. ASSUME NEW x \in Turned(p) PROVE x \in Turned(q)
    <3>1. x \in file.pages /\ x.at <= p.at /\ x.first <= p.first
      BY DEF Turned
    <3>2. x.at \in Nat /\ x.first \in Nat
      BY <3>1, PageOK
    <3> QED
      BY <1>1, <1>3, <3>1, <3>2 DEF Turned
  <2> QED
    BY <2>1, <2>2
<1>6. /\ Cardinality(Turned(p) \union {q}) = Cardinality(Turned(p)) + 1
      /\ IsFiniteSet(Turned(p) \union {q})
  BY <1>4, FS_AddElement
<1>7. Cardinality(Turned(p)) \in Nat /\ Cardinality(Turned(q)) \in Nat
  BY <1>4, FS_CardinalityType
<1> QED
  BY <1>2, <1>4, <1>5, <1>6, <1>7

\* On the first page, or on the one behind the last.
LEMMA PlaceNextPage == ASSUME OggInv, PlaceInv, NextPage PROVE PlaceInv'
<1>1. /\ pc = "ogg" /\ file.format = "ogg" /\ OggLayoutOK(file) /\ ~Begun
      /\ lacing = <<>> /\ pos \in Nat
  <2>1. pc = "ogg" /\ segLeft = 0 /\ ~lastSeg /\ lacing = <<>>
    BY DEF NextPage, Wanting
  <2>2. TypeOK /\ file.format = "ogg"
    BY <2>1 DEF OggInv, Inv
  <2> QED
    BY <2>1, <2>2, OggFileOK DEF TypeOK, Begun
<1>2. CASE OggUnreadable
  BY <1>2, PlaceEnded DEF OggUnreadable
<1>3. ASSUME NEW q \in file.pages, q.at = pos, pos' = pos + Header + Len(q.lacing),
             lacing' = q.lacing, pages' = pages + 1,
             UNCHANGED <<InOgg, segLeft, lastSeg, field, need, index, kept, entries>>
      PROVE  PlaceInv'
  <2>1. PICK n \in Nat : Placement(n)
    BY <1>1 DEF PlaceInv
  <2>2. file' = file /\ pc' = "ogg"
    BY <1>1, <1>3 DEF InOgg, file
  <2>3. SegmentInv(n)'
    <3>1. Begun' = Begun /\ PacketRead(n)' = PacketRead(n) /\ ReadOf(n)' = ReadOf(n)
          /\ Dealt' = Dealt
      BY <1>3, <2>2 DEF Begun, PacketRead, ReadOf, Dealt
    <3> QED
      BY <1>3, <2>1, <2>2, <3>1 DEF Placement, SegmentInv, FieldInv
  <2>4. /\ q.at \in Nat /\ q.lacing \in Seq(0..Lace) /\ Len(q.lacing) \in Nat
        /\ q.first \in Nat /\ n \in Nat /\ pages \in Nat
    <3>1. pages \in 0..MaxPages /\ MaxPages \in Nat
      BY OggAssumption DEF OggInv, OggTypeOK
    <3> QED
      BY <1>1, <2>1, <3>1, PageOK
  <2>5. q.first = n /\ pages + 1 <= Cardinality(Turned(q))
    <3>1. CASE AtStart(n)
      <4>1. q.first = n /\ pages = 0 /\ q \in Turned(q)
        BY <1>1, <1>3, <2>4, <3>1 DEF AtStart, OggLayoutOK, Paginated, Turned
      <4>2. IsFiniteSet(Turned(q))
        BY <1>1, FS_Subset DEF OggLayoutOK, Paginated, Turned
      <4>3. Cardinality(Turned(q)) \in Nat /\ Cardinality(Turned(q)) # 0
        BY <4>1, <4>2, FS_CardinalityType, FS_EmptySet
      <4> QED
        BY <4>1, <4>3
    <3>2. ASSUME NEW p \in file.pages, PageInv(n, p)
          PROVE  q.first = n /\ pages + 1 <= Cardinality(Turned(q))
      <4>1. segLeft = 0
        BY DEF NextPage, Wanting
      <4>2. n = p.first + Len(p.lacing) /\ pos = PageEnd(file, p)
        BY <1>1, <3>2, <4>1, PageOver
      <4>3. PageBody(p) <= pos /\ pages <= Cardinality(Turned(p))
        BY <3>2 DEF PageInv
      <4>4. /\ q.first = p.first + Len(p.lacing)
            /\ Turned(p) \union {q} \subseteq Turned(q)
            /\ IsFiniteSet(Turned(q))
            /\ Cardinality(Turned(p) \union {q}) = Cardinality(Turned(p)) + 1
            /\ Cardinality(Turned(p)) \in Nat /\ Cardinality(Turned(q)) \in Nat
        <5>1. q.at = PageEnd(file, p) /\ PageBody(p) <= q.at
          BY <1>3, <4>2, <4>3
        <5> QED
          BY <1>1, <5>1, PageTurned
      <4>5. Cardinality(Turned(p)) + 1 <= Cardinality(Turned(q))
        BY <4>4, FS_Subset
      <4> QED
        BY <2>4, <4>2, <4>3, <4>4, <4>5
    <3> QED
      BY <2>1, <3>1, <3>2 DEF Placement
  <2>6. PageInv(n, q)'
    <3>1. n \in q.first..(q.first + Len(q.lacing))
      BY <2>4, <2>5
    <3>2. lacing' = SubSeq(q.lacing, n - q.first + 1, Len(q.lacing))
      <4>1. n - q.first + 1 = 1
        BY <2>4, <2>5
      <4>2. SubSeq(q.lacing, 1, Len(q.lacing)) = q.lacing
        BY <2>4, SubSeqFull
      <4> QED
        BY <1>3, <4>1, <4>2
    <3>3. pos' = PageBody(q) /\ PageBody(q) \in Nat
      BY <1>1, <1>3, PageOK DEF PageBody
    <3>4. ~Begun' /\ Turned(q)' = Turned(q)
      BY <1>1, <1>3, <2>2 DEF Begun, Turned
    <3>5. PageBody(q) <= pos'
      BY <3>3
    <3> QED
      BY <1>3, <2>5, <3>1, <3>2, <3>3, <3>4, <3>5 DEF PageInv
  <2> QED
    BY <2>2, <2>3, <2>4, <2>6 DEF PlaceInv, Placement
<1> QED
  BY <1>2, <1>3 DEF NextPage

\* The packet goes on with the next segment of the page.
LEMMA PlaceNextSegment == ASSUME OggInv, PlaceInv, NextSegment PROVE PlaceInv'
<1>1. /\ pc = "ogg" /\ segLeft = 0 /\ ~lastSeg /\ lacing # <<>>
      /\ segLeft' = Head(lacing) /\ lacing' = Tail(lacing)
      /\ lastSeg' = (Head(lacing) < Lace)
      /\ UNCHANGED <<InOgg, pos, pages, field, need, index, kept, entries>>
  BY DEF NextSegment, Wanting
<1>2. /\ file.format = "ogg" /\ OggLayoutOK(file) /\ ~Begun /\ pos \in Nat
      /\ Lace \in Nat \ {0} /\ pages \in Nat
  <2>1. TypeOK /\ file.format = "ogg" /\ pages \in 0..MaxPages
    BY <1>1 DEF OggInv, Inv, OggTypeOK
  <2> QED
    BY <1>1, <2>1, OggFileOK, OggAssumption DEF TypeOK, Begun
<1>3. PICK n \in Nat : Placement(n)
  BY <1>1, <1>2 DEF PlaceInv
<1>4. PICK p \in file.pages : PageInv(n, p)
  BY <1>1, <1>3 DEF Placement, AtStart
<1>5. /\ p.at \in Nat /\ p.first \in Nat /\ p.lacing \in Seq(0..Lace)
      /\ Len(p.lacing) \in Nat /\ Len(file.segments) \in Nat
      /\ p.first + Len(p.lacing) <= Len(file.segments) /\ PageBody(p) \in Nat
  BY <1>2, PageOK
<1> DEFINE k == n - p.first + 1
<1>6. k \in 1..Len(p.lacing) /\ n + 1 = p.first + k
  <2>1. n \in p.first..(p.first + Len(p.lacing))
        /\ SubSeq(p.lacing, n - p.first + 1, Len(p.lacing)) # <<>>
    BY <1>1, <1>4 DEF PageInv
  <2>2. n # p.first + Len(p.lacing)
    <3>1. ASSUME n = p.first + Len(p.lacing)
          PROVE  SubSeq(p.lacing, n - p.first + 1, Len(p.lacing)) = <<>>
      <4>1. n - p.first + 1 \in Int /\ Len(p.lacing) < n - p.first + 1
        BY <1>5, <3>1
      <4> QED
        BY <1>5, <4>1, SubSeqEmpty
    <3> QED
      BY <2>1, <3>1
  <2> DEFINE length == Len(p.lacing)
  <2>3. length \in Nat /\ n \in p.first..(p.first + length) /\ n # p.first + length
    BY <1>5, <2>1, <2>2
  <2>4. p.first \in Nat /\ n \in Nat
    BY <1>3, <1>5
  <2> HIDE DEF length
  <2>5. n - p.first + 1 \in 1..length /\ n + 1 = p.first + (n - p.first + 1)
    BY <2>3, <2>4
  <2> QED
    BY <2>5 DEF length
<1>7. Head(lacing) = p.lacing[k]
      /\ Tail(lacing) = SubSeq(p.lacing, k + 1, Len(p.lacing))
  <2>1. lacing = SubSeq(p.lacing, k, Len(p.lacing))
    BY <1>4 DEF PageInv
  <2> HIDE DEF k
  <2>2. Len(p.lacing) \in k..Len(p.lacing)
    BY <1>5, <1>6
  <2> QED
    BY <1>5, <1>6, <2>1, <2>2, HeadTailOfSubSeq
<1>8. n + 1 \in DOMAIN file.segments /\ file.segments[n + 1].size = p.lacing[k]
      /\ file.segments[n + 1].at = IF k = 1 THEN PageBody(p)
                                   ELSE file.segments[n].at + file.segments[n].size
  <2>1. file.segments \in Seq(Segment)
    BY <1>2 DEF OggLayoutOK, Segmented
  <2>3. k \in DOMAIN p.lacing
    BY <1>5, <1>6
  <2>4. p.first + k - 1 = n
    BY <1>3, <1>5
  <2> HIDE DEF k
  <2> DEFINE all == Len(file.segments)
             length == Len(p.lacing)
  <2>5. /\ k \in 1..length /\ n + 1 = p.first + k /\ p.first + length <= all
        /\ {length, all, p.first, n} \subseteq Nat
    BY <1>3, <1>5, <1>6
  <2> HIDE DEF all, length
  <2>6. n + 1 \in 1..all
    BY <2>5
  <2>2. n + 1 \in DOMAIN file.segments
    BY <2>1, <2>6 DEF all
  <2> QED
    BY <1>2, <1>6, <2>2, <2>3, <2>4, SegmentOfPage
<1>9. /\ file.segments[n + 1].at \in Nat /\ file.segments[n + 1].size \in 0..Lace
      /\ file.segments[n + 1].packet \in Nat /\ file.segments[n + 1].in \in Nat
      /\ file.segments[n + 1].packet = PacketAfter(file, n)
      /\ file.segments[n + 1].in = InAfter(file, n)
  <2>1. n + 1 - 1 = n
    BY <1>3
  <2>2. PacketAfter(file, n + 1 - 1) = PacketAfter(file, n)
        /\ InAfter(file, n + 1 - 1) = InAfter(file, n)
    BY <2>1
  <2> DEFINE m == n + 1
  <2>3. m \in DOMAIN file.segments
    BY <1>8
  <2> HIDE DEF m
  <2>4. /\ file.segments[m].at \in Nat /\ file.segments[m].size \in 0..Lace
        /\ file.segments[m].packet \in Nat /\ file.segments[m].in \in Nat
        /\ file.segments[m].packet = PacketAfter(file, m - 1)
        /\ file.segments[m].in = InAfter(file, m - 1)
    BY <1>2, <2>3, SegmentOK
  <2> QED
    BY <2>2, <2>4 DEF m
<1>10. /\ segLeft' = file.segments[n + 1].size
       /\ lastSeg' = (file.segments[n + 1].size < Lace)
       /\ Begun'
  <2>1. /\ segLeft' = file.segments[n + 1].size
        /\ lastSeg' = (file.segments[n + 1].size < Lace)
    BY <1>1, <1>7, <1>8
  <2>2. CASE file.segments[n + 1].size < Lace
    BY <2>1, <2>2 DEF Begun
  <2>3. CASE ~(file.segments[n + 1].size < Lace)
    <3>1. segLeft' > 0
      BY <1>2, <1>9, <2>1, <2>3
    <3> QED
      BY <2>1, <3>1 DEF Begun
  <2> QED
    BY <2>2, <2>3
<1>11. file' = file /\ pc' = "ogg" /\ n + 1 \in Nat
  BY <1>1, <1>3 DEF InOgg, file
<1>12. SegmentInv(n + 1)'
  <2>1. PacketRead(n + 1)' = PacketRead(n)
    BY <1>2, <1>9, <1>10, <1>11 DEF PacketRead
  <2>2. ReadOf(n + 1)' = ReadOf(n)
    <3>1. ReadOf(n + 1)' = file.segments[n + 1].in + file.segments[n + 1].size
                             - file.segments[n + 1].size
      BY <1>10, <1>11 DEF ReadOf
    <3>2. ReadOf(n) = file.segments[n + 1].in
      BY <1>2, <1>9 DEF ReadOf
    <3> QED
      BY <1>2, <1>9, <3>1, <3>2
  <2>3. FieldInv(ReadOf(n)) /\ PacketRead(n) = IF field = "ident" THEN 1 ELSE 2
    BY <1>3 DEF Placement, SegmentInv
  <2>4. FieldInv(ReadOf(n + 1))'
    BY <1>1, <1>11, <2>2, <2>3 DEF FieldInv, Dealt
  <2>5. n + 1 \in 0..Len(file.segments) /\ n + 1 > 0
    BY <1>3, <1>5, <1>6
  <2>6. segLeft' <= file.segments[n + 1].size
    BY <1>2, <1>9, <1>10
  <2> QED
    BY <1>1, <1>10, <1>11, <2>1, <2>3, <2>4, <2>5, <2>6 DEF SegmentInv
<1>13. PageInv(n + 1, p)'
  <2>1. n + 1 \in p.first..(p.first + Len(p.lacing)) /\ n + 1 # p.first
    <3> DEFINE length == Len(p.lacing)
    <3>1. k \in 1..length /\ n + 1 = p.first + k /\ {length, p.first} \subseteq Nat
      BY <1>5, <1>6
    <3> HIDE DEF k, length
    <3>2. p.first + k \in p.first..(p.first + length) /\ p.first + k # p.first
      BY <3>1
    <3> QED
      BY <3>1, <3>2 DEF length
  <2>4. pos = file.segments[n + 1].at
    <3>1. CASE n = p.first
      BY <1>3, <1>4, <1>5, <1>8, <3>1 DEF PageInv
    <3>2. CASE n # p.first
      <4> DEFINE all == Len(file.segments)
                 length == Len(p.lacing)
      <4>6. /\ n \in p.first..(p.first + length) /\ p.first + length <= all
            /\ {length, all, p.first, n} \subseteq Nat
        BY <1>3, <1>4, <1>5 DEF PageInv
      <4> HIDE DEF all, length
      <4>7. n \in 1..all
        BY <3>2, <4>6
      <4>1. n \in 1..Len(file.segments)
        BY <4>7 DEF all
      <4>2. n \in DOMAIN file.segments
        BY <1>2, <4>1 DEF OggLayoutOK, Segmented
      <4>3. file.segments[n].at \in Nat /\ file.segments[n].size \in Nat
        BY <1>2, <4>2, SegmentOK
      <4>4. pos = file.segments[n].at + file.segments[n].size - segLeft
        BY <1>4, <3>2 DEF PageInv
      <4>5. k # 1
        BY <1>3, <1>5, <3>2
      <4> QED
        BY <1>1, <1>8, <4>3, <4>4, <4>5
    <3> QED
      BY <3>1, <3>2
  <2>5. pos' = file.segments[n + 1].at + file.segments[n + 1].size - segLeft'
    BY <1>1, <1>2, <1>9, <1>10, <2>4
  <2>6. PageBody(p) <= pos' /\ pages' <= Cardinality(Turned(p))'
    <3>1. Turned(p)' = Turned(p)
      BY <1>11 DEF Turned
    <3> QED
      BY <1>1, <1>4, <3>1 DEF PageInv
  <2> DEFINE m == n + 1
  <2>7. m \in p.first..(p.first + Len(p.lacing)) /\ m # p.first
    BY <2>1
  <2>9. lacing' = SubSeq(p.lacing, m - p.first + 1, Len(p.lacing))
    <3>1. m - p.first + 1 = k + 1
      BY <1>3, <1>5
    <3> HIDE DEF m, k
    <3> QED
      BY <1>1, <1>7, <3>1
  <2>10. pos' = file.segments[m].at + file.segments[m].size - segLeft'
    BY <2>5
  <2> HIDE DEF m
  <2>8. PageInv(m, p)'
    BY <1>11, <2>6, <2>7, <2>9, <2>10 DEF PageInv
  <2> QED
    BY <2>8 DEF m
<1> QED
  BY <1>11, <1>12, <1>13 DEF PlaceInv, Placement

\* Inside a segment: as much is behind the reader as it has read.
LEMMA PlaceInSegment ==
    ASSUME OggInv, PlaceInv, pc = "ogg", NEW m \in 0..segLeft,
           segLeft' = segLeft - m, pos' = pos + m, segLeft > 0,
           UNCHANGED <<InOgg, lacing, lastSeg, pages, field, index, kept, entries>>,
           need' = IF field = "ident" THEN need + m ELSE need - m,
           field = "ident" => m = segLeft
    PROVE  PlaceInv'
<1>1. /\ file.format = "ogg" /\ OggLayoutOK(file) /\ Begun /\ pos \in Nat
      /\ segLeft \in 0..Lace /\ need \in Nat /\ Lace \in Nat \ {0}
  <2>1. TypeOK /\ file.format = "ogg"
    BY DEF OggInv, Inv
  <2> QED
    BY <2>1, OggFileOK, OggAssumption DEF TypeOK, Begun, OggInv, OggTypeOK
<1>2. PICK n \in Nat : Placement(n)
  BY <1>1 DEF PlaceInv
<1>3. PICK p \in file.pages : PageInv(n, p)
  BY <1>1, <1>2 DEF Placement, AtStart
<1>4. /\ n > 0 /\ segLeft <= file.segments[n].size
      /\ lastSeg <=> file.segments[n].size < Lace
      /\ n \in 0..Len(file.segments)
      /\ PacketRead(n) = IF field = "ident" THEN 1 ELSE 2
      /\ FieldInv(ReadOf(n))
  BY <1>1, <1>2 DEF Placement, SegmentInv
<1>5. n \in DOMAIN file.segments
  <2>1. file.segments \in Seq(Segment)
    BY <1>1 DEF OggLayoutOK, Segmented
  <2>2. n \in 1..Len(file.segments)
    BY <1>2, <1>4, <2>1
  <2> QED
    BY <2>1, <2>2
<1>6. /\ file.segments[n].at \in Nat /\ file.segments[n].size \in 0..Lace
      /\ file.segments[n].packet \in Nat /\ file.segments[n].in \in Nat
  BY <1>1, <1>5, SegmentOK
<1>7. file' = file /\ pc' = "ogg"
  BY DEF InOgg, file
<1>8. PacketRead(n)' = PacketRead(n)
  <2>1. PacketRead(n) = file.segments[n].packet
    BY <1>1 DEF PacketRead
  <2>2. CASE Begun'
    BY <1>7, <2>1, <2>2 DEF PacketRead
  <2>3. CASE ~Begun'
    <3>1. ~(file.segments[n].size < Lace) /\ n # 0
      BY <1>4, <2>3 DEF Begun
    <3>2. PacketRead(n)' = file.segments[n].packet + 0
      BY <1>7, <2>3, <3>1 DEF PacketRead, PacketAfter
    <3> QED
      BY <1>6, <2>1, <3>2
  <2> QED
    BY <2>2, <2>3
<1>9. ReadOf(n)' = ReadOf(n) + m
  <2>1. ReadOf(n) = file.segments[n].in + file.segments[n].size - segLeft
    BY <1>1 DEF ReadOf
  <2>2. CASE Begun'
    <3>1. ReadOf(n)' = file.segments[n].in + file.segments[n].size - segLeft'
      BY <1>7, <2>2 DEF ReadOf
    <3> QED
      BY <1>1, <1>6, <2>1, <3>1
  <2>3. CASE ~Begun'
    <3>1. ~(file.segments[n].size < Lace) /\ n # 0 /\ ~(segLeft' > 0)
      BY <1>4, <2>3 DEF Begun
    <3>2. m = segLeft
      BY <1>1, <3>1
    <3>3. ReadOf(n)' = file.segments[n].in + file.segments[n].size
      BY <1>7, <2>3, <3>1 DEF ReadOf, InAfter
    <3> QED
      BY <1>1, <1>6, <2>1, <3>2, <3>3
  <2> QED
    BY <2>2, <2>3
<1>10. FieldInv(ReadOf(n))'
  <2>1. ReadOf(n) \in Int
    BY <1>1, <1>6 DEF ReadOf
  <2>2. Dealt' = Dealt /\ m \in Int
    BY <1>1 DEF Dealt
  <2>3. CASE field = "ident"
    BY <1>1, <1>4, <1>7, <1>9, <2>1, <2>2, <2>3 DEF FieldInv
  <2>4. CASE field # "ident"
    <3>1. ReadOf(n)' + need' = ReadOf(n) + need
      BY <1>1, <1>9, <2>1, <2>2, <2>4
    <3> QED
      BY <1>4, <1>7, <2>2, <2>4, <3>1 DEF FieldInv
  <2> QED
    BY <2>3, <2>4
<1>11. SegmentInv(n)'
  <2>1. segLeft <= file.segments[n].size /\ file.segments[n].size \in Int
        /\ m \in Nat /\ segLeft \in Int
    <3>1. file.segments[n].size \in Nat
      BY <1>1, <1>5, SegmentOK
    <3> QED
      BY <1>1, <1>4, <3>1
  <2>2. segLeft' <= file.segments[n].size
    BY <2>1
  <2> QED
    BY <1>4, <1>7, <1>8, <1>10, <2>2 DEF SegmentInv
<1>12. PageInv(n, p)'
  <2>1. n # p.first /\ pos = file.segments[n].at + file.segments[n].size - segLeft
        /\ PageBody(p) <= pos
    BY <1>1, <1>3 DEF PageInv
  <2>2. PageBody(p) \in Nat
    BY <1>1, PageOK
  <2>3. PageBody(p) <= pos'
    BY <1>1, <2>1, <2>2
  <2>4. pos' = file.segments[n].at + file.segments[n].size - segLeft'
    BY <1>1, <1>6, <2>1
  <2>5. Turned(p)' = Turned(p)
    BY <1>7 DEF Turned
  <2> QED
    BY <1>3, <1>7, <2>1, <2>3, <2>4, <2>5 DEF PageInv
<1> QED
  BY <1>2, <1>7, <1>11, <1>12 DEF PlaceInv, Placement

LEMMA PlaceReading == ASSUME OggInv, PlaceInv, ReadIdent \/ ReadPart PROVE PlaceInv'
<1>4. segLeft \in Nat /\ need \in Nat
  <2>1. segLeft \in 0..Lace /\ need \in Nat
    BY DEF OggInv, OggTypeOK
  <2> QED
    BY <2>1, OggAssumption
<1>1. CASE OggUnreadable
  BY <1>1, PlaceEnded DEF OggUnreadable
<1>2. CASE /\ pc = "ogg" /\ field = "ident" /\ segLeft > 0
           /\ pos' = pos + segLeft /\ need' = need + segLeft /\ segLeft' = 0
           /\ UNCHANGED <<InOgg, lacing, lastSeg, pages, field, index, kept, entries>>
  <2>1. segLeft \in Nat
    BY <1>4
  <2>2. segLeft \in 0..segLeft /\ segLeft' = segLeft - segLeft
    BY <1>2, <2>1
  <2> QED
    BY <1>2, <2>2, PlaceInSegment
<1> DEFINE n == IF need < segLeft THEN need ELSE segLeft
<1>3. CASE /\ pc = "ogg" /\ field # "ident" /\ segLeft > 0
           /\ pos' = pos + n /\ need' = need - n /\ segLeft' = segLeft - n
           /\ UNCHANGED <<InOgg, lacing, lastSeg, pages, field, index, kept, entries>>
  <2>1. segLeft \in Nat /\ need \in Nat
    BY <1>4
  <2>2. n \in 0..segLeft
    BY <2>1
  <2> QED
    BY <1>3, <2>2, PlaceInSegment
<1> QED
  BY <1>1, <1>2, <1>3 DEF ReadIdent, ReadPart

\* The identification packet is over, and the comment packet begins.
LEMMA PlaceStartPacket == ASSUME OggInv, PlaceInv, StartPacket PROVE PlaceInv'
<1>1. /\ pc = "ogg" /\ field = "ident" /\ segLeft = 0 /\ lastSeg
      /\ lastSeg' = FALSE /\ field' = "prefix" /\ need' = Prefix
      /\ UNCHANGED <<InOgg, pos, lacing, segLeft, pages, index, kept, entries>>
  BY DEF StartPacket, InField
<1>2. file.format = "ogg" /\ OggLayoutOK(file) /\ Begun /\ ~Begun'
  <2>1. TypeOK /\ file.format = "ogg"
    BY <1>1 DEF OggInv, Inv
  <2> QED
    BY <1>1, <2>1, OggFileOK DEF Begun
<1>3. file' = file /\ pc' = "ogg"
  BY <1>1 DEF InOgg, file
<1>4. PICK n \in Nat : Placement(n)
  BY <1>1, <1>2 DEF PlaceInv
<1>5. PICK p \in file.pages : PageInv(n, p)
  BY <1>2, <1>4 DEF Placement, AtStart
<1>6. /\ n > 0 /\ n \in 0..Len(file.segments) /\ file.segments[n].size < Lace
      /\ file.segments[n].packet = 1 /\ FieldInv(ReadOf(n))
  BY <1>1, <1>2, <1>4 DEF Placement, SegmentInv, PacketRead
<1>7. PacketRead(n)' = 2 /\ ReadOf(n)' = 0
  BY <1>2, <1>3, <1>4, <1>6 DEF PacketRead, ReadOf, PacketAfter, InAfter
<1>8. FieldInv(ReadOf(n))'
  <2>1. index = 0 /\ entries = HeldUpTo(file, 0)
    BY <1>1, <1>6 DEF FieldInv, Dealt
  <2> QED
    BY <1>1, <1>3, <1>7, <2>1 DEF FieldInv, Dealt, Prefix
<1>9. SegmentInv(n)'
  BY <1>1, <1>2, <1>3, <1>6, <1>7, <1>8 DEF SegmentInv
<1>10. PageInv(n, p)'
  <2>1. n # p.first /\ Turned(p)' = Turned(p)
    BY <1>2, <1>3, <1>5 DEF PageInv, Turned
  <2> QED
    BY <1>1, <1>3, <1>5, <2>1 DEF PageInv
<1> QED
  BY <1>3, <1>4, <1>9, <1>10 DEF PlaceInv, Placement

LEMMA ReadIsInt ==
    ASSUME OggInv, pc = "ogg", NEW n \in Nat, SegmentInv(n)
    PROVE  ReadOf(n) \in Int
<1>1. OggLayoutOK(file) /\ segLeft \in Nat
  <2>1. TypeOK /\ segLeft \in 0..Lace /\ file.format = "ogg"
    BY DEF OggInv, Inv, OggTypeOK
  <2> QED
    BY <2>1, OggFileOK, OggAssumption
<1>2. n \in 0..Len(file.segments) /\ file.segments \in Seq(Segment)
  BY <1>1 DEF SegmentInv, OggLayoutOK, Segmented
<1>3. CASE n = 0
  <2>1. ~Begun
    BY <1>3 DEF SegmentInv
  <2> QED
    BY <1>3, <2>1 DEF ReadOf, InAfter
<1>4. CASE n # 0
  <2>1. n \in DOMAIN file.segments
    BY <1>2, <1>4
  <2>2. file.segments[n].in \in Nat /\ file.segments[n].size \in Nat
    BY <1>1, <2>1, SegmentOK
  <2> QED
    BY <1>1, <2>2 DEF ReadOf, InAfter
<1> QED
  BY <1>3, <1>4

\* From one field to the next at the same place.
LEMMA PlaceField ==
    ASSUME OggInv, PlaceInv, pc = "ogg", UNCHANGED <<InField, lastSeg>>,
           field # "ident", field' # "ident",
           \A read \in Int : FieldInv(read) => FieldInv(read)'
    PROVE  PlaceInv'
<1>1. /\ file' = file /\ pc' = "ogg" /\ file.format = "ogg"
      /\ UNCHANGED <<pos, lacing, segLeft, pages, lastSeg>>
  BY DEF InField, InOgg, file, OggInv
<1>2. PICK n \in Nat : Placement(n)
  BY <1>1 DEF PlaceInv
<1>3. /\ Begun' = Begun /\ PacketRead(n)' = PacketRead(n) /\ ReadOf(n)' = ReadOf(n)
  BY <1>1 DEF Begun, PacketRead, ReadOf
<1>4. PICK read : read = ReadOf(n)
  OBVIOUS
<1>5. read \in Int
  BY <1>2, <1>4, ReadIsInt DEF Placement
<1>6. FieldInv(read)'
  BY <1>2, <1>4, <1>5 DEF Placement, SegmentInv
<1>7. FieldInv(ReadOf(n))'
  BY <1>3, <1>4, <1>6 DEF FieldInv
<1>8. SegmentInv(n)'
  BY <1>1, <1>2, <1>3, <1>7 DEF Placement, SegmentInv
<1>9. (AtStart(n) => AtStart(n)') /\ \A p : PageInv(n, p) => PageInv(n, p)'
  BY <1>1, <1>3 DEF AtStart, PageInv, Turned
<1> QED
  BY <1>1, <1>2, <1>8, <1>9 DEF PlaceInv, Placement

LEMMA PlaceHeadField ==
    ASSUME OggInv, PlaceInv, PrefixRead \/ VendorLengthRead \/ VendorSkipped
    PROVE  PlaceInv'
<1>1. pc = "ogg" /\ need = 0 /\ field \in {"prefix", "vendor length", "vendor"}
  BY DEF PrefixRead, VendorLengthRead, VendorSkipped, FieldRead
<1>2. file.vendor \in Nat
  BY <1>1, OggFileOK DEF OggInv, Inv, OggLayoutOK
<1>3. CASE OggUnreadable
  BY <1>3, PlaceEnded DEF OggUnreadable
<1>4. CASE \/ field = "prefix" /\ Goto("vendor length", U32)
           \/ field = "vendor length" /\ Goto("vendor", file.vendor)
           \/ field = "vendor" /\ Goto("count", U32)
  <2>1. UNCHANGED <<InField, lastSeg, index, entries>>
    BY <1>4 DEF Goto
  <2>2. file' = file /\ Dealt' = Dealt
    BY <1>1, <1>4, <2>1, FileAside DEF Dealt, Goto
  <2>3. ASSUME NEW read \in Int, FieldInv(read) PROVE FieldInv(read)'
    <3>1. index' = 0 /\ entries' = HeldUpTo(file', Dealt')
      BY <1>1, <2>1, <2>2, <2>3 DEF FieldInv
    <3>5. read \in Int /\ read + need = read
      <4>1. read \in Int
        BY <2>3
      <4>2. need = 0
        BY <1>1
      <4>3. read + 0 = read
        BY <4>1
      <4> QED
        BY <4>1, <4>2, <4>3
    <3>2. CASE field = "prefix" /\ field' = "vendor length" /\ need' = U32
      <4>2. read + need = Prefix
        BY <2>3, <3>2 DEF FieldInv
      <4>1. read = Prefix
        BY <3>5, <4>2
      <4> QED
        BY <3>1, <3>2, <4>1 DEF FieldInv, Prefix, U32
    <3>3. CASE field = "vendor length" /\ field' = "vendor" /\ need' = file.vendor
      <4>1. read + need = Prefix + U32
        BY <2>3, <3>3 DEF FieldInv
      <4>2. read + need' = Prefix + U32 + file.vendor
        <5>1. read = Prefix + U32 /\ need' = file.vendor
          BY <3>3, <3>5, <4>1
        <5> QED
          BY <5>1
      <4> QED
        BY <2>2, <3>1, <3>3, <4>2 DEF FieldInv
    <3>4. CASE field = "vendor" /\ field' = "count" /\ need' = U32
      <4>1. read + need = Prefix + U32 + file.vendor
        BY <2>3, <3>4 DEF FieldInv
      <4>2. read + need' = CommentsEnd(file, 0)
        <5>1. read = Prefix + U32 + file.vendor /\ need' = U32
          BY <3>4, <3>5, <4>1
        <5> QED
          BY <1>2, <5>1 DEF Prefix, U32, CommentsEnd
      <4> QED
        BY <2>2, <3>1, <3>4, <4>2 DEF FieldInv
    <3> QED
      BY <1>4, <3>2, <3>3, <3>4 DEF Goto
  <2> QED
    BY <1>1, <1>4, <2>1, <2>3, PlaceField DEF Goto
<1> QED
  BY <1>3, <1>4 DEF PrefixRead, VendorLengthRead, VendorSkipped, FieldRead

LEMMA PlaceNextComment == ASSUME OggInv, PlaceInv, NextComment PROVE PlaceInv'
<1>1. pc = "ogg" /\ need = 0 /\ field \in {"count", "comment", "large comment"}
  BY DEF NextComment, FieldRead
<1>2. CASE OggConclude(ParsedSynth)
  BY <1>2, PlaceEnded
<1>3. CASE /\ index < Count /\ index' = index + 1 /\ field' = "length" /\ need' = U32
           /\ UNCHANGED <<InField, lastSeg, kept, entries>>
  <2>1. /\ Count \in 0..MaxComments /\ index \in 0..MaxComments /\ MaxComments \in Nat
        /\ file.count \in Nat /\ OggLayoutOK(file)
    <3>1. TypeOK /\ index \in 0..MaxComments /\ file.format = "ogg"
      BY <1>1 DEF OggInv, Inv, OggTypeOK
    <3> QED
      BY <1>1, <3>1, CountBounded, OggFileOK, OggAssumption DEF LayoutOK
  <2>2. index + 1 <= file.count
    BY <1>3, <2>1 DEF Count
  <2>3. file' = file /\ Dealt = index /\ Dealt' = index
    <3>1. index' - 1 = index
      BY <1>3, <2>1
    <3> QED
      BY <1>1, <1>3, <3>1, FileAside DEF Dealt
  <2>4. ASSUME NEW read \in Int, FieldInv(read) PROVE FieldInv(read)'
    <3>1. index \in 0..Len(file.comments) /\ read = CommentsEnd(file, index)
          /\ entries = HeldUpTo(file, index)
      <4>4. read \in Int
        BY <2>4
      <4>1. Len(file.comments) \in Nat
            /\ DOMAIN file.comments = 1..Len(file.comments)
        BY <2>1 DEF OggLayoutOK, Commented
      <4>2. CASE field = "count"
        BY <1>1, <2>3, <2>4, <4>1, <4>2 DEF FieldInv
      <4>3. CASE field \in {"comment", "large comment"}
        <5>1. index \in DOMAIN file.comments /\ read + need = CommentsEnd(file, index)
              /\ entries = HeldUpTo(file, index)
          BY <2>3, <2>4, <4>3 DEF FieldInv
        <5>2. index \in 0..Len(file.comments)
          BY <4>1, <5>1
        <5> QED
          <6>1. need = 0
            BY <1>1
          <6>2. read + 0 = read
            BY <4>4
          <6> QED
            BY <5>1, <5>2, <6>1, <6>2
      <4> QED
        BY <1>1, <4>2, <4>3
    <3>2. index' - 1 = index
      BY <1>3, <2>1
    <3> QED
      BY <1>3, <2>1, <2>2, <2>3, <3>1, <3>2 DEF FieldInv
  <2> QED
    BY <1>1, <1>3, <2>4, PlaceField
<1> QED
  BY <1>2, <1>3 DEF NextComment

\* What is kept of a comment is what the layout says.
LEMMA PlaceLengthRead == ASSUME OggInv, PlaceInv, LengthRead PROVE PlaceInv'
<1>1. pc = "ogg" /\ need = 0 /\ field = "length"
  BY DEF LengthRead, FieldRead
<1>2. OggLayoutOK(file) /\ index \in Nat
  <2>1. TypeOK /\ index \in 0..MaxComments /\ file.format = "ogg"
    BY <1>1 DEF OggInv, Inv, OggTypeOK
  <2> QED
    BY <2>1, OggFileOK, OggAssumption
<1>3. CASE OggUnreadable
  BY <1>3, PlaceEnded DEF OggUnreadable
<1>4. ASSUME index \in DOMAIN file.comments, field' \in {"comment", "large comment"},
             need' = file.comments[index].size,
             UNCHANGED <<InField, lastSeg, index>>,
             entries' = entries + IF Keeps(file.comments[index])
                                  THEN U32 + file.comments[index].size ELSE 0
      PROVE  PlaceInv'
  <2>1. /\ file.comments[index].size \in Nat /\ index # 0
        /\ index \in 0..Len(file.comments)
    <3>1. file.comments \in Seq(Comment)
      BY <1>2 DEF OggLayoutOK, Commented
    <3>2. index \in DOMAIN file.comments
      BY <1>4
    <3>3. index \in 1..Len(file.comments)
      BY <3>1, <3>2
    <3> QED
      BY <1>2, <3>2, <3>3, CommentOK
  <2>2. /\ CommentsEnd(file, index) =
               CommentsEnd(file, index - 1) + U32 + file.comments[index].size
        /\ CommentsEnd(file, index - 1) \in Int
    <3>1. index - 1 \in 0..Len(file.comments)
      BY <1>2, <2>1
    <3> QED
      BY <1>2, <2>1, <3>1, CommentsEndOK
  <2>3. file' = file /\ Dealt = index - 1 /\ Dealt' = index
    BY <1>1, <1>4, FileAside DEF Dealt
  <2>4. HeldUpTo(file, index) =
            HeldUpTo(file, index - 1) + IF Keeps(file.comments[index])
                                        THEN U32 + file.comments[index].size ELSE 0
    BY <1>2, <1>4, HeldUpToOK
  <2>5. ASSUME NEW read \in Int, FieldInv(read) PROVE FieldInv(read)'
    <3>1. read + need = CommentsEnd(file, index - 1) + U32
          /\ entries = HeldUpTo(file, index - 1)
      BY <1>1, <2>3, <2>5 DEF FieldInv
    <3>2. read + need' = CommentsEnd(file, index)
      <4> DEFINE size == file.comments[index].size
      <4>1. need' = size /\ size \in Nat
            /\ CommentsEnd(file, index) = CommentsEnd(file, index - 1) + U32 + size
        BY <1>4, <2>1, <2>2
      <4> HIDE DEF size
      <4> QED
        BY <1>1, <2>2, <3>1, <4>1 DEF U32
    <3>3. entries' = HeldUpTo(file, index)
      BY <1>4, <2>4, <3>1
    <3> QED
      BY <1>4, <2>3, <3>2, <3>3 DEF FieldInv
  <2> QED
    BY <1>1, <1>4, <2>5, PlaceField
<1>5. entries \in Nat
  <2>1. entries \in 0..MaxRead
    BY DEF OggInv, OggTypeOK
  <2> QED
    BY <2>1, FileAssumption
<1>6. PICK i \in DOMAIN file.comments :
          /\ i = index
          /\ \/ file.comments[i].size > MaxKeptComment
                /\ Goto("large comment", file.comments[i].size)
             \/ OggUnreadable
             \/ /\ file.comments[i].size <= MaxKeptComment
                /\ field' = "comment" /\ need' = file.comments[i].size
                /\ entries' = IF file.comments[i].picture THEN entries
                              ELSE entries + U32 + file.comments[i].size
                /\ UNCHANGED <<InField, lastSeg, index>>
  BY DEF LengthRead
<1>7. index \in DOMAIN file.comments
  BY <1>6
<1> DEFINE size == file.comments[index].size
<1>8. size \in Nat /\ MaxKeptComment \in Nat
  BY <1>2, <1>7, CommentOK, OggAssumption
<1>9. CASE size > MaxKeptComment /\ Goto("large comment", size)
  <2>1. ~(size <= MaxKeptComment)
    <3>1. size > MaxKeptComment
      BY <1>9
    <3> HIDE DEF size
    <3> QED
      BY <1>8, <3>1
  <2>2. ~Keeps(file.comments[index]) /\ entries' = entries
    BY <1>9, <2>1 DEF Keeps, Goto
  <2>3. entries' = entries + 0
    BY <1>5, <2>2
  <2> QED
    BY <1>4, <1>7, <1>9, <2>2, <2>3 DEF Goto
<1>10. CASE /\ size <= MaxKeptComment /\ field' = "comment" /\ need' = size
            /\ entries' = IF file.comments[index].picture THEN entries
                          ELSE entries + U32 + size
            /\ UNCHANGED <<InField, lastSeg, index>>
  <2>1. CASE file.comments[index].picture
    <3>1. ~Keeps(file.comments[index]) /\ entries' = entries + 0
      BY <1>5, <1>10, <2>1 DEF Keeps
    <3> QED
      BY <1>4, <1>7, <1>10, <3>1
  <2>2. CASE ~file.comments[index].picture
    <3>1. Keeps(file.comments[index]) /\ entries' = entries + U32 + size
      BY <1>10, <2>2 DEF Keeps
    <3>2. entries' = entries + (U32 + size)
      <4> HIDE DEF size
      <4> QED
        BY <1>5, <1>8, <3>1 DEF U32
    <3> QED
      BY <1>4, <1>7, <1>10, <3>1, <3>2
  <2> QED
    BY <2>1, <2>2
<1> QED
  BY <1>3, <1>6, <1>9, <1>10

LEMMA PlaceStep ==
    ASSUME OggInv, PlaceInv, [OggNext]_<<vars, oggVars>> PROVE PlaceInv'
<1>1. CASE Next /\ UNCHANGED oggVars
  BY <1>1, PlaceOther
<1>2. CASE PastPacket
  BY <1>2, PlaceEnded DEF PastPacket, OggUnreadable
<1>3. CASE Ogg
  BY <1>2, <1>3, PlaceOpened, PlaceNextPage, PlaceNextSegment, PlaceReading,
     PlaceStartPacket, PlaceHeadField, PlaceNextComment, PlaceLengthRead DEF Ogg
<1>4. CASE UNCHANGED <<vars, oggVars>>
  <2>1. file' = file /\ UNCHANGED PlaceVars /\ UNCHANGED pc
    BY <1>4 DEF vars, oggVars, PlaceVars, file
  <2> QED
    BY <2>1, PlaceAside DEF PlaceInv
<1> QED
  BY <1>1, <1>3, <1>4 DEF OggNext

LEMMA PlaceInit == OggInit => PlaceInv
<1> SUFFICES ASSUME OggInit, file.format = "ogg"
             PROVE  pc = "open" /\ SegmentInv(0) /\ AtStart(0)
  BY DEF PlaceInv, OggInit, Init
<1>1. /\ pc = "open" /\ pos = 0 /\ lacing = <<>> /\ segLeft = 0 /\ lastSeg = FALSE
      /\ pages = 0 /\ field = "ident" /\ need = 0 /\ index = 0 /\ entries = 0
  BY DEF OggInit, Init
<1>2. ~Begun /\ Dealt = 0
  BY <1>1 DEF Begun, Dealt
<1>3. PacketRead(0) = 1 /\ ReadOf(0) = 0 /\ HeldUpTo(file, 0) = 0
  BY <1>2 DEF PacketRead, ReadOf, PacketAfter, InAfter, HeldUpTo
<1>4. 0 \in 0..Len(file.segments)
  <2>1. TypeOK
    BY InitInv DEF OggInit, Inv
  <2>2. file.segments \in Seq(Segment)
    BY <2>1, OggFileOK DEF OggLayoutOK, Segmented
  <2> QED
    BY <2>2
<1> QED
  BY <1>1, <1>2, <1>3, <1>4 DEF SegmentInv, FieldInv, AtStart

\* As much as is read of the comment packet lies in a segment of it.
LEMMA ReadInSegment ==
    ASSUME OggInv, pc = "ogg", field # "ident", NEW n, SegmentInv(n), ReadOf(n) > 0
    PROVE  \E k \in DOMAIN file.segments :
               /\ file.segments[k].packet = 2
               /\ ReadOf(n) <= file.segments[k].in + file.segments[k].size
<1>1. OggLayoutOK(file) /\ segLeft \in Nat
  <2>1. TypeOK /\ segLeft \in 0..Lace /\ file.format = "ogg"
    BY DEF OggInv, Inv, OggTypeOK
  <2> QED
    BY <2>1, OggFileOK, OggAssumption
<1>2. n \in 0..Len(file.segments) /\ PacketRead(n) = 2 /\ (Begun => n # 0)
  BY DEF SegmentInv
<1>3. n # 0
  BY <1>2 DEF PacketRead, PacketAfter
<1>4. n \in DOMAIN file.segments
  <2>1. file.segments \in Seq(Segment)
    BY <1>1 DEF OggLayoutOK, Segmented
  <2>2. n \in 1..Len(file.segments)
    BY <1>2, <1>3, <2>1
  <2> QED
    BY <2>1, <2>2
<1>5. /\ file.segments[n].in \in Nat /\ file.segments[n].size \in Nat
      /\ file.segments[n].packet \in Nat
  BY <1>1, <1>4, SegmentOK
<1>6. CASE Begun
  <2>1. file.segments[n].packet = 2
        /\ ReadOf(n) = file.segments[n].in + file.segments[n].size - segLeft
    BY <1>2, <1>6 DEF PacketRead, ReadOf
  <2>2. ReadOf(n) <= file.segments[n].in + file.segments[n].size
    BY <1>1, <1>5, <2>1
  <2> QED
    BY <1>4, <2>1, <2>2
<1>7. CASE ~Begun
  <2>1. ReadOf(n) = InAfter(file, n) /\ PacketAfter(file, n) = 2
    BY <1>2, <1>7 DEF PacketRead, ReadOf
  <2>2. ~(file.segments[n].size < Lace)
    BY <1>3, <2>1 DEF InAfter
  <2>3. ReadOf(n) = file.segments[n].in + file.segments[n].size
        /\ file.segments[n].packet + 0 = 2
    BY <1>3, <2>1, <2>2 DEF InAfter, PacketAfter
  <2>4. file.segments[n].packet = 2
        /\ ReadOf(n) <= file.segments[n].in + file.segments[n].size
    BY <1>5, <2>3
  <2> QED
    BY <1>4, <2>4
<1> QED
  BY <1>6, <1>7

\* A length that is read is that of a comment: behind the last one the packet
\* has no room for another, or the count is reached.
LEMMA OnCommentsKept == ASSUME OggInv, PlaceInv PROVE OnComments
<1> SUFFICES ASSUME FieldRead("length") PROVE index \in DOMAIN file.comments
  BY DEF OnComments
<1>1. pc = "ogg" /\ field = "length" /\ need = 0
  BY DEF FieldRead
<1>2. /\ file.format = "ogg" /\ OggLayoutOK(file) /\ index \in Nat
      /\ file.count \in Nat /\ Len(file.comments) \in Nat
      /\ DOMAIN file.comments = 1..Len(file.comments)
  <2>1. TypeOK /\ index \in 0..MaxComments /\ file.format = "ogg"
    BY <1>1 DEF OggInv, Inv, OggTypeOK
  <2>2. LayoutOK(file) /\ OggLayoutOK(file)
    BY <2>1, OggFileOK
  <2> QED
    BY <2>1, <2>2, OggAssumption DEF LayoutOK, OggLayoutOK, Commented
<1>3. PICK n \in Nat : Placement(n)
  BY <1>1, <1>2 DEF PlaceInv
<1>4. /\ index - 1 \in 0..Len(file.comments) /\ index <= file.count
      /\ ReadOf(n) + need = CommentsEnd(file, index - 1) + U32
  BY <1>1, <1>3 DEF Placement, SegmentInv, FieldInv
<1>5. SUFFICES ASSUME index - 1 = Len(file.comments) PROVE FALSE
  BY <1>2, <1>4
<1>6. Len(file.comments) < file.count
  BY <1>2, <1>4, <1>5
<1>7. ReadOf(n) = CommentsEnd(file, Len(file.comments)) + U32 /\ ReadOf(n) > 0
  <2>1. CommentsEnd(file, Len(file.comments)) \in Nat
    BY <1>2, CommentsEndOK
  <2>2. ReadOf(n) \in Int
    BY <1>1, <1>3, ReadIsInt DEF Placement
  <2>3. ReadOf(n) + 0 = CommentsEnd(file, Len(file.comments)) + U32
    BY <1>1, <1>4, <1>5
  <2> QED
    BY <2>1, <2>2, <2>3 DEF U32
<1>8. PICK k \in DOMAIN file.segments :
          /\ file.segments[k].packet = 2
          /\ ReadOf(n) <= file.segments[k].in + file.segments[k].size
  BY <1>1, <1>3, <1>7, ReadInSegment DEF Placement
<1>9. file.segments[k].in + file.segments[k].size
        < CommentsEnd(file, Len(file.comments)) + U32
  BY <1>2, <1>6, <1>8 DEF OggLayoutOK, Commented
<1>10. /\ file.segments[k].in \in Nat /\ file.segments[k].size \in Nat
       /\ CommentsEnd(file, Len(file.comments)) \in Nat
  <2>1. file.segments[k].in \in Nat /\ file.segments[k].size \in Nat
    BY <1>2, SegmentOK
  <2>2. Len(file.comments) \in 0..Len(file.comments)
    BY <1>2
  <2> QED
    BY <1>2, <2>1, <2>2, CommentsEndOK
<1> QED
  BY <1>7, <1>8, <1>9, <1>10 DEF U32

-----------------------------------------------------------------------------
(* The rebuilt stream: what oggSynth lays out, extractOggPackets takes apart. *)

LEMMA Smallest ==
    ASSUME NEW T \in SUBSET Nat, T # {}
    PROVE  \E x \in T : \A y \in T : ~(y < x)
<1> DEFINE R == {ss \in Nat \X Nat : ss[1] < ss[2]}
<1>1. IsWellFoundedOn(R, Nat)
  BY NatLessThanWellFounded DEF OpToRel
<1> HIDE DEF R
<1>2. PICK x \in T : \A y \in T : <<y, x>> \notin R
  BY <1>1, WFMin
<1>3. \A y \in T : y < x => <<y, x>> \in R
  BY DEF R
<1> QED
  BY <1>2, <1>3

LEMMA Division ==
    ASSUME NEW n \in Nat, NEW d \in Nat \ {0}
    PROVE  /\ n \div d \in Nat /\ n % d \in 0..(d - 1)
           /\ (n \div d) * d + (n % d) = n
<1>1. n \div d \in Int /\ n \div d >= 0
  OBVIOUS
<1>2. n % d \in 0..(d - 1)
  OBVIOUS
<1>3. n = (n \div d) * d + (n % d)
  OBVIOUS
<1> QED
  BY <1>1, <1>2, <1>3

LEMMA Multiples ==
    ASSUME NEW n \in Nat, NEW d \in Nat \ {0}, NEW i \in Nat
    PROVE  /\ i * d \in Nat /\ (i + 1) * d = i * d + d
           /\ i * d <= n <=> i <= n \div d
<1> DEFINE q == n \div d
           r == n % d
<1>1. q \in Nat /\ r \in 0..(d - 1) /\ q * d + r = n
  BY Division
<1> HIDE DEF q, r
<1>2. i * d \in Nat /\ (i + 1) * d = i * d + d
  OBVIOUS
<1>3. ASSUME i <= q PROVE i * d <= n
  <2>1. PICK j \in Nat : q = i + j
    <3>1. q - i \in Nat /\ q = i + (q - i)
      BY <1>1, <1>3
    <3> QED
      BY <3>1
  <2>2. q * d = i * d + j * d /\ j * d \in Nat /\ q * d \in Nat
    BY <2>1
  <2> QED
    BY <1>1, <1>2, <2>2
<1>4. ASSUME q < i PROVE n < i * d
  <2>1. PICK j \in Nat : i = q + 1 + j
    <3>1. i - q - 1 \in Nat /\ i = q + 1 + (i - q - 1)
      BY <1>1, <1>4
    <3> QED
      BY <3>1
  <2>2. i * d = q * d + d + j * d /\ j * d \in Nat /\ q * d \in Nat
    BY <1>1, <2>1
  <2> QED
    BY <1>1, <1>2, <2>2
<1> QED
  BY <1>1, <1>2, <1>3, <1>4 DEF q

\* What a recursion over a sequence of tables adds up to.
LEMMA FlattenIs ==
    ASSUME NEW S, NEW seqs \in Seq(S), Len(seqs) > 0, NEW g,
           g = [i \in 1..Len(seqs) |-> IF i = 1 THEN seqs[i] ELSE g[i - 1] \o seqs[i]]
    PROVE  FlattenSeq(seqs) = g[Len(seqs)]
<1> DEFINE Eq(f) ==
               f = [i \in 1..Len(seqs) |-> IF i = 1 THEN seqs[i]
                                           ELSE f[i - 1] \o seqs[i]]
           flat == CHOOSE f : Eq(f)
<1>1. Len(seqs) \in Nat
  OBVIOUS
<1>2. Eq(flat)
  <2>1. Eq(g)
    OBVIOUS
  <2> HIDE DEF Eq
  <2> QED
    BY <2>1
<1>3. FlattenSeq(seqs) = flat[Len(seqs)]
  BY <1>1 DEF FlattenSeq
<1> HIDE DEF flat
<1>4. \A i \in 1..Len(seqs) : flat[i] = g[i]
  <2> DEFINE T == {i \in 1..Len(seqs) : flat[i] # g[i]}
  <2>1. SUFFICES ASSUME T # {} PROVE FALSE
    OBVIOUS
  <2>2. T \in SUBSET Nat
    BY <1>1
  <2>3. PICK x \in T : \A y \in T : ~(y < x)
    BY <2>1, <2>2, Smallest
  <2>4. x \in 1..Len(seqs) /\ flat[x] # g[x]
    OBVIOUS
  <2>5. x # 1
    BY <1>2, <2>4
  <2>6. x - 1 \in 1..Len(seqs) /\ x - 1 < x
    BY <1>1, <2>4, <2>5
  <2>7. flat[x - 1] = g[x - 1]
    BY <2>3, <2>6
  <2>8. flat[x] = flat[x - 1] \o seqs[x] /\ g[x] = g[x - 1] \o seqs[x]
    BY <1>2, <2>4, <2>5
  <2> QED
    BY <2>4, <2>7, <2>8
<1>5. Len(seqs) \in 1..Len(seqs) /\ Len(seqs) # 0
  BY <1>1
<1> QED
  BY <1>3, <1>4, <1>5

LEMMA FunctionIsSeq ==
    ASSUME NEW S, NEW m \in Nat, NEW f \in [1..m -> S]
    PROVE  f \in Seq(S) /\ Len(f) = m /\ DOMAIN f = 1..m
<1>1. f \in Seq(S)
  BY SeqDef, Zenon
<1>2. DOMAIN f = 1..m
  OBVIOUS
<1>3. DOMAIN f = 1..Len(f) /\ Len(f) \in Nat
  BY <1>1, LenProperties
<1> QED
  BY <1>1, <1>2, <1>3

\* The lacing of a packet: full segments and a shorter one that ends it.
LEMMA LacingIs ==
    ASSUME NEW n \in Nat
    PROVE  /\ Lacing(n) \in Seq(0..Lace) /\ Len(Lacing(n)) = n \div Lace + 1
           /\ Len(Lacing(n)) \in Nat \ {0}
           /\ \A i \in 1..Len(Lacing(n)) :
                 /\ i < Len(Lacing(n)) => Lacing(n)[i] = Lace
                 /\ i = Len(Lacing(n)) => Lacing(n)[i] = n % Lace
           /\ n % Lace \in 0..(Lace - 1)
<1> DEFINE m == n \div Lace + 1
           r == n % Lace
<1>1. Lace \in Nat \ {0}
  BY OggAssumption
<1>2. m \in Nat \ {0} /\ r \in 0..(Lace - 1)
  <2>1. n \div Lace \in Nat /\ n % Lace \in 0..(Lace - 1)
    BY <1>1, Division
  <2> QED
    BY <2>1
<1>3. \A i \in 1..m : i * Lace <= n <=> i < m
  <2> TAKE i \in 1..m
  <2>1. i \in Nat /\ n \div Lace \in Nat
    BY <1>1, <1>2, Division
  <2>2. i * Lace <= n <=> i <= n \div Lace
    BY <1>1, <2>1, Multiples
  <2> QED
    BY <2>1, <2>2
<1>4. Lacing(n) = [i \in 1..m |-> IF i * Lace <= n THEN Lace ELSE r]
  BY DEF Lacing
<1> HIDE DEF m, r
<1>5. Lacing(n) = [i \in 1..m |-> IF i < m THEN Lace ELSE r]
  BY <1>3, <1>4
<1>6. Lacing(n) \in [1..m -> 0..Lace]
  BY <1>1, <1>2, <1>5
<1>7. Lacing(n) \in Seq(0..Lace) /\ Len(Lacing(n)) = m
  <2>1. m \in Nat
    BY <1>2
  <2> QED
    BY <1>6, <2>1, FunctionIsSeq
<1> QED
  BY <1>2, <1>5, <1>7 DEF m, r

\* How much of a packet its first i segments hold.
Held(n, i) == IF i < Len(Lacing(n)) THEN i * Lace ELSE n

LEMMA HeldSums ==
    ASSUME NEW n \in Nat, NEW i \in 1..Len(Lacing(n))
    PROVE  Held(n, i) = IF i > 1 THEN Held(n, i - 1) + Lacing(n)[i] ELSE Lacing(n)[i]
<1> DEFINE m == Len(Lacing(n))
           q == n \div Lace
           r == n % Lace
<1>1. Lace \in Nat \ {0} /\ q \in Nat /\ r \in 0..(Lace - 1) /\ q * Lace + r = n
  BY OggAssumption, Division
<1>2. /\ m = q + 1 /\ i \in 1..m
      /\ i < m => Lacing(n)[i] = Lace
      /\ i = m => Lacing(n)[i] = r
  BY LacingIs
<1>3. Held(n, i) = (IF i < m THEN i * Lace ELSE n)
      /\ Held(n, i - 1) = (IF i - 1 < m THEN (i - 1) * Lace ELSE n)
  BY DEF Held
<1> HIDE DEF m, q, r
<1>4. PICK j \in Nat : i = j + 1
  <2>1. i - 1 \in Nat /\ i = (i - 1) + 1
    BY <1>1, <1>2
  <2> QED
    BY <2>1
<1>5. j * Lace \in Nat /\ (j + 1) * Lace = j * Lace + Lace /\ 0 * Lace = 0
  BY <1>1, Multiples
<1>6. i - 1 = j /\ j < m /\ (i > 1 <=> j # 0)
  BY <1>1, <1>2, <1>4
<1>7. CASE i < m
  BY <1>1, <1>2, <1>3, <1>4, <1>5, <1>6, <1>7
<1>8. CASE i = m
  <2>1. j = q
    BY <1>1, <1>2, <1>4, <1>8
  <2>2. Held(n, i) = n /\ Held(n, i - 1) = q * Lace /\ Lacing(n)[i] = r
    BY <1>1, <1>2, <1>3, <1>6, <1>8, <2>1
  <2>3. j = 0 => n = r
    BY <1>1, <1>5, <2>1
  <2> QED
    BY <1>1, <1>6, <2>2, <2>3
<1> QED
  BY <1>1, <1>2, <1>7, <1>8

LEMMA FlattenPair ==
    ASSUME NEW t, NEW u
    PROVE  FlattenSeq(<<t, u>>) = t \o u
<1> DEFINE S == {t, u}
           g == [i \in 1..2 |-> IF i = 1 THEN t ELSE t \o u]
           seqs == <<t, u>>
<1>1. seqs \in Seq(S) /\ Len(seqs) = 2
  OBVIOUS
<1>2. seqs[1] = t /\ seqs[2] = u
  OBVIOUS
<1> HIDE DEF S, seqs
<1>3. g[1] = t /\ g[2] = t \o u
  OBVIOUS
<1>4. \A i \in 1..2 : (i = 1 \/ i = 2) /\ (i = 2 => i - 1 = 1)
  OBVIOUS
<1>5. g = [i \in 1..2 |-> IF i = 1 THEN seqs[i] ELSE g[i - 1] \o seqs[i]]
  BY <1>2, <1>3, <1>4
<1> HIDE DEF g
<1>6. g = [i \in 1..Len(seqs) |-> IF i = 1 THEN seqs[i] ELSE g[i - 1] \o seqs[i]]
  BY <1>1, <1>5
<1>7. FlattenSeq(seqs) = g[Len(seqs)]
  <2>1. Len(seqs) > 0
    BY <1>1
  <2> QED
    BY <1>1, <1>6, <2>1, FlattenIs, Zenon
<1> QED
  BY <1>1, <1>3, <1>7 DEF seqs

\* The pages of a rebuilt stream hold its segments, one page after the other.
LEMMA SynthIs ==
    ASSUME NEW a \in Nat, NEW b \in Nat
    PROVE  FlattenSeq(OggSynth(<<a, b>>)) = Lacing(a) \o Lacing(b)
<1> DEFINE S == 0..Lace
           T == Lacing(a) \o Lacing(b)
           n == Len(T)
           P == PageSegments
           count == (n + P - 1) \div P
           last(i) == IF i = count THEN n ELSE i * P
           page == [i \in 1..count |-> SubSeq(T, (i - 1) * P + 1, last(i))]
           g == [i \in 1..count |-> SubSeq(T, 1, last(i))]
<1>1. T \in Seq(S) /\ n \in Nat /\ n >= 1 /\ P \in Nat \ {0}
  <2>1. Lacing(a) \in Seq(S) /\ Lacing(b) \in Seq(S) /\ Len(Lacing(a)) \in Nat \ {0}
        /\ Len(Lacing(b)) \in Nat \ {0}
    BY LacingIs
  <2>2. T \in Seq(S) /\ n = Len(Lacing(a)) + Len(Lacing(b))
    BY <2>1, ConcatProperties
  <2>3. PageSegments \in Nat \ {0}
    BY OggAssumption
  <2> QED
    BY <2>1, <2>2, <2>3
<1>2. OggSynth(<<a, b>>) = page
  <2>1. [i \in DOMAIN <<a, b>> |-> Lacing(<<a, b>>[i])] = <<Lacing(a), Lacing(b)>>
    OBVIOUS
  <2>2. FlattenSeq([i \in DOMAIN <<a, b>> |-> Lacing(<<a, b>>[i])]) = T
    BY <2>1, FlattenPair
  <2> QED
    BY <2>2 DEF OggSynth
<1> HIDE DEF T, n, P, S
<1>3. /\ count \in Nat /\ count >= 1
      /\ \A i \in 1..count : /\ (i - 1) * P \in Nat /\ last(i) \in Nat
                             /\ (i - 1) * P <= last(i) /\ last(i) <= n
                             /\ i < count => last(i) = i * P
  <2>1. n + P - 1 \in Nat
    BY <1>1
  <2>2. count \in Nat
    BY <1>1, <2>1, Division
  <2>3. ASSUME NEW i \in Nat
        PROVE  i * P \in Nat /\ (i + 1) * P = i * P + P
               /\ (i * P <= n + P - 1 <=> i <= count)
    BY <1>1, <2>1, Multiples
  <2>4. 1 * P = P /\ 0 * P = 0
    BY <1>1
  <2>5. count >= 1
    BY <1>1, <2>2, <2>3, <2>4
  <2>6. ASSUME NEW i \in 1..count
        PROVE  /\ (i - 1) * P \in Nat /\ i * P \in Nat /\ i * P = (i - 1) * P + P
               /\ (i - 1) * P < n /\ (i < count => i * P < n)
    <3>1. PICK j \in Nat : i = j + 1
      <4>1. i - 1 \in Nat /\ i = (i - 1) + 1
        BY <2>2
      <4> QED
        BY <4>1
    <3>2. j * P \in Nat /\ i * P = j * P + P /\ i - 1 = j /\ i * P \in Nat
      BY <1>1, <2>3, <3>1
    <3>3. i * P <= n + P - 1
      BY <2>2, <2>3
    <3>4. j * P < n
      BY <1>1, <3>2, <3>3
    <3>5. ASSUME i < count PROVE i * P < n
      <4>1. i + 1 \in Nat /\ i + 1 <= count
        BY <2>2, <3>5
      <4>2. (i + 1) * P <= n + P - 1 /\ (i + 1) * P = i * P + P
        BY <2>3, <4>1
      <4> QED
        BY <1>1, <3>2, <4>2
    <3> QED
      BY <3>2, <3>4, <3>5
  <2> HIDE DEF count
  <2>7. ASSUME NEW i \in 1..count
        PROVE  /\ (i - 1) * P \in Nat /\ last(i) \in Nat
               /\ (i - 1) * P <= last(i) /\ last(i) <= n
               /\ i < count => last(i) = i * P
    <3>1. i \in Nat /\ i <= count
      BY <2>2
    <3> QED
      BY <1>1, <2>2, <2>6, <3>1
  <2> QED
    BY <2>2, <2>5, <2>7
<1> HIDE DEF count, last
<1>4. \A k \in DOMAIN T : T[k] \in S
  BY <1>1
<1>5. DOMAIN T = 1..n
  BY <1>1 DEF n
<1>6. \A i \in 1..count : page[i] \in Seq(S)
  <2> SUFFICES ASSUME NEW i \in 1..count PROVE page[i] \in Seq(S)
    OBVIOUS
  <2>1. page[i] = SubSeq(T, (i - 1) * P + 1, last(i))
    OBVIOUS
  <2>2. (i - 1) * P + 1 \in Int /\ last(i) \in Int /\ (i - 1) * P + 1 >= 1 /\ last(i) <= n
    BY <1>3
  <2>3. \A k \in ((i - 1) * P + 1)..last(i) : T[k] \in S
    BY <1>1, <1>4, <1>5, <2>2
  <2> QED
    BY <2>1, <2>2, <2>3, SubSeqProperties
<1>7. page \in Seq(Seq(S)) /\ Len(page) = count
  <2>1. page \in [1..count -> Seq(S)]
    BY <1>6
  <2> HIDE DEF page
  <2> QED
    BY <1>3, <2>1, FunctionIsSeq
<1>8. g = [i \in 1..count |-> IF i = 1 THEN page[i] ELSE g[i - 1] \o page[i]]
  <2> SUFFICES ASSUME NEW i \in 1..count
               PROVE  SubSeq(T, 1, last(i))
                        = IF i = 1 THEN page[i] ELSE g[i - 1] \o page[i]
    OBVIOUS
  <2>1. page[i] = SubSeq(T, (i - 1) * P + 1, last(i))
    OBVIOUS
  <2>2. CASE i = 1
    <3>1. (i - 1) * P + 1 = 1
      BY <1>1, <2>2
    <3> QED
      BY <2>1, <2>2, <3>1
  <2>3. CASE i # 1
    <3>1. i - 1 \in 1..count /\ i - 1 < count
      BY <1>3, <2>3
    <3>2. g[i - 1] = SubSeq(T, 1, (i - 1) * P)
      BY <1>3, <3>1
    <3>3. /\ 1 \in 1..(Len(T) + 1) /\ (i - 1) * P \in (1 - 1)..Len(T)
          /\ last(i) \in ((i - 1) * P)..Len(T)
      <4> DEFINE w == (i - 1) * P
      <4>1. w \in Nat /\ last(i) \in Nat /\ w <= last(i) /\ last(i) <= n
        BY <1>3
      <4>2. n = Len(T) /\ n \in Nat
        BY <1>1 DEF n
      <4> HIDE DEF w
      <4>3. 1 \in 1..(Len(T) + 1) /\ w \in (1 - 1)..Len(T) /\ last(i) \in w..Len(T)
        BY <4>1, <4>2
      <4> QED
        BY <4>3 DEF w
    <3>4. SubSeq(T, 1, (i - 1) * P) \o SubSeq(T, (i - 1) * P + 1, last(i))
            = SubSeq(T, 1, last(i))
      BY <1>1, <3>3, ConcatAdjacentSubSeq
    <3> QED
      BY <2>1, <2>3, <3>2, <3>4
  <2> QED
    BY <2>2, <2>3
<1>9. g[count] = T
  <2>1. g[count] = SubSeq(T, 1, last(count))
    BY <1>3
  <2>2. last(count) = Len(T)
    BY DEF last, n
  <2> QED
    BY <1>1, <2>1, <2>2, SubSeqFull
<1> HIDE DEF g, page
<1>10. FlattenSeq(page) = g[Len(page)]
  <2>1. Len(page) > 0
    BY <1>3, <1>7
  <2>2. g = [i \in 1..Len(page) |-> IF i = 1 THEN page[i] ELSE g[i - 1] \o page[i]]
    BY <1>7, <1>8
  <2> QED
    BY <1>7, <2>1, <2>2, FlattenIs, Zenon
<1> QED
  BY <1>2, <1>7, <1>9, <1>10 DEF T

\* What is laid out as an Ogg stream is taken apart again as it was, whatever the
\* lengths of its two packets, multiples of Lace among them.
THEOREM RoundTrip ==
    ASSUME NEW a \in Nat, NEW b \in Nat
    PROVE  ExtractOggPackets(OggSynth(<<a, b>>), 2) = <<a, b>>
<1> DEFINE S == 0..Lace
           t == Lacing(a)
           u == Lacing(b)
           T == FlattenSeq(OggSynth(<<a, b>>))
           m == Len(t)
           n == Len(u)
           ends == {i \in DOMAIN T : T[i] < Lace}
           Length(f) ==
               f = [i \in DOMAIN T |->
                       IF i > 1 /\ T[i - 1] = Lace THEN f[i - 1] + T[i] ELSE T[i]]
           length == CHOOSE f : Length(f)
           h == [i \in DOMAIN T |-> IF i <= m THEN Held(a, i) ELSE Held(b, i - m)]
           End(k) == CHOOSE i \in ends : Cardinality({j \in ends : j <= i}) = k
<1>0. T = t \o u
  BY SynthIs
<1>1. /\ T \in Seq(S) /\ m \in Nat \ {0} /\ n \in Nat \ {0} /\ Len(T) = m + n
      /\ \A i \in 1..m : T[i] = t[i]
      /\ \A i \in (m + 1)..(m + n) : T[i] = u[i - m]
  <2>1. t \in Seq(S) /\ u \in Seq(S) /\ m \in Nat \ {0} /\ n \in Nat \ {0}
    BY LacingIs
  <2> HIDE DEF T, t, u, S
  <2>2. T \in Seq(S) /\ Len(T) = m + n
    BY <1>0, <2>1, ConcatProperties
  <2>3. \A i \in 1..(m + n) : T[i] = IF i <= m THEN t[i] ELSE u[i - m]
    BY <1>0, <2>1, ConcatProperties
  <2> QED
    BY <2>1, <2>2, <2>3
<1>2. Lace \in Nat \ {0}
  BY OggAssumption
<1>3. DOMAIN T = 1..(m + n)
  BY <1>1
<1>4. /\ \A i \in 1..m : i < m => t[i] = Lace
      /\ \A i \in 1..n : i < n => u[i] = Lace
      /\ t[m] \in 0..(Lace - 1) /\ u[n] \in 0..(Lace - 1)
  <2>1. m \in 1..m /\ n \in 1..n
    BY <1>1
  <2> QED
    BY <2>1, LacingIs
<1>5. /\ \A i \in 1..m : Held(a, i) = IF i > 1 THEN Held(a, i - 1) + t[i] ELSE t[i]
      /\ \A i \in 1..n : Held(b, i) = IF i > 1 THEN Held(b, i - 1) + u[i] ELSE u[i]
  BY HeldSums
<1>6. Held(a, m) = a /\ Held(b, n) = b
  BY <1>1 DEF Held
<1>7. ExtractOggPackets(OggSynth(<<a, b>>), 2)
        = [k \in 1..(IF Cardinality(ends) < 2 THEN Cardinality(ends) ELSE 2) |->
              length[End(k)]]
  BY Zenon DEF ExtractOggPackets
<1> HIDE DEF T, t, u, m, n, S
<1>8. Length(h)
  <2> SUFFICES ASSUME NEW i \in DOMAIN T
               PROVE  h[i] = IF i > 1 /\ T[i - 1] = Lace THEN h[i - 1] + T[i] ELSE T[i]
    OBVIOUS
  <2>1. i \in 1..(m + n)
    BY <1>3
  <2>2. CASE i \in 2..m
    <3>1. i \in 1..m /\ i - 1 \in 1..m /\ i - 1 < m /\ i > 1 /\ i - 1 \in 1..(m + n)
      BY <1>1, <2>2
    <3>2. T[i - 1] = Lace /\ T[i] = t[i]
      BY <1>1, <1>4, <3>1
    <3>3. h[i] = Held(a, i) /\ h[i - 1] = Held(a, i - 1)
      BY <1>1, <1>3, <2>1, <3>1
    <3> QED
      BY <1>5, <3>1, <3>2, <3>3
  <2>3. CASE i = 1
    <3>1. i \in 1..m /\ ~(i > 1)
      BY <1>1, <2>3
    <3>2. T[i] = t[i] /\ h[i] = Held(a, i)
      BY <1>1, <1>3, <2>1, <3>1
    <3> QED
      BY <1>5, <3>1, <3>2
  <2>4. CASE i = m + 1
    <3>1. /\ ~(i <= m) /\ i - m = 1 /\ 1 \in 1..n /\ ~(1 > 1) /\ i - 1 = m
          /\ m \in 1..m /\ i \in (m + 1)..(m + n)
      BY <1>1, <2>4
    <3>2. T[i - 1] = t[m] /\ T[i] = u[1] /\ h[i] = Held(b, 1)
      BY <1>1, <1>3, <2>1, <3>1
    <3>3. T[i - 1] # Lace
      BY <1>2, <1>4, <3>2
    <3> QED
      BY <1>5, <3>1, <3>2, <3>3
  <2>5. CASE i \in (m + 2)..(m + n)
    <3> DEFINE j == i - m
    <3>1. /\ ~(i <= m) /\ ~(i - 1 <= m) /\ j \in 1..n /\ j - 1 \in 1..n /\ j - 1 < n
          /\ j > 1 /\ i > 1 /\ i - 1 - m = j - 1 /\ i \in (m + 1)..(m + n)
          /\ i - 1 \in (m + 1)..(m + n) /\ i - 1 \in 1..(m + n)
      BY <1>1, <2>5
    <3>2. T[i - 1] = u[j - 1] /\ T[i] = u[j]
      BY <1>1, <3>1
    <3>3. h[i] = Held(b, j) /\ h[i - 1] = Held(b, j - 1)
      BY <1>3, <2>1, <3>1
    <3>4. u[j - 1] = Lace
      BY <1>4, <3>1
    <3> QED
      BY <1>5, <3>1, <3>2, <3>3, <3>4
  <2> QED
    BY <1>1, <2>1, <2>2, <2>3, <2>4, <2>5
<1>9. Length(length)
  <2> HIDE DEF Length, h
  <2> QED
    BY <1>8
<1> HIDE DEF length
<1>10. \A i \in 1..(m + n) : length[i] = h[i]
  <2> DEFINE D == {i \in 1..(m + n) : length[i] # h[i]}
  <2>1. SUFFICES ASSUME D # {} PROVE FALSE
    OBVIOUS
  <2>2. D \in SUBSET Nat
    BY <1>1
  <2>3. PICK x \in D : \A y \in D : ~(y < x)
    BY <2>1, <2>2, Smallest
  <2>4. x \in 1..(m + n) /\ length[x] # h[x]
    OBVIOUS
  <2> HIDE DEF h
  <2>5. x > 1
    <3>1. length[x] = (IF x > 1 /\ T[x - 1] = Lace THEN length[x - 1] + T[x] ELSE T[x])
      BY <1>3, <1>9, <2>4
    <3>2. h[x] = (IF x > 1 /\ T[x - 1] = Lace THEN h[x - 1] + T[x] ELSE T[x])
      BY <1>3, <1>8, <2>4
    <3> QED
      BY <2>4, <3>1, <3>2
  <2>6. x - 1 \in 1..(m + n) /\ x - 1 < x
    BY <1>1, <2>4, <2>5
  <2>7. length[x - 1] = h[x - 1]
    BY <2>3, <2>6
  <2>8. length[x] = (IF x > 1 /\ T[x - 1] = Lace THEN length[x - 1] + T[x] ELSE T[x])
    BY <1>3, <1>9, <2>4
  <2>9. h[x] = (IF x > 1 /\ T[x - 1] = Lace THEN h[x - 1] + T[x] ELSE T[x])
    BY <1>3, <1>8, <2>4
  <2> QED
    BY <2>4, <2>7, <2>8, <2>9
<1>11. length[m] = a /\ length[m + n] = b
  <2> DEFINE j == m + n
  <2>1. m \in DOMAIN T /\ j \in DOMAIN T /\ m <= m /\ ~(j <= m) /\ j - m = n
    BY <1>1, <1>3
  <2> HIDE DEF j
  <2>2. h[m] = Held(a, m)
    BY <2>1
  <2>3. h[j] = Held(b, j - m)
    BY <2>1
  <2>4. h[j] = Held(b, n)
    BY <2>1, <2>3
  <2> HIDE DEF h
  <2> QED
    BY <1>3, <1>6, <1>10, <2>1, <2>2, <2>4 DEF j
<1> HIDE DEF h
<1>12. ends = {m, m + n}
  <2>1. \A i \in 1..(m + n) : T[i] < Lace <=> i \in {m, m + n}
    <3> TAKE i \in 1..(m + n)
    <3>1. CASE i \in 1..m
      <4>1. T[i] = t[i] /\ i # m + n /\ (i # m => i < m)
        BY <1>1, <3>1
      <4> QED
        BY <1>2, <1>4, <3>1, <4>1
    <3>2. CASE i \in (m + 1)..(m + n)
      <4>1. T[i] = u[i - m] /\ i - m \in 1..n /\ i # m /\ (i # m + n => i - m < n)
            /\ (i = m + n => i - m = n)
        BY <1>1, <3>2
      <4> QED
        BY <1>2, <1>4, <4>1
    <3> QED
      BY <1>1, <3>1, <3>2
  <2>2. m \in 1..(m + n) /\ m + n \in 1..(m + n)
    BY <1>1
  <2> QED
    BY <1>3, <2>1, <2>2
<1> HIDE DEF ends
<1>13. Cardinality(ends) = 2 /\ Cardinality({m}) = 1
  <2>1. m # m + n
    BY <1>1
  <2>2. IsFiniteSet({m}) /\ Cardinality({m}) = 1
    BY FS_Singleton
  <2>3. IsFiniteSet({m} \cup {m + n}) /\ Cardinality({m} \cup {m + n}) = 2
    BY <2>1, <2>2, FS_AddElement
  <2>4. ends = {m} \cup {m + n}
    BY <1>12
  <2> QED
    BY <2>2, <2>3, <2>4
<1>14. End(1) = m /\ End(2) = m + n
  <2>1. {j \in ends : j <= m} = {m}
    BY <1>1, <1>12
  <2>2. {j \in ends : j <= m + n} = ends
    BY <1>1, <1>12
  <2>3. \A i \in ends : /\ Cardinality({j \in ends : j <= i}) = 1 <=> i = m
                        /\ Cardinality({j \in ends : j <= i}) = 2 <=> i = m + n
    <3>1. m # m + n
      BY <1>1
    <3>2. \A i \in ends : i = m \/ i = m + n
      BY <1>12
    <3> QED
      BY <1>13, <2>1, <2>2, <3>1, <3>2
  <2>4. m \in ends /\ m + n \in ends
    BY <1>12
  <2> QED
    BY <2>3, <2>4
<1> HIDE DEF End
<1>15. ExtractOggPackets(OggSynth(<<a, b>>), 2) = [k \in 1..2 |-> length[End(k)]]
  BY <1>7, <1>13
<1>16. \A k \in 1..2 : length[End(k)] = <<a, b>>[k]
  <2> TAKE k \in 1..2
  <2>1. k = 1 \/ k = 2
    OBVIOUS
  <2> QED
    BY <1>11, <1>14, <2>1
<1> QED
  BY <1>15, <1>16

-----------------------------------------------------------------------------
(* A sound Ogg file that was complete when it was opened is read.          *)

\* Packets come one after the other.
LEMMA PacketsGrow ==
    ASSUME OggLayoutOK(file), NEW n \in 0..Len(file.segments), NEW k \in 0..n
    PROVE  /\ PacketAfter(file, k) \in Nat /\ PacketAfter(file, n) \in Nat
           /\ PacketAfter(file, k) <= PacketAfter(file, n)
<1>1. file.segments \in Seq(Segment) /\ Len(file.segments) \in Nat
      /\ DOMAIN file.segments = 1..Len(file.segments)
  BY DEF OggLayoutOK, Segmented
<1>2. \A m \in 0..Len(file.segments) : PacketAfter(file, m) \in Nat
  <2> TAKE m \in 0..Len(file.segments)
  <2>1. CASE m = 0
    BY <2>1 DEF PacketAfter
  <2>2. CASE m # 0
    <3>1. m \in DOMAIN file.segments
      BY <1>1, <2>2
    <3>2. file.segments[m].packet \in Nat
      BY <3>1, SegmentOK
    <3> QED
      BY <2>2, <3>2 DEF PacketAfter
  <2> QED
    BY <2>1, <2>2
<1>3. \A m \in 1..Len(file.segments) : PacketAfter(file, m - 1) <= PacketAfter(file, m)
  <2> TAKE m \in 1..Len(file.segments)
  <2>1. m \in DOMAIN file.segments /\ m # 0
    BY <1>1
  <2>2. file.segments[m].packet = PacketAfter(file, m - 1)
        /\ file.segments[m].packet \in Nat
    BY <2>1, SegmentOK
  <2> QED
    BY <2>1, <2>2 DEF PacketAfter
<1> DEFINE D == {m \in k..n : ~(PacketAfter(file, k) <= PacketAfter(file, m))}
<1>4. D = {}
  <2> SUFFICES ASSUME D # {} PROVE FALSE
    OBVIOUS
  <2>1. D \in SUBSET Nat
    BY <1>1
  <2>2. PICK m \in D : \A y \in D : ~(y < m)
    BY <2>1, Smallest
  <2>3. m \in k..n /\ ~(PacketAfter(file, k) <= PacketAfter(file, m))
    OBVIOUS
  <2>4. k \in 0..Len(file.segments) /\ m \in 0..Len(file.segments)
    BY <1>1, <2>3
  <2>5. m # k
    BY <1>2, <2>3, <2>4
  <2>6. m - 1 \in k..n /\ m - 1 < m /\ m \in 1..Len(file.segments)
        /\ m - 1 \in 0..Len(file.segments)
    BY <1>1, <2>3, <2>5
  <2>7. PacketAfter(file, k) <= PacketAfter(file, m - 1)
    BY <2>2, <2>6
  <2> HIDE DEF D
  <2>8. PacketAfter(file, m - 1) <= PacketAfter(file, m)
    BY <1>3, <2>6
  <2>9. PacketAfter(file, k) \in Nat /\ PacketAfter(file, m) \in Nat
        /\ PacketAfter(file, m - 1) \in Nat
    BY <1>2, <2>4, <2>6
  <2> QED
    BY <2>3, <2>7, <2>8, <2>9
<1>5. n \in k..n /\ k \in 0..Len(file.segments)
  BY <1>1
<1> QED
  BY <1>2, <1>4, <1>5

\* The segments of the first two packets are those up to the last one.
LEMMA UpToLast ==
    ASSUME OggLayoutOK(file), NEW last \in DOMAIN file.segments,
           HeadersIntact(file, last), NEW n \in 0..Len(file.segments)
    PROVE  /\ PacketAfter(file, n) <= 2 => n < last
           /\ n # 0 /\ file.segments[n].packet <= 2 => n <= last
           /\ n # 0 /\ file.segments[n].packet = 2 /\ file.segments[n].size < Lace =>
                  n = last
<1>1. last \in 1..Len(file.segments) /\ Len(file.segments) \in Nat
  BY SegmentOK
<1>2. PacketAfter(file, last) = 3
  <2>1. file.segments[last].packet = 2 /\ file.segments[last].size < Lace /\ last # 0
    BY <1>1 DEF HeadersIntact
  <2> QED
    BY <2>1 DEF PacketAfter
<1>3. ASSUME NEW m \in 0..Len(file.segments), PacketAfter(file, m) <= 2 PROVE m < last
  <2>1. last \in 0..Len(file.segments)
    BY <1>1
  <2>2. CASE last <= m
    <3>1. last \in 0..m
      BY <1>1, <2>2
    <3>2. PacketAfter(file, last) <= PacketAfter(file, m)
          /\ PacketAfter(file, m) \in Nat
      BY <3>1, PacketsGrow
    <3> QED
      BY <1>2, <1>3, <3>2
  <2> QED
    BY <1>1, <2>2
<1>4. ASSUME n # 0, file.segments[n].packet <= 2 PROVE n <= last
  <2>1. n \in 1..Len(file.segments) /\ n \in DOMAIN file.segments
    BY <1>1, <1>4 DEF OggLayoutOK, Segmented
  <2>2. PacketAfter(file, n - 1) <= 2
    BY <1>4, <2>1, SegmentOK
  <2>3. n - 1 \in 0..Len(file.segments)
    BY <1>1, <2>1
  <2>4. n - 1 < last
    BY <1>3, <2>2, <2>3
  <2> QED
    BY <1>1, <2>1, <2>4
<1>5. ASSUME n # 0, file.segments[n].packet = 2, file.segments[n].size < Lace
      PROVE  n = last
  <2>1. n <= last
    BY <1>4, <1>5
  <2>2. CASE n < last
    <3>1. n \in 0..(last - 1) /\ last - 1 \in 0..Len(file.segments)
      BY <1>1, <2>2
    <3>2. PacketAfter(file, n) <= PacketAfter(file, last - 1)
      BY <3>1, PacketsGrow
    <3>3. PacketAfter(file, n) = 3
      BY <1>5 DEF PacketAfter
    <3>4. PacketAfter(file, last - 1) = 2
      BY SegmentOK DEF HeadersIntact
    <3> QED
      BY <3>2, <3>3, <3>4
  <2> QED
    BY <1>1, <2>1, <2>2
<1> QED
  BY <1>3, <1>4, <1>5

\* The file is a sound Ogg file and was complete when it was opened.
GoodOgg == whole /\ name \in Sound /\ file.format = "ogg"

OggSoundInv ==
    GoodOgg =>
        /\ reading # "FileUnreadable"
        /\ pc \in {"open", "ogg", "done"}
        /\ pc = "open" => reader = "ogg"

LEMMA GoodOggFacts ==
    ASSUME OggInv, GoodOgg
    PROVE  /\ OggIntact(file) /\ LayoutOK(file) /\ OggLayoutOK(file)
           /\ written = file.size /\ file.size \in Nat
           /\ pos \in Nat /\ segLeft \in Nat /\ need \in Nat /\ index \in Nat
           /\ pages \in Nat /\ entries \in Nat /\ Lace \in Nat
           /\ MaxIdent \in Nat /\ MaxPages \in Nat /\ MaxRead \in Nat
           /\ file.comments \in Seq(Comment) /\ Len(file.comments) \in Nat
           /\ DOMAIN file.comments = 1..Len(file.comments)
           /\ file.segments \in Seq(Segment) /\ Len(file.segments) \in Nat
           /\ DOMAIN file.segments = 1..Len(file.segments)
<1>1. TypeOK /\ LayoutOK(file) /\ OggLayoutOK(file)
  BY FileOK, OggFileOK DEF OggInv, Inv, GoodOgg
<1>2. OggIntact(file)
  BY SoundOggAssumption DEF GoodOgg, file
<1>3. written = file.size /\ file.size \in Nat /\ pos \in Nat
  BY <1>1 DEF GoodOgg, OggInv, Inv, WalkInv, TypeOK, LayoutOK
<1>4. /\ segLeft \in 0..Lace /\ need \in Nat /\ index \in 0..MaxComments
      /\ pages \in 0..MaxPages /\ entries \in 0..MaxRead
  BY DEF OggInv, OggTypeOK
<1>5. {Lace, MaxIdent, MaxPages, MaxComments, MaxRead} \subseteq Nat
  BY OggAssumption, FileAssumption
<1>6. file.comments \in Seq(Comment) /\ file.segments \in Seq(Segment)
  BY <1>1 DEF OggLayoutOK, Commented, Segmented
<1>7. /\ Len(file.comments) \in Nat /\ DOMAIN file.comments = 1..Len(file.comments)
      /\ Len(file.segments) \in Nat /\ DOMAIN file.segments = 1..Len(file.segments)
  BY <1>6
<1> QED
  BY <1>1, <1>2, <1>3, <1>4, <1>5, <1>6, <1>7

\* Between segments there is a further one; in one, it is on disk; at the end of
\* the comment packet, it is the last one.
LEMMA InHeaders ==
    ASSUME OggInv, GoodOgg, NEW last \in DOMAIN file.segments,
           HeadersIntact(file, last), NEW n, SegmentInv(n)
    PROVE  /\ ~Begun => n < last
           /\ Begun => /\ n \in 1..last /\ n \in DOMAIN file.segments
                       /\ file.segments[n].packet = IF field = "ident" THEN 1 ELSE 2
                       /\ file.segments[n].at + file.segments[n].size <= file.size
           /\ lastSeg /\ field # "ident" => n = last
<1>1. n \in 0..Len(file.segments) /\ PacketRead(n) = (IF field = "ident" THEN 1 ELSE 2)
      /\ (Begun => n > 0 /\ (lastSeg <=> file.segments[n].size < Lace))
  BY DEF SegmentInv
<1>2. OggLayoutOK(file) /\ Len(file.segments) \in Nat
      /\ DOMAIN file.segments = 1..Len(file.segments)
  BY GoodOggFacts
<1>3. CASE ~Begun
  <2>1. PacketAfter(file, n) <= 2
    BY <1>1, <1>3 DEF PacketRead
  <2> QED
    BY <1>1, <1>2, <1>3, <2>1, UpToLast DEF Begun
<1>4. CASE Begun
  <2>1. n # 0 /\ n \in 1..Len(file.segments)
    BY <1>1, <1>2, <1>4
  <2>2. file.segments[n].packet = IF field = "ident" THEN 1 ELSE 2
    BY <1>1, <1>4 DEF PacketRead
  <2>3. n <= last
    BY <1>1, <1>2, <2>1, <2>2, UpToLast
  <2>4. n \in 1..last
    BY <1>2, <2>1, <2>3
  <2>5. file.segments[n].at + file.segments[n].size <= file.size
    BY <2>4 DEF HeadersIntact
  <2>6. lastSeg /\ field # "ident" => n = last
    BY <1>1, <1>2, <1>4, <2>1, <2>2, UpToLast
  <2> QED
    BY <1>2, <1>4, <2>1, <2>2, <2>4, <2>5, <2>6
<1> QED
  BY <1>3, <1>4

\* A field ends within its packet.
LEMMA FieldWithin ==
    ASSUME OggInv, GoodOgg, pc = "ogg", field # "ident",
           NEW last \in DOMAIN file.segments, HeadersIntact(file, last),
           NEW n \in Nat, SegmentInv(n)
    PROVE  ReadOf(n) + need <= file.segments[last].in + file.segments[last].size
<1> DEFINE end == file.segments[last].in + file.segments[last].size
<1>1. \A i \in 0..Len(file.comments) : CommentsEnd(file, i) <= end
  BY DEF HeadersIntact
<1>2. end \in Nat
  <2>1. file.segments[last].in \in Nat /\ file.segments[last].size \in Nat
    BY GoodOggFacts, SegmentOK
  <2> QED
    BY <2>1
<1>3. \A i \in 0..Len(file.comments) : CommentsEnd(file, i) \in Nat
  BY GoodOggFacts, CommentsEndOK
<1>4. ReadOf(n) \in Int /\ FieldInv(ReadOf(n))
  BY ReadIsInt DEF SegmentInv
<1>5. /\ file.vendor \in Nat /\ CommentsEnd(file, 0) = Prefix + 2 * U32 + file.vendor
      /\ Len(file.comments) \in Nat /\ DOMAIN file.comments = 1..Len(file.comments)
      /\ file.count = Len(file.comments) /\ need \in Nat /\ index \in Nat
      /\ field \in OggFields
  BY GoodOggFacts DEF OggLayoutOK, CommentsEnd, OggIntact, OggInv, OggTypeOK, OggFields
<1> HIDE DEF end
<1> DEFINE to == ReadOf(n) + need
<1>6. CASE field \in {"prefix", "vendor length", "vendor", "count"}
  <2>1. to <= CommentsEnd(file, 0)
    <3>1. CASE field = "prefix"
      <4>1. to = Prefix
        BY <1>4, <3>1 DEF FieldInv
      <4> HIDE DEF to
      <4> QED
        BY <1>5, <4>1 DEF Prefix, U32
    <3>2. CASE field = "vendor length"
      <4>1. to = Prefix + U32
        BY <1>4, <3>2 DEF FieldInv
      <4> HIDE DEF to
      <4> QED
        BY <1>5, <4>1 DEF Prefix, U32
    <3>3. CASE field = "vendor"
      <4>1. to = Prefix + U32 + file.vendor
        BY <1>4, <3>3 DEF FieldInv
      <4> HIDE DEF to
      <4> QED
        BY <1>5, <4>1 DEF Prefix, U32
    <3>4. CASE field = "count"
      <4>1. to = CommentsEnd(file, 0)
        BY <1>4, <3>4 DEF FieldInv
      <4> HIDE DEF to
      <4> QED
        BY <1>5, <4>1 DEF Prefix, U32
    <3> QED
      BY <1>6, <3>1, <3>2, <3>3, <3>4
  <2>2. 0 \in 0..Len(file.comments)
    BY <1>5
  <2>3. CommentsEnd(file, 0) <= end /\ CommentsEnd(file, 0) \in Nat /\ to \in Int
    BY <1>1, <1>3, <1>4, <1>5, <2>2
  <2> HIDE DEF to
  <2>4. to <= end
    BY <1>2, <2>1, <2>3
  <2> QED
    BY <2>4 DEF to, end
<1>7. CASE field = "length"
  <2>1. /\ index - 1 \in 0..Len(file.comments) /\ index <= Len(file.comments)
        /\ to = CommentsEnd(file, index - 1) + U32
    BY <1>4, <1>5, <1>7 DEF FieldInv
  <2>2. index \in 0..Len(file.comments) /\ index # 0
    BY <1>5, <2>1
  <2>3. CommentsEnd(file, index - 1) + U32 <= CommentsEnd(file, index)
    BY <2>2, GoodOggFacts, CommentsEndOK
  <2>4. CommentsEnd(file, index) <= end /\ CommentsEnd(file, index) \in Nat
        /\ CommentsEnd(file, index - 1) \in Nat
    BY <1>1, <1>3, <2>1, <2>2
  <2> HIDE DEF to
  <2>5. to <= end
    BY <1>2, <2>1, <2>3, <2>4 DEF U32
  <2> QED
    BY <2>5 DEF to, end
<1>8. CASE field \in {"comment", "large comment"}
  <2>3. index \in DOMAIN file.comments /\ to = CommentsEnd(file, index)
    BY <1>4, <1>8 DEF FieldInv
  <2>1. index \in 0..Len(file.comments) /\ to = CommentsEnd(file, index)
    <3>1. index \in 1..Len(file.comments)
      BY <1>5, <2>3
    <3> QED
      BY <1>5, <2>3, <3>1
  <2>2. to <= end
    BY <1>1, <2>1
  <2> QED
    BY <2>2 DEF to, end
<1> QED
  BY <1>5, <1>6, <1>7, <1>8 DEF OggFields

\* A step that does not refuse the file.
LEMMA StillGood ==
    ASSUME OggSoundInv, GoodOgg => reading' # "FileUnreadable" /\ pc' \in {"ogg", "done"},
           UNCHANGED <<name, whole>>
    PROVE  OggSoundInv'
BY DEF OggSoundInv, GoodOgg, file

LEMMA GoodRest ==
    ASSUME GoodOgg, OggInv, OggSoundInv, pc = "ogg", UNCHANGED <<pc, reading>>
    PROVE  reading' # "FileUnreadable" /\ pc' \in {"ogg", "done"}
BY DEF OggSoundInv

\* A walk of another format does not begin.
LEMMA GoodGrows ==
    ASSUME OggInv, OggSoundInv, GoodOgg, Next
    PROVE  Grow
<1>1. OggIntact(file)
  BY GoodOggFacts
<1>2. written = file.size
  BY GoodOggFacts
<1>3. pc \in {"open", "ogg", "done"} /\ (pc = "open" => reader = "ogg")
  BY DEF OggSoundInv
<1>4. ~NotOpened
  BY <1>1 DEF NotOpened, OggIntact
<1>5. ~BadStart
  BY <1>3 DEF BadStart
<1>6. ~(TooMany \/ WavEnd \/ WavChunk \/ FlacBlock \/ NoMoov \/ AtomRefused \/ M4aAtom
        \/ MoovEnd \/ MoovChild \/ WmaEnd \/ WmaObject \/ DsfTag)
  BY <1>3 DEF TooMany, WavEnd, WavChunk, FlacBlock, NoMoov, AtomRefused, M4aAtom,
              MoovEnd, MoovChild, WmaEnd, WmaObject, DsfTag, Walking
<1>7. ~(WavOpen \/ FlacOpen \/ M4aOpen \/ WmaOpen \/ Mp3Tag \/ DsfHeader \/ AacSniff)
  BY <1>3 DEF WavOpen, FlacOpen, M4aOpen, WmaOpen, Mp3Tag, DsfHeader, AacSniff, Opening
<1> QED
  BY <1>4, <1>5, <1>6, <1>7 DEF Next, Walk

LEMMA GoodOpened ==
    ASSUME OggInv, OggSoundInv, GoodOgg, OggOpen
    PROVE  reading' # "FileUnreadable" /\ pc' \in {"ogg", "done"}
<1>1. OnDisk(Header) /\ file.format = "ogg"
  BY GoodOggFacts DEF OggIntact, OnDisk, GoodOgg
<1>2. WalkFrom(0, 0, "ogg")
  BY <1>1 DEF OggOpen
<1> QED
  BY <1>2 DEF WalkFrom, OggSoundInv

\* A page begins where the reader looks for one, it is there as a whole, and it is
\* no page too many.
LEMMA PageFollows ==
    ASSUME OggInv, PlaceInv, GoodOgg, NextPage
    PROVE  /\ pages < MaxPages
           /\ \E q \in file.pages : q.at = pos
           /\ \A q \in file.pages : q.at = pos => PageBody(q) <= file.size
<1>1. pc = "ogg" /\ segLeft = 0 /\ ~lastSeg /\ lacing = <<>> /\ ~Begun
  BY GoodOggFacts DEF NextPage, Wanting, Begun
<1>2. OggLayoutOK(file) /\ OggIntact(file) /\ pages \in Nat /\ MaxPages \in Nat
  BY GoodOggFacts
<1>3. PICK last \in DOMAIN file.segments : HeadersIntact(file, last)
  BY <1>2 DEF OggIntact
<1>4. PICK n \in Nat : Placement(n)
  BY <1>1 DEF PlaceInv, GoodOgg
<1>5. n < last /\ last \in Nat
  BY <1>1, <1>2, <1>3, <1>4, InHeaders, SegmentOK DEF Placement
<1> DEFINE U == PagesUpTo(file, last)
<1>6. IsFiniteSet(U) /\ Cardinality(U) \in Nat /\ Cardinality(U) <= MaxPages
  <2>1. IsFiniteSet(file.pages) /\ U \subseteq file.pages
    BY <1>2 DEF OggLayoutOK, Paginated, PagesUpTo
  <2> QED
    BY <1>3, <2>1, FS_Subset, FS_CardinalityType DEF HeadersIntact
<1>7. \A q \in file.pages : q.first = n => q \in U /\ PageBody(q) <= file.size
  BY <1>3, <1>5 DEF PagesUpTo, HeadersIntact
<1>8. CASE AtStart(n)
  <2>1. n = 0 /\ pages = 0 /\ pos = 0
    BY <1>8 DEF AtStart
  <2>2. \A q \in file.pages : q.at = 0 => q.first = 0
    BY <1>2 DEF OggLayoutOK, Paginated
  <2>3. PICK q \in file.pages : q.at = 0
    BY <1>2 DEF OggIntact
  <2>4. q \in U
    BY <1>7, <2>1, <2>2, <2>3
  <2>5. Cardinality(U) # 0
    BY <1>6, <2>4, FS_EmptySet
  <2>6. pages < MaxPages
    BY <1>2, <1>6, <2>1, <2>5
  <2> QED
    BY <1>7, <2>1, <2>2, <2>3, <2>6
<1>9. ASSUME NEW p \in file.pages, PageInv(n, p)
      PROVE  /\ pages < MaxPages
             /\ \E q \in file.pages : q.at = pos
             /\ \A q \in file.pages : q.at = pos => PageBody(q) <= file.size
  <2>1. n = p.first + Len(p.lacing) /\ pos = PageEnd(file, p) /\ PageBody(p) <= pos
        /\ pages <= Cardinality(Turned(p))
    BY <1>1, <1>2, <1>9, PageOver DEF PageInv
  <2>2. p.first \in Nat /\ Len(p.lacing) \in Nat /\ p.first <= n
    <3>1. p.first \in Nat /\ Len(p.lacing) \in Nat
      BY <1>2, PageOK
    <3> QED
      BY <2>1, <3>1
  <2>3. p \in U
    BY <1>5, <2>2 DEF PagesUpTo
  <2>4. PICK q \in file.pages : q.at = pos
    BY <1>3, <1>5, <2>1, <2>3 DEF HeadersIntact
  <2>5. \A x \in file.pages : x.at = pos => x.first = n
    BY <1>2, <2>1 DEF OggLayoutOK, Paginated
  <2>6. /\ IsFiniteSet(Turned(p) \union {q})
        /\ Cardinality(Turned(p) \union {q}) = Cardinality(Turned(p)) + 1
        /\ Cardinality(Turned(p)) \in Nat
    BY <1>2, <2>1, <2>4, PageTurned
  <2>7. Turned(p) \union {q} \subseteq U
    <3>1. q \in U
      BY <1>7, <2>4, <2>5
    <3>2. ASSUME NEW x \in Turned(p) PROVE x \in U
      <4>1. x \in file.pages /\ x.first <= p.first
        BY DEF Turned
      <4>2. x.first \in Nat
        BY <1>2, <4>1, PageOK
      <4>3. x.first < last
        BY <1>4, <1>5, <2>2, <4>1, <4>2
      <4> QED
        BY <4>1, <4>3 DEF PagesUpTo
    <3> QED
      BY <3>1, <3>2
  <2>8. Cardinality(Turned(p)) + 1 <= Cardinality(U)
    BY <1>6, <2>6, <2>7, FS_Subset
  <2>9. pages < MaxPages
    BY <1>2, <1>6, <2>1, <2>6, <2>8
  <2> QED
    BY <1>7, <2>4, <2>5, <2>9
<1> QED
  BY <1>4, <1>8, <1>9 DEF Placement

LEMMA GoodNextPage ==
    ASSUME OggInv, PlaceInv, OggSoundInv, GoodOgg, NextPage
    PROVE  reading' # "FileUnreadable" /\ pc' \in {"ogg", "done"}
<1>1. pages < MaxPages /\ MaxPages \in Nat /\ pages \in Nat
      /\ (\E q \in file.pages : q.at = pos)
      /\ written = file.size /\ OggLayoutOK(file) /\ file.size \in Nat
  BY PageFollows, GoodOggFacts
<1>2. ASSUME NEW q \in file.pages, q.at = pos
      PROVE  OnDisk(pos + Header) /\ OnDisk(pos + Header + Len(q.lacing))
  <2>1. PageBody(q) <= file.size /\ PageBody(q) = pos + Header + Len(q.lacing)
        /\ q.at + Header <= PageBody(q) /\ PageBody(q) \in Nat /\ q.at \in Nat
    BY <1>1, <1>2, PageFollows, PageOK DEF PageBody
  <2>2. pos + Header <= file.size
    BY <1>1, <1>2, <2>1 DEF Header
  <2> QED
    BY <1>1, <2>1, <2>2 DEF OnDisk
<1>3. ~(pages >= MaxPages) /\ OnDisk(pos + Header)
  BY <1>1, <1>2
<1>4. UNCHANGED InOgg
  BY <1>1, <1>2, <1>3 DEF NextPage
<1>5. UNCHANGED <<pc, reading>> /\ pc = "ogg"
  BY <1>4 DEF InOgg, NextPage, Wanting
<1> QED
  BY <1>5, GoodRest

\* No field runs past the end of the comment packet.
LEMMA GoodInPacket ==
    ASSUME OggInv, PlaceInv, GoodOgg, PastPacket PROVE FALSE
<1>1. pc = "ogg" /\ segLeft = 0 /\ lastSeg /\ field # "ident" /\ need > 0 /\ Begun
  BY DEF PastPacket, Wanting, Begun
<1>2. OggLayoutOK(file) /\ OggIntact(file) /\ need \in Nat
  BY GoodOggFacts
<1>3. PICK last \in DOMAIN file.segments : HeadersIntact(file, last)
  BY <1>2 DEF OggIntact
<1>4. PICK n \in Nat : Placement(n)
  BY <1>1 DEF PlaceInv, GoodOgg
<1>5. n = last
  BY <1>1, <1>3, <1>4, InHeaders DEF Placement
<1>6. file.segments[last].in \in Nat /\ file.segments[last].size \in Nat
  BY <1>2, SegmentOK
<1>7. ReadOf(n) = file.segments[last].in + file.segments[last].size
  <2>1. ReadOf(n) = file.segments[last].in + file.segments[last].size - 0
    BY <1>1, <1>5 DEF ReadOf
  <2> QED
    BY <1>6, <2>1
<1>8. ReadOf(n) + need <= file.segments[last].in + file.segments[last].size
  BY <1>1, <1>3, <1>4, FieldWithin DEF Placement
<1> QED
  BY <1>1, <1>2, <1>6, <1>7, <1>8

\* What the reader is in the middle of can be read to the end of its segment.
LEMMA SegmentOnDisk ==
    ASSUME OggInv, PlaceInv, GoodOgg, pc = "ogg", segLeft > 0
    PROVE  /\ pos + segLeft <= file.size
           /\ field = "ident" => need + segLeft <= MaxIdent
<1>1. OggLayoutOK(file) /\ OggIntact(file) /\ segLeft \in Nat /\ pos \in Nat /\ Begun
  BY GoodOggFacts DEF Begun
<1>2. PICK last \in DOMAIN file.segments : HeadersIntact(file, last)
  BY <1>1 DEF OggIntact
<1>3. PICK n \in Nat : Placement(n)
  BY DEF PlaceInv, GoodOgg
<1>4. PICK p \in file.pages : PageInv(n, p)
  BY <1>1, <1>3 DEF Placement, AtStart
<1>5. /\ n \in 1..last /\ n \in DOMAIN file.segments
      /\ file.segments[n].packet = IF field = "ident" THEN 1 ELSE 2
      /\ file.segments[n].at + file.segments[n].size <= file.size
  BY <1>1, <1>2, <1>3, InHeaders DEF Placement
<1>6. /\ file.segments[n].at \in Nat /\ file.segments[n].size \in Nat
      /\ file.segments[n].in \in Nat
  BY <1>1, <1>5, SegmentOK
<1>7. pos = file.segments[n].at + file.segments[n].size - segLeft
  BY <1>1, <1>4 DEF PageInv
<1>8. pos + segLeft <= file.size
  BY <1>1, <1>5, <1>6, <1>7
<1>9. ASSUME field = "ident" PROVE need + segLeft <= MaxIdent
  <2>1. need = file.segments[n].in + file.segments[n].size - segLeft
    BY <1>1, <1>3, <1>9 DEF Placement, SegmentInv, FieldInv, ReadOf
  <2>2. file.segments[n].in + file.segments[n].size <= MaxIdent
    BY <1>2, <1>5, <1>9 DEF HeadersIntact
  <2> QED
    BY <1>1, <1>6, <2>1, <2>2
<1> QED
  BY <1>8, <1>9

LEMMA GoodReading ==
    ASSUME OggInv, PlaceInv, OggSoundInv, GoodOgg, ReadIdent \/ ReadPart
    PROVE  reading' # "FileUnreadable" /\ pc' \in {"ogg", "done"}
<1>1. pc = "ogg" /\ segLeft > 0
  BY DEF ReadIdent, ReadPart
<1>2. /\ pos + segLeft <= written /\ written = file.size /\ file.size \in Nat
      /\ pos \in Nat /\ segLeft \in Nat /\ need \in Nat
      /\ field = "ident" => need + segLeft <= MaxIdent
  BY <1>1, SegmentOnDisk, GoodOggFacts
<1>3. CASE ReadIdent
  <2>1. need + segLeft <= MaxIdent /\ OnDisk(pos + segLeft)
    BY <1>2, <1>3 DEF ReadIdent, OnDisk
  <2>2. UNCHANGED InOgg
    BY <1>3, <2>1 DEF ReadIdent
  <2> QED
    BY <1>1, <2>2, GoodRest DEF InOgg
<1>4. CASE ReadPart
  <2> DEFINE m == IF need < segLeft THEN need ELSE segLeft
  <2>1. pos + m <= written
    BY <1>2
  <2>2. OnDisk(pos + m)
    BY <2>1 DEF OnDisk
  <2>3. UNCHANGED InOgg
    BY <1>4, <2>2 DEF ReadPart
  <2> QED
    BY <1>1, <2>3, GoodRest DEF InOgg
<1> QED
  BY <1>3, <1>4

\* What was kept comes out of the rebuilt stream as it went in.
LEMMA GoodParsed ==
    ASSUME OggInv, GoodOgg PROVE ParsedSynth # "FileUnreadable"
<1> DEFINE framing == IF file.codec = "vorbis" THEN 1 ELSE 0
           rebuilt == Prefix + 2 * U32 + entries + framing
<1>1. file.ident \in Nat /\ rebuilt \in Nat
  <2>1. file.ident \in Nat
    BY GoodOggFacts DEF OggLayoutOK
  <2>2. entries \in Nat /\ framing \in Nat
    BY GoodOggFacts
  <2> HIDE DEF framing
  <2>3. rebuilt \in Nat
    BY <2>2 DEF Prefix, U32
  <2> QED
    BY <2>1, <2>3
<1> HIDE DEF rebuilt
<1>2. ExtractOggPackets(OggSynth(<<file.ident, rebuilt>>), 2) = <<file.ident, rebuilt>>
  BY <1>1, RoundTrip
<1>3. ParsedSynth = RatingFromFields(KeptFields)
  BY <1>2 DEF ParsedSynth, Parse, KeptFields, rebuilt
<1>4. FieldsIntact(KeptFields)
  BY DEF FieldsIntact, KeptFields
<1> QED
  BY <1>3, <1>4, IntactFields

LEMMA GoodNextComment ==
    ASSUME OggInv, OggSoundInv, GoodOgg, NextComment
    PROVE  reading' # "FileUnreadable" /\ pc' \in {"ogg", "done"}
<1>1. CASE OggConclude(ParsedSynth)
  BY <1>1, GoodParsed DEF OggConclude, Conclude
<1>2. CASE UNCHANGED InField
  <2>1. UNCHANGED <<pc, reading>> /\ pc = "ogg"
    BY <1>2 DEF InField, InOgg, NextComment, FieldRead
  <2> QED
    BY <2>1, GoodRest
<1> QED
  BY <1>1, <1>2 DEF NextComment

\* The comments that are kept fit into memory.
LEMMA GoodLengthRead ==
    ASSUME OggInv, PlaceInv, OggSoundInv, GoodOgg, LengthRead
    PROVE  reading' # "FileUnreadable" /\ pc' \in {"ogg", "done"}
<1>1. pc = "ogg" /\ field = "length"
  BY DEF LengthRead, FieldRead
<1>2. PICK n \in Nat : Placement(n)
  BY <1>1 DEF PlaceInv, GoodOgg
<1>3. entries = HeldUpTo(file, index - 1)
  BY <1>1, <1>2 DEF Placement, SegmentInv, FieldInv, Dealt
<1>4. PICK i \in DOMAIN file.comments :
          /\ i = index
          /\ \/ Goto("large comment", file.comments[i].size)
             \/ /\ file.comments[i].size <= MaxKeptComment
                /\ entries + U32 + file.comments[i].size > MaxRead
             \/ UNCHANGED InField
  BY DEF LengthRead
<1>5. OggLayoutOK(file) /\ OggIntact(file) /\ MaxRead \in Nat /\ entries \in Nat
  BY GoodOggFacts
<1>6. file.comments[i].held = entries /\ file.comments[i].size \in Nat
  BY <1>3, <1>4, <1>5, HeldUpToOK, CommentOK
<1>7. file.comments[i].size <= MaxKeptComment =>
          entries + U32 + file.comments[i].size <= MaxRead
  BY <1>5, <1>6 DEF OggIntact
<1> DEFINE size == file.comments[i].size
<1>8. ~(size <= MaxKeptComment /\ entries + U32 + size > MaxRead)
  <2>1. size \in Nat /\ (size <= MaxKeptComment => entries + U32 + size <= MaxRead)
    BY <1>6, <1>7
  <2> HIDE DEF size
  <2> QED
    BY <1>5, <2>1 DEF U32
<1>9. UNCHANGED InField
  BY <1>4, <1>8 DEF Goto
<1> QED
  BY <1>1, <1>9, GoodRest DEF InField, InOgg

LEMMA GoodField ==
    ASSUME OggInv, OggSoundInv, GoodOgg,
           StartPacket \/ PrefixRead \/ VendorLengthRead \/ VendorSkipped
           \/ NextSegment
    PROVE  reading' # "FileUnreadable" /\ pc' \in {"ogg", "done"}
<1>1. file.codec \in {"vorbis", "opus", "flac"}
  BY GoodOggFacts DEF OggIntact
<1>2. pc = "ogg" /\ (UNCHANGED InField \/ UNCHANGED InOgg)
  BY <1>1 DEF StartPacket, PrefixRead, VendorLengthRead, VendorSkipped, NextSegment,
              FieldRead, Goto, Wanting
<1> QED
  BY <1>2, GoodRest DEF InField, InOgg

LEMMA OggSoundStep ==
    ASSUME OggInv, PlaceInv, OggSoundInv, [OggNext]_<<vars, oggVars>>
    PROVE  OggSoundInv'
<1>1. CASE Next /\ UNCHANGED oggVars
  <2>1. GoodOgg => UNCHANGED <<pc, reading, reader>>
    BY <1>1, GoodGrows DEF Grow
  <2>2. UNCHANGED <<name, whole>>
    BY <1>1, NextFrame DEF OggInv
  <2> QED
    BY <2>1, <2>2 DEF OggSoundInv, GoodOgg, file
<1>2. CASE Ogg
  <2>1. UNCHANGED <<name, whole>>
    BY <1>2, OggFrame
  <2>2. GoodOgg => reading' # "FileUnreadable" /\ pc' \in {"ogg", "done"}
    BY <1>2, GoodOpened, GoodNextPage, GoodInPacket, GoodReading, GoodNextComment,
       GoodLengthRead, GoodField DEF Ogg
  <2> QED
    BY <2>1, <2>2, StillGood
<1>3. CASE UNCHANGED <<vars, oggVars>>
  BY <1>3 DEF OggSoundInv, GoodOgg, file, vars
<1> QED
  BY <1>1, <1>2, <1>3 DEF OggNext

LEMMA OggSoundInit == OggInit => OggSoundInv
<1> SUFFICES ASSUME OggInit, GoodOgg
             PROVE  reading # "FileUnreadable" /\ pc = "open" /\ reader = "ogg"
  BY DEF OggSoundInv
<1>1. OggIntact(file)
  BY OggInitInv, GoodOggFacts
<1> QED
  BY <1>1 DEF OggInit, Init, OggIntact

-----------------------------------------------------------------------------
(* Theorems, of the reader of all formats *)

\* The Ogg reader stays within its types too: it walks no more than MaxPages
\* pages and begins no more than MaxComments comments, whatever a file declares.
THEOREM OggTyping == OggSpec => []OggTypeOK
<1>1. OggInv => OggTypeOK
  BY DEF OggInv
<1> QED
  BY <1>1, OggInitInv, OggStepInv, PTL DEF OggSpec

\* Whatever its extension, no file with a rating is read as untagged and none
\* without one as rated, but for what the reader cannot know (Blind).
THEOREM AllFormatsNotMisread == OggSpec => []NeverMisread
<1>1. OggInv => NeverMisread
  BY DEF OggInv, Inv
<1> QED
  BY <1>1, OggInitInv, OggStepInv, PTL DEF OggSpec

\* The walks of the other formats keep their place beside the Ogg reader.
THEOREM AllFormatsOnEntries == OggSpec => []OnEntries
<1>1. OggInv => OnEntries
  BY OnEntriesKept DEF OggInv
<1> QED
  BY <1>1, OggInitInv, OggStepInv, PTL DEF OggSpec

\* No walk of the comments runs on behind the last one, whatever count the file
\* declares (oggPacketReader, readOggCommentPacket): the reader is where the
\* layout of segments and pages has it, and the packet has no room for another.
THEOREM CommentsWhereRead == OggSpec => []OnComments
<1>1. OggInv /\ PlaceInv => OnComments
  BY OnCommentsKept
<1>2. OggInit => OggInv /\ PlaceInv
  BY OggInitInv, PlaceInit
<1>3. (OggInv /\ PlaceInv) /\ [OggNext]_<<vars, oggVars>> => (OggInv /\ PlaceInv)'
  BY OggStepInv, PlaceStep
<1> QED
  BY <1>1, <1>2, <1>3, PTL DEF OggSpec

\* Complete when it is opened, a sound file of any format is read; an Ogg file whatever
\* its packets, lacing and pages, within the limits of the reader (extractOggMetadata,
\* nextPage, readOggCommentPacket, oggSynth).
THEOREM AllFormatsAreRead == OggSpec => []SoundFilesAreRead
<1>1. SoundInv /\ OggSoundInv => SoundFilesAreRead
  BY DEF SoundInv, Good, OggSoundInv, GoodOgg, SoundFilesAreRead
<1>2. OggInit => OggInv /\ PlaceInv /\ SoundInv /\ OggSoundInv
  BY OggInitInv, PlaceInit, SoundInit, OggSoundInit DEF OggInit
<1>3. (OggInv /\ PlaceInv /\ SoundInv /\ OggSoundInv) /\ [OggNext]_<<vars, oggVars>>
        => (OggInv /\ PlaceInv /\ SoundInv /\ OggSoundInv)'
  BY OggStepInv, PlaceStep, SoundBeside, OggSoundStep
<1> QED
  BY <1>1, <1>2, <1>3, PTL DEF OggSpec

=============================================================================
