------------------------------ MODULE OggWalk ------------------------------
(***************************************************************************)
(* The Ogg reader of nd-rating-sync.  An Ogg file is a list of pages with  *)
(* a lacing table each; the segments it lists make up packets, which end   *)
(* with a segment shorter than Lace and may run over any number of pages.  *)
(* The reader follows the identification packet and the fields of the      *)
(* comment packet across segments and pages, passes over large comments    *)
(* unread, and lays what it kept out as a small Ogg file of its own, which *)
(* the parser takes apart again.                                           *)
(***************************************************************************)
EXTENDS FileWalk, SequencesExt

CONSTANTS
    Lace,              \* 255: a segment that does not end its packet
    PageSegments,      \* 255: segments on a page
    MaxIdent,          \* oggMaxIdentPacket
    MaxKeptComment,    \* oggMaxKeptComment
    MaxComments,       \* oggMaxComments
    MaxPages           \* oggMaxPages

VARIABLES
    lacing,            \* lacing values still to consume on the current page
    segLeft,           \* units left in the current segment
    lastSeg,           \* the packet ends with this segment
    pages,             \* pages begun
    field,             \* what is being read
    need,              \* units of it still to read
    index,             \* comments begun
    kept,              \* comments read into memory
    entries            \* their length there

oggVars == <<lacing, segLeft, lastSeg, pages, field, need, index, kept, entries>>

U32 == 2               \* the length of a number
Prefix == 1            \* "vorbis", "OpusTags" or a FLAC block header

\* A comment lies somewhere in its packet, behind others of which some are kept;
\* a segment lies in the file and in its packet; a page begins somewhere, behind
\* the segments of the pages before.
Comment == [at: Nat, size: Nat, held: Nat, rating: Ratings, picture: BOOLEAN]
Segment == [at: Nat, size: 0..Lace, packet: Nat, in: Nat]
Page == [at: Nat, first: Nat, lacing: Seq(0..Lace)]

-----------------------------------------------------------------------------
(* What an Ogg layout is: like entries, comments, segments and pages have  *)
(* offsets that follow from what is in front of them.                      *)

\* Where the first i comments end in their packet, and how much of them is kept.
CommentsEnd(f, i) ==
    IF i = 0 THEN Prefix + 2 * U32 + f.vendor
    ELSE f.comments[i].at + U32 + f.comments[i].size

Keeps(c) == c.size <= MaxKeptComment /\ ~c.picture

HeldUpTo(f, i) ==
    IF i = 0 THEN 0
    ELSE f.comments[i].held
           + IF Keeps(f.comments[i]) THEN U32 + f.comments[i].size ELSE 0

\* As many comments as are declared, or as the packet has room for.  A rating is
\* neither a picture nor large.
Commented(f) ==
    /\ f.comments \in Seq(Comment) /\ Len(f.comments) <= f.count
    /\ \A i \in DOMAIN f.comments :
          LET c == f.comments[i]
          IN  /\ c.at = CommentsEnd(f, i - 1) /\ c.held = HeldUpTo(f, i - 1)
              /\ c.rating # "none" => ~c.picture /\ c.size <= MaxKeptComment
    /\ Len(f.comments) < f.count =>
           \A n \in DOMAIN f.segments :
               LET s == f.segments[n]
               IN  s.packet = 2 =>
                       s.in + s.size < CommentsEnd(f, Len(f.comments)) + U32

\* The packet that goes on after the first n segments, and how much of it they
\* hold.
PacketAfter(f, n) ==
    IF n = 0 THEN 1
    ELSE f.segments[n].packet + IF f.segments[n].size < Lace THEN 1 ELSE 0

InAfter(f, n) ==
    IF n = 0 THEN 0
    ELSE IF f.segments[n].size < Lace THEN 0
    ELSE f.segments[n].in + f.segments[n].size

Segmented(f) ==
    /\ f.segments \in Seq(Segment)
    /\ \A n \in DOMAIN f.segments :
          /\ f.segments[n].packet = PacketAfter(f, n - 1)
          /\ f.segments[n].in = InAfter(f, n - 1)

PageBody(p) == p.at + Header + Len(p.lacing)

PageEnd(f, p) ==
    IF p.lacing = <<>> THEN PageBody(p)
    ELSE LET s == f.segments[p.first + Len(p.lacing)] IN s.at + s.size

\* A page lists its segments, which lie behind it one after the other.
Paginated(f) ==
    /\ f.pages \subseteq Page /\ IsFiniteSet(f.pages)
    /\ \A p \in f.pages :
          /\ p.at = 0 => p.first = 0
          /\ p.first + Len(p.lacing) <= Len(f.segments)
          /\ \A k \in DOMAIN p.lacing :
                LET s == f.segments[p.first + k]
                    before == f.segments[p.first + k - 1]
                IN  /\ s.size = p.lacing[k]
                    /\ s.at = IF k = 1 THEN PageBody(p)
                              ELSE before.at + before.size
          /\ \A q \in f.pages :
                q.at = PageEnd(f, p) => q.first = p.first + Len(p.lacing)

OggLayoutOK(f) ==
    /\ {f.ident, f.vendor} \subseteq Nat
    /\ Commented(f) /\ Segmented(f) /\ Paginated(f)
    /\ f.tag = [i \in DOMAIN f.comments |->
                   [rating |-> f.comments[i].rating, fits |-> TRUE]]
    /\ f.tooManyComments <=> Len(f.comments) > MaxComments

ASSUME OggAssumption ==
    /\ Lace \in Nat \ {0} /\ PageSegments \in Nat \ {0}
    /\ {MaxIdent, MaxKeptComment, MaxComments, MaxPages} \subseteq Nat
    /\ \A n \in Files : Layout[n].format = "ogg" => OggLayoutOK(Layout[n])

-----------------------------------------------------------------------------
(* oggSynth and extractOggPackets, on the lengths of packets *)

\* Mutant: a packet that fills its last segment is not ended.
LacingUnended(n) ==
    [i \in 1..((n + Lace - 1) \div Lace) |-> IF i * Lace <= n THEN Lace
                                             ELSE n % Lace]

Lacing(n) ==
    [i \in 1..(n \div Lace + 1) |-> IF i * Lace <= n THEN Lace ELSE n % Lace]

OggSynth(lengths) ==
    LET table == FlattenSeq([i \in DOMAIN lengths |-> Lacing(lengths[i])])
        count == (Len(table) + PageSegments - 1) \div PageSegments
    IN  [i \in 1..count |->
            SubSeq(table, (i - 1) * PageSegments + 1,
                   IF i = count THEN Len(table) ELSE i * PageSegments)]

\* The lengths of the first packets; a segment shorter than Lace ends one.
ExtractOggPackets(tables, max) ==
    LET table == FlattenSeq(tables)
        ends == {i \in DOMAIN table : table[i] < Lace}
        length[i \in DOMAIN table] ==
            IF i > 1 /\ table[i - 1] = Lace THEN length[i - 1] + table[i]
            ELSE table[i]
        End(k) == CHOOSE i \in ends : Cardinality({j \in ends : j <= i}) = k
    IN  [k \in 1..(IF Cardinality(ends) < max THEN Cardinality(ends) ELSE max) |->
            length[End(k)]]

\* What ratingFromOgg finds in the rebuilt stream.
ParsedSynth ==
    LET framing == IF file.codec = "vorbis" THEN 1 ELSE 0
        lengths == <<file.ident, Prefix + 2 * U32 + entries + framing>>
    IN  IF ExtractOggPackets(OggSynth(lengths), 2) = lengths
        THEN Parse("ogg", [i \in DOMAIN kept |->
                              [rating |-> kept[i].rating, fits |-> TRUE]])
        ELSE "FileUnreadable"

-----------------------------------------------------------------------------
OggInit ==
    /\ Init
    /\ lacing = <<>> /\ segLeft = 0 /\ lastSeg = FALSE /\ pages = 0
    /\ field = "ident" /\ need = 0 /\ index = 0 /\ kept = <<>>
    /\ entries = 0

\* The end of the walk.
OggConclude(result) == Conclude(result) /\ UNCHANGED oggVars
OggUnreadable == OggConclude("FileUnreadable")

InOgg == <<name, written, whole, reader, pc, limit, seen, reading>>

OggOpen ==
    /\ Opening("ogg")
    /\ IF OnDisk(Header) /\ file.format = "ogg"
       THEN WalkFrom(0, 0, "ogg") /\ UNCHANGED oggVars
       ELSE OggUnreadable

-----------------------------------------------------------------------------
(* advance: the next segment of the packet *)

Wanting == pc = "ogg" /\ segLeft = 0 /\ (field = "ident" \/ need > 0)

NextPage ==
    /\ Wanting /\ ~lastSeg /\ lacing = <<>>
    /\ \/ pages >= MaxPages /\ OggUnreadable
       \/ pages < MaxPages /\ ~OnDisk(pos + Header) /\ OggUnreadable
       \/ /\ pages < MaxPages /\ OnDisk(pos + Header)
          /\ \/ ~(\E p \in file.pages : p.at = pos) /\ OggUnreadable
             \/ \E p \in file.pages :
                  LET end == pos + Header + Len(p.lacing)
                  IN  /\ p.at = pos
                      /\ \/ ~OnDisk(end) /\ OggUnreadable
                         \/ /\ OnDisk(end)
                            /\ pos' = end /\ lacing' = p.lacing
                            /\ pages' = pages + 1
                            /\ UNCHANGED <<InOgg, segLeft, lastSeg, field,
                                           need, index, kept, entries>>

\* Mutant: the end of a packet does not end the walk of its fields.
NextSegmentAcross ==
    /\ Wanting /\ lacing # <<>>
    /\ segLeft' = Head(lacing) /\ lacing' = Tail(lacing)
    /\ lastSeg' = (Head(lacing) < Lace)
    /\ UNCHANGED <<InOgg, pos, pages, field, need, index, kept, entries>>

NextSegment ==
    /\ Wanting /\ ~lastSeg /\ lacing # <<>>
    /\ segLeft' = Head(lacing) /\ lacing' = Tail(lacing)
    /\ lastSeg' = (Head(lacing) < Lace)
    /\ UNCHANGED <<InOgg, pos, pages, field, need, index, kept, entries>>

\* A field runs past the end of its packet.
PastPacket == Wanting /\ lastSeg /\ field # "ident" /\ OggUnreadable

-----------------------------------------------------------------------------
(* readPacket, readFull and skip *)

\* A whole segment of the identification packet; need counts what was read.
ReadIdent ==
    /\ pc = "ogg" /\ field = "ident" /\ segLeft > 0
    /\ LET fits == need + segLeft <= MaxIdent /\ OnDisk(pos + segLeft)
       IN  \/ ~fits /\ OggUnreadable
           \/ /\ fits
              /\ pos' = pos + segLeft /\ need' = need + segLeft /\ segLeft' = 0
              /\ UNCHANGED <<InOgg, lacing, lastSeg, pages, field, index,
                             kept, entries>>

Seeked == field \in {"vendor", "large comment"}

\* Part of a field, as far as the segment goes.  A Seek may go past the end.
ReadPart ==
    /\ pc = "ogg" /\ field # "ident" /\ need > 0 /\ segLeft > 0
    /\ LET n == IF need < segLeft THEN need ELSE segLeft
       IN  \/ ~Seeked /\ ~OnDisk(pos + n) /\ OggUnreadable
           \/ /\ Seeked \/ OnDisk(pos + n)
              /\ pos' = pos + n /\ need' = need - n /\ segLeft' = segLeft - n
              /\ UNCHANGED <<InOgg, lacing, lastSeg, pages, field, index,
                             kept, entries>>

-----------------------------------------------------------------------------
(* readOggCommentPacket: one field after the other *)

InField == <<InOgg, pos, lacing, segLeft, pages>>

Goto(next, length) ==
    /\ field' = next /\ need' = length
    /\ UNCHANGED <<InField, lastSeg, index, kept, entries>>

FieldRead(f) == pc = "ogg" /\ field = f /\ need = 0

\* startPacket: the identification packet is read to its end.
StartPacket ==
    /\ pc = "ogg" /\ field = "ident" /\ segLeft = 0 /\ lastSeg
    /\ lastSeg' = FALSE /\ field' = "prefix" /\ need' = Prefix
    /\ UNCHANGED <<InField, index, kept, entries>>

PrefixRead ==
    /\ FieldRead("prefix")
    /\ \/ file.codec \notin {"vorbis", "opus", "flac"} /\ OggUnreadable
       \/ file.codec \in {"vorbis", "opus", "flac"} /\ Goto("vendor length", U32)

VendorLengthRead == FieldRead("vendor length") /\ Goto("vendor", file.vendor)

VendorSkipped == FieldRead("vendor") /\ Goto("count", U32)

\* Mutant: the declared number of comments is believed.
CountUnclamped == file.count

\* How many comments are walked.
Count == IF file.count > MaxComments THEN MaxComments ELSE file.count

\* The next comment, or the end of the walk.
NextComment ==
    /\ \E f \in {"count", "comment", "large comment"} : FieldRead(f)
    /\ \/ index = Count /\ OggConclude(ParsedSynth)
       \/ /\ index < Count
          /\ index' = index + 1 /\ field' = "length" /\ need' = U32
          /\ UNCHANGED <<InField, lastSeg, kept, entries>>

\* A large comment is passed over.  Another one is read, and dropped when it
\* is a picture; kept counts it at once, its bytes are read next.
LengthRead ==
    /\ FieldRead("length")
    /\ \E i \in DOMAIN file.comments :
          LET c == file.comments[i]
          IN  /\ i = index
              /\ \/ c.size > MaxKeptComment /\ Goto("large comment", c.size)
                 \/ /\ c.size <= MaxKeptComment
                    /\ entries + U32 + c.size > MaxRead /\ OggUnreadable
                 \/ /\ c.size <= MaxKeptComment
                    /\ entries + U32 + c.size <= MaxRead
                    /\ field' = "comment" /\ need' = c.size
                    /\ kept' = IF c.picture THEN kept ELSE Append(kept, c)
                    /\ entries' = IF c.picture THEN entries
                                  ELSE entries + U32 + c.size
                    /\ UNCHANGED <<InField, lastSeg, index>>

-----------------------------------------------------------------------------
Ogg ==
    \/ OggOpen \/ NextPage \/ NextSegment \/ PastPacket
    \/ ReadIdent \/ ReadPart \/ StartPacket \/ PrefixRead
    \/ VendorLengthRead \/ VendorSkipped \/ NextComment \/ LengthRead

OggNext ==
    \/ Next /\ UNCHANGED oggVars
    \/ Ogg

OggSpec == OggInit /\ [][OggNext]_<<vars, oggVars>>

-----------------------------------------------------------------------------
(* What a sound Ogg file is: its first two packets are complete, on pages  *)
(* that follow each other, of a codec the reader knows, within its limits, *)
(* and the second one holds the comments it declares.                      *)

\* The pages that begin before segment n does.
PagesUpTo(f, n) == {p \in f.pages : p.first < n}

\* Two packets can be read as far as segment n, where the second one ends.
HeadersIntact(f, n) ==
    /\ f.segments[n].packet = 2 /\ f.segments[n].size < Lace
    /\ \A k \in 1..n :
          LET s == f.segments[k]
          IN  s.at + s.size <= f.size /\ (s.packet = 1 => s.in + s.size <= MaxIdent)
    /\ Cardinality(PagesUpTo(f, n)) <= MaxPages
    /\ \A p \in PagesUpTo(f, n) :
          /\ PageBody(p) <= f.size
          /\ p.first + Len(p.lacing) < n => \E q \in f.pages : q.at = PageEnd(f, p)
    /\ \A i \in 0..Len(f.comments) :
          CommentsEnd(f, i) <= f.segments[n].in + f.segments[n].size

OggIntact(f) ==
    /\ f.opens /\ Supported(f.ext) /\ Extractor[f.ext] = "ogg" /\ Header <= f.size
    /\ f.codec \in {"vorbis", "opus", "flac"} /\ f.count = Len(f.comments)
    /\ \E p \in f.pages : p.at = 0
    /\ \E n \in DOMAIN f.segments : HeadersIntact(f, n)
    /\ \A i \in DOMAIN f.comments :
          f.comments[i].size <= MaxKeptComment =>
              f.comments[i].held + U32 + f.comments[i].size <= MaxRead

ASSUME SoundOggAssumption ==
    \A n \in Sound : Layout[n].format = "ogg" => OggIntact(Layout[n])

-----------------------------------------------------------------------------
(* Properties *)

OggTypeOK ==
    /\ TypeOK
    /\ lacing \in Seq(0..Lace) /\ segLeft \in 0..Lace /\ lastSeg \in BOOLEAN
    /\ pages \in 0..MaxPages
    /\ field \in {"ident", "prefix", "vendor length", "vendor", "count",
                  "length", "comment", "large comment"}
    /\ need \in Nat /\ index \in 0..MaxComments /\ entries \in 0..MaxRead

(* No walk of the comments runs on behind the last one: a count that is too *)
(* large takes neither the framing bit nor the next packet for a comment.   *)
(* (oggPacketReader, readOggCommentPacket.)                                 *)
OnComments == FieldRead("length") => index \in DOMAIN file.comments

=============================================================================
