----------------------------- MODULE MCOggWalk -----------------------------
(***************************************************************************)
(* Files for TLC: sound ones in every layout the formats allow, and        *)
(* damaged ones, large ones and ones under another name.  A layout is a    *)
(* list of entries; their offsets follow from what is in front of them.    *)
(***************************************************************************)
EXTENDS OggWalk

\* Results of a tag: no rating, whole stars, and what each format can hold.
Fld(rating, fits) == [rating |-> rating, fits |-> fits]
FieldLists == <<<<>>, <<Fld("none", TRUE), Fld("whole", TRUE)>>,
               <<Fld("half", TRUE)>>>>
BrokenLists == <<<<Fld("whole", FALSE)>>, <<Fld("none", FALSE), Fld("half", TRUE)>>>>

Frm(rating) == [carrier |-> rating # "none", rating |-> rating,
                flagged |-> FALSE, fits |-> TRUE]
Flagged == [Frm("whole") EXCEPT !.flagged = TRUE]
ID3(version, extended, frames, short) ==
    [version |-> version, extended |-> extended, frames |-> frames,
     shortPadding |-> short]
SoundID3 == <<ID3(3, "none", <<Frm("none"), Frm("whole")>>, TRUE),
             ID3(3, "fits", <<Frm("whole")>>, FALSE),
             ID3(4, "fits", <<Frm("half")>>, TRUE),
             ID3(4, "none", <<Frm("none")>>, FALSE),
             ID3(4, "none", <<>>, FALSE)>>
OtherID3 == <<ID3(2, "none", <<Frm("whole")>>, FALSE),
             ID3(5, "none", <<Frm("whole")>>, FALSE),
             ID3(3, "broken", <<Frm("whole")>>, FALSE),
             ID3(4, "none", <<Flagged>>, FALSE),
             ID3(3, "fits", <<Flagged>>, FALSE),
             ID3(3, "none", <<[Frm("none") EXCEPT !.fits = FALSE],
                              Frm("whole")>>, FALSE)>>

Atm(type, fits) == [type |-> type, fits |-> fits]
Mp4(udta, style, meta, ilst) ==
    [udta |-> udta, style |-> style, meta |-> meta, ilst |-> ilst]
Hdlr == Atm("other", TRUE)
Rating == <<Fld("none", TRUE), Fld("whole", TRUE)>>
SoundMp4 == <<Mp4(<<>>, "full", <<>>, <<>>),
             Mp4(<<Hdlr, Atm("meta", TRUE)>>, "full", <<Hdlr>>, <<>>),
             Mp4(<<Atm("meta", TRUE)>>, "full", <<Hdlr, Atm("ilst", TRUE)>>, Rating),
             Mp4(<<Atm("meta", TRUE)>>, "quicktime",
                 <<Hdlr, Atm("ilst", TRUE), Atm("other", FALSE)>>,
                 <<Fld("half", TRUE)>>)>>
OtherMp4 == <<Mp4(<<Atm("other", FALSE), Atm("meta", TRUE)>>, "full",
                 <<Atm("ilst", TRUE)>>, Rating),
             Mp4(<<Atm("meta", TRUE)>>, "full",
                 <<Atm("other", FALSE), Atm("ilst", TRUE)>>, Rating),
             Mp4(<<Atm("meta", TRUE)>>, "shifted", <<Atm("ilst", TRUE)>>, Rating),
             Mp4(<<Atm("meta", TRUE)>>, "short", <<>>, <<>>),
             Mp4(<<Atm("meta", TRUE)>>, "full", <<Atm("ilst", TRUE)>>,
                 <<Fld("none", FALSE), Fld("whole", TRUE)>>)>>

-----------------------------------------------------------------------------
(* Layouts *)

E(kind, body) == [kind |-> kind, body |-> body, real |-> body, head |-> Header,
                  open |-> FALSE, last |-> FALSE]
Tag(body) == E("tag", body)
Skip(body) == E("skip", body)
Final(e) == [e EXCEPT !.last = TRUE]
Wide(e) == [e EXCEPT !.head = 2 * Header]
Open(e) == [e EXCEPT !.open = TRUE]
\* A declared size other than the real one.
Claims(e, body) == [e EXCEPT !.body = body]

\* Even padding, in RIFF files only.
Padded(wav, n) == IF wav THEN n + (n % 2) ELSE n

Extent(layout, wav) ==
    FoldLeft(LAMBDA n, e : n + e.head + Padded(wav, e.real), 0, layout)

\* The entries of a layout, from an offset on.
Place(layout, offset, within, inside, wav) ==
    {[at |-> offset + Extent(SubSeq(layout, 1, i - 1), wav),
      head |-> layout[i].head, body |-> layout[i].body, open |-> layout[i].open,
      kind |-> layout[i].kind, last |-> layout[i].last, inside |-> inside,
      within |-> within] : i \in DOMAIN layout}

\* Every field a file may have, with the values that mean nothing special.
File(ext, format, size, list, tag) ==
    [ext |-> ext, format |-> format, size |-> size, entries |-> list,
     tag |-> tag, opens |-> TRUE, tooManyComments |-> FALSE,
     lead |-> [size |-> 0, version |-> 4, footer |-> FALSE], start |-> 0,
     headerSize |-> 0, count |-> 0, offset |-> 0, codec |-> "vorbis",
     ident |-> 0, vendor |-> 0, comments |-> <<>>, segments |-> <<>>,
     pages |-> {}]

\* Every pair of an element of the one list and one of the other.
Cross(a, b) ==
    [i \in 1..(Len(a) * Len(b)) |-> <<a[((i - 1) \div Len(b)) + 1],
                                      b[((i - 1) % Len(b)) + 1]>>]
NoID3 == ID3(4, "none", <<>>, FALSE)
NoMp4 == Mp4(<<>>, "full", <<>>, <<>>)

-----------------------------------------------------------------------------
(* RIFF *)

Wav(layout, tag) ==
    LET size == Header + Extent(layout, TRUE)
    IN  File("wav", "wav", size, Place(layout, Header, size, FALSE, TRUE), tag)

Wavs(layouts, tags) ==
    LET c == Cross(layouts, tags) IN [i \in DOMAIN c |-> Wav(c[i][1], c[i][2])]
SoundWavs == Wavs(<<<<Skip(1), Skip(2)>>, <<>>>>, <<NoID3>>)
               \o Wavs(<<<<Skip(1), Tag(2)>>, <<Tag(1), Skip(2)>>>>, SoundID3)
OtherWavs == Wavs(<<<<Skip(1), Tag(1)>>>>, OtherID3)
               \o Wavs(<<<<Claims(Skip(1), 9), Tag(1)>>, <<Tag(MaxRead + 1)>>,
                         <<Skip(0), Skip(0), Skip(0), Tag(1)>>>>, SoundID3)

(* FLAC; the magic is a header of its own *)

Flac(lead, layout, tag) ==
    LET start == IF lead.size = 0 THEN 0
                 ELSE lead.size + (IF lead.footer THEN Header ELSE 0)
        size == start + Header + Extent(layout, FALSE) + 1
    IN  [File("flac", "flac", size,
              Place(layout, start + Header, size, FALSE, FALSE), tag)
           EXCEPT !.lead = lead, !.start = start]
NoLead == [size |-> 0, version |-> 4, footer |-> FALSE]
Leads == <<NoLead, [size |-> 3, version |-> 3, footer |-> FALSE],
          [size |-> 2, version |-> 4, footer |-> TRUE]>>
Flacs(leads, layouts, tags) ==
    LET c == Cross(Cross(leads, layouts), tags)
    IN  [i \in DOMAIN c |-> Flac(c[i][1][1], c[i][1][2], c[i][2])]
SoundFlacs == Flacs(Leads, <<<<Skip(1), Final(Skip(1))>>>>, <<<<>>>>)
                \o Flacs(Leads, <<<<Skip(1), Final(Tag(1))>>,
                                  <<Tag(1), Final(Skip(2))>>>>, FieldLists)
OtherFlacs == Flacs(<<NoLead>>, <<<<Skip(1), Final(Tag(1))>>>>, BrokenLists)
                \o Flacs(<<NoLead>>, <<<<Claims(Skip(1), 9), Final(Tag(1))>>,
                     <<Skip(0), Skip(0), Skip(0), Final(Tag(1))>>,
                     <<Final(Tag(MaxRead + 1))>>>>, FieldLists)
                \o <<[Flac(NoLead, <<Final(Tag(1))>>, FieldLists[2])
                         EXCEPT !.lead.size = 1]>>

(* MP4 *)

M4a(before, moov, children, after, tag) ==
    LET start == Extent(before, FALSE)
        inner == Extent(children, FALSE)
        end == start + moov.head + inner
        size == end + Extent(after, FALSE)
        body == IF moov.body = 0 THEN inner ELSE moov.body
    IN  File("m4a", "m4a", size,
             Place(before, 0, size, FALSE, FALSE)
               \union Place(<<[moov EXCEPT !.body = body]>>, start, size, FALSE, FALSE)
               \union Place(children, start + moov.head, end, TRUE, FALSE)
               \union Place(after, end, size, FALSE, FALSE), tag)
Moov == E("moov", 0)
M4as(outers, inners, tags) ==
    LET c == Cross(Cross(outers, inners), tags)
    IN  [i \in DOMAIN c |-> M4a(c[i][1][1][1], c[i][1][1][2], c[i][1][2],
                               c[i][1][1][3], c[i][2])]
Outers == <<<<<<Skip(1)>>, Moov, <<Wide(Skip(1))>>>>,
           <<<<Wide(Skip(1))>>, Wide(Moov), <<>>>>,
           <<<<>>, Open(Moov), <<>>>>, <<<<>>, Moov, <<Open(Skip(2))>>>>>>
Inners == <<<<Tag(1)>>, <<Skip(1), Wide(Tag(1))>>, <<Open(Tag(2))>>>>
SoundM4as == M4as(Outers, <<<<>>, <<Skip(1)>>>>, <<NoMp4>>)
               \o M4as(Outers, Inners, SoundMp4)
OneOuter == <<<<<<Skip(1)>>, Moov, <<Skip(1)>>>>>>
OtherM4as == M4as(OneOuter, <<<<Tag(1)>>>>, OtherMp4)
               \o M4as(OneOuter, <<<<Claims(Skip(1), 5), Tag(1)>>,
                     <<Claims(Skip(1), -1), Tag(1)>>, <<Tag(MaxRead + 1)>>,
                     <<Skip(0), Skip(0), Skip(0), Tag(1)>>>>, SoundMp4)
               \o M4as(<<<<<<Claims(Skip(1), 20)>>, Moov, <<>>>>,
                     <<<<Skip(0), Skip(0), Skip(0)>>, Moov, <<>>>>,
                     <<<<Open(Skip(1))>>, Moov, <<>>>>,
                     <<<<>>, Claims(Moov, 20), <<>>>>>>,
                           <<<<Tag(1)>>>>, SoundMp4)

(* ASF; the header object and one unit of audio *)

Wma(layout, count, tag) ==
    LET end == AsfHeader + Extent(layout, FALSE)
    IN  [File("wma", "wma", end + 1,
              Place(layout, AsfHeader, end, FALSE, FALSE), tag)
           EXCEPT !.headerSize = end, !.count = count]
Wmas(layouts, more, tags) ==
    LET c == Cross(layouts, tags)
    IN  [i \in DOMAIN c |-> Wma(c[i][1], Len(c[i][1]) + more, c[i][2])]
SoundWmas == Wmas(<<<<>>, <<Skip(1)>>>>, 0, <<<<>>>>)
               \o Wmas(<<<<Skip(1), Tag(2)>>, <<Tag(1), Skip(1)>>>>, 0, FieldLists)
OtherWmas == Wmas(<<<<Skip(1), Tag(1)>>>>, 0, BrokenLists)
               \o Wmas(<<<<Claims(Skip(1), 9), Tag(1)>>,
                     <<Claims(Skip(1), -1), Tag(1)>>, <<Tag(MaxRead + 1)>>,
                     <<Skip(0), Skip(0), Skip(0), Tag(1)>>>>, 0, FieldLists)
               \o Wmas(<<<<Skip(1)>>>>, 1, <<<<>>>>)
               \o <<[Wma(<<Tag(1)>>, 1, FieldLists[2]) EXCEPT !.headerSize = 1],
                    [Wma(<<Tag(1)>>, 1, FieldLists[2]) EXCEPT !.headerSize = 20]>>

(* ID3v2 tags at the start, or where a DSF file says *)

Leading(ext, format, layout, tag) ==
    File(ext, format, Extent(layout, FALSE) + 2,
         Place(layout, 0, Extent(layout, FALSE), FALSE, FALSE), tag)
Tagged(body, tags) == [i \in DOMAIN tags |-> Leading("mp3", "mp3", <<Tag(body)>>, tags[i])]
Dsf(layout, offset, tag) ==
    LET size == Header + 1 + Extent(layout, FALSE)
    IN  [File("dsf", "dsf", size, Place(layout, Header + 1, size, FALSE, FALSE), tag)
           EXCEPT !.offset = offset]
Dsfs(tags) == [i \in DOMAIN tags |-> Dsf(<<Tag(2)>>, Header + 1, tags[i])]
Aac(files) == [i \in DOMAIN files |-> [files[i] EXCEPT !.ext = "aac", !.format =
                  IF files[i].format = "mp3" THEN "adts" ELSE files[i].format]]
SoundLeading ==
    Tagged(2, SoundID3) \o Aac(Tagged(2, SoundID3))
      \o <<Leading("mp3", "mp3", <<>>, NoID3)>>
      \o Dsfs(SoundID3) \o <<Dsf(<<>>, 0, NoID3)>>
      \o Aac(M4as(OneOuter, <<<<Tag(1)>>>>, SoundMp4))
OtherLeading ==
    Tagged(2, OtherID3) \o Tagged(MaxRead + 1, SoundID3) \o Dsfs(OtherID3)
      \o <<Leading("aac", "adts", <<>>, NoID3)>>
      \o <<Dsf(<<>>, 9, NoID3), Dsf(<<Tag(1)>>, Header, NoID3)>>

-----------------------------------------------------------------------------
(* Ogg *)

C(size, rating) == [size |-> size, rating |-> rating, picture |-> FALSE]
Picture(size) == [size |-> size, rating |-> "none", picture |-> TRUE]

\* The comments of a list, behind the vendor string.
Placed(comments, vendor) ==
    [i \in DOMAIN comments |->
        LET before == SubSeq(comments, 1, i - 1)
            Length(list) == FoldLeft(LAMBDA n, c : n + U32 + c.size, 0, list)
        IN  [at |-> Prefix + 2 * U32 + vendor + Length(before),
             held |-> Length(SelectSeq(before, Keeps)), size |-> comments[i].size,
             rating |-> comments[i].rating, picture |-> comments[i].picture]]

\* A writer's lacing: full segments and what is left.
Laced(n) == [k \in 1..(n \div Lace) |-> Lace] \o <<n % Lace>>

Total(table) == FoldLeft(LAMBDA m, n : m + n, 0, table)

\* Pages that start after the segments in cuts; a cut at the end makes an
\* empty page.
Paged(table, cuts, offset) ==
    LET starts == {0} \union {c \in cuts : c <= Len(table)}
        End(s) == IF \E t \in starts : t > s
                  THEN CHOOSE t \in starts : t > s /\ \A u \in starts : u > s => t <= u
                  ELSE Len(table)
    IN  {[at |-> offset + s + Total(SubSeq(table, 1, s))
                   + Header * Cardinality({t \in starts : t < s}),
          first |-> s, lacing |-> SubSeq(table, s + 1, End(s))] : s \in starts}

\* The segments of packets of some lengths, on the pages that list them.
Segments(lengths, ps) ==
    LET packets == [i \in DOMAIN lengths |->
                       [k \in DOMAIN Laced(lengths[i]) |->
                           [packet |-> i, in |-> (k - 1) * Lace,
                            size |-> Laced(lengths[i])[k]]]]
        all == FlattenSeq(packets)
        Of(n) == CHOOSE p \in ps : p.first < n /\ n <= p.first + Len(p.lacing)
    IN  [n \in DOMAIN all |->
            [at |-> PageBody(Of(n)) + Total(SubSeq(Of(n).lacing, 1, n - Of(n).first - 1)),
             size |-> all[n].size, packet |-> all[n].packet, in |-> all[n].in]]

\* missing: units the comment packet is too short by; below 0, what it holds
\* behind its comments.
OggFile(codec, ident, vendor, comments, count, missing, cuts, empty) ==
    LET framing == IF codec = "vorbis" THEN 1 ELSE 0
        body == FoldLeft(LAMBDA a, c : a + U32 + c.size, 0, comments)
        length == Prefix + 2 * U32 + vendor + body + framing - missing
        \* A third packet follows.
        lengths == <<ident, length, 1>>
        table == Laced(ident) \o Laced(length) \o Laced(1)
        first == IF empty THEN {[at |-> 0, first |-> 0, lacing |-> <<>>]} ELSE {}
        ps == first \union Paged(table, cuts, IF empty THEN Header ELSE 0)
        last == CHOOSE p \in ps : \A q \in ps : q.at <= p.at
        size == last.at + Header + Len(last.lacing)
                  + Total(last.lacing)
    IN  [File("ogg", "ogg", size, {},
              [i \in DOMAIN comments |-> [rating |-> comments[i].rating, fits |-> TRUE]])
           EXCEPT !.pages = ps, !.segments = Segments(lengths, ps), !.codec = codec,
                  !.ident = ident, !.vendor = vendor, !.count = count,
                  !.comments = Placed(comments, vendor),
                  !.tooManyComments = Len(comments) > MaxComments]

CommentLists == <<<<>>, <<C(1, "whole")>>, <<Picture(2), C(2, "half")>>,
                 <<Picture(4), C(1, "whole")>>, <<C(0, "none")>>>>
Cuts == <<{}, {1}, {2, 4}>>
SoundOggs ==
    LET c == Cross(Cross(<<"vorbis", "opus">>, <<2, 3>>),
                   Cross(CommentLists, Cross(Cuts, <<FALSE, TRUE>>)))
    IN  [i \in DOMAIN c |->
            LET comments == c[i][2][1]
            IN  OggFile(c[i][1][1], c[i][1][2], 1, comments, Len(comments), 0,
                        c[i][2][2][1], c[i][2][2][2])]
          \o [vendor \in 1..2 |->
                OggFile("flac", 2, vendor, <<C(1, "whole")>>, 1, 0, {1, 2, 3, 4}, FALSE)]
          \o <<OggFile("opus", 2, 1, <<C(1, "whole")>>, 1, -5, {}, FALSE)>>
OtherOggs ==
    <<OggFile("vorbis", 2, 1, <<Picture(3), C(1, "none"), C(1, "whole")>>, 3,
             0, {}, FALSE),
     OggFile("vorbis", 2, 1, <<C(2, "none"), C(2, "none")>>, 2, 0, {}, FALSE),
     OggFile("opus", 2, 1, <<C(1, "whole")>>, 1, 1, {}, FALSE),
     OggFile("opus", 2, 1, <<C(1, "whole")>>, 1, 5, {}, FALSE),
     OggFile("vorbis", 2, 1, <<C(1, "whole")>>, 2, 0, {1}, FALSE),
     OggFile("opus", 2, 9, <<C(1, "whole")>>, 1, 9, {}, FALSE),
     OggFile("speex", 2, 1, <<C(1, "whole")>>, 1, 0, {}, FALSE),
     OggFile("opus", 5, 1, <<C(1, "whole")>>, 1, 0, {}, FALSE),
     OggFile("opus", 2, 1, <<C(2, "whole")>>, 1, 0, {1, 2, 3, 4, 5}, TRUE)>>
BrokenPage ==
    LET f == OggFile("opus", 2, 1, <<C(1, "whole")>>, 1, 0, {2}, FALSE)
    IN  [f EXCEPT !.pages = {p \in @ : p.at = 0}]

-----------------------------------------------------------------------------
\* A file under another name, and one that cannot be opened.
Renamed(f, ext) == [f EXCEPT !.ext = ext]
OneWav == Wav(<<Tag(1)>>, ID3(3, "none", <<Frm("whole")>>, FALSE))
Names == <<"mp3", "flac", "dsf", "wma", "ogg", "m4a", "aac", "txt">>
Misnamed == [i \in DOMAIN Names |-> Renamed(OneWav, Names[i])]
              \o <<[OneWav EXCEPT !.opens = FALSE]>>

SoundList == SoundWavs \o SoundFlacs \o SoundM4as
               \o SoundWmas \o SoundLeading \o SoundOggs
AllLayouts ==
    LET others == OtherWavs \o OtherFlacs \o OtherM4as \o OtherWmas
                    \o OtherLeading \o OtherOggs
    IN  SoundList \o others \o <<BrokenPage>> \o Misnamed
AllNames == 1..Len(AllLayouts)
SoundNames == 1..Len(SoundList)
CutWav == Wavs(<<<<Skip(2), Tag(1)>>>>, <<OneWav.tag>>)
=============================================================================
