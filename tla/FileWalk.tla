------------------------------ MODULE FileWalk ------------------------------
(***************************************************************************)
(* How nd-rating-sync gets from an audio file to a reading: the extractor  *)
(* of the file's extension walks the headers of the container, passes over *)
(* audio and cover art unread, and hands the part with the tags to the     *)
(* parser.  The file may be cut off, and may still be growing (a copy or a *)
(* download in progress) while it is read.  Ogg is in OggWalk.             *)
(*                                                                         *)
(* A file is what its writer makes of it: a set of entries (RIFF chunks,   *)
(* FLAC blocks, MP4 atoms, ASF objects, ID3v2 tags) with their offsets,    *)
(* declared sizes and the end of what they lie in.  Sizes are scaled down; *)
(* a header is two units, so that a cut can fall inside it.  A read that   *)
(* follows another without a look at the file's size in between is one     *)
(* step with it: the file only grows, so both see what the later one does. *)
(***************************************************************************)
EXTENDS TagRegions, FiniteSets

CONSTANTS
    Files,         \* names of the files there may be
    Sound,         \* those that are neither damaged nor past the limits
    Layout,        \* what the writer of each file makes of it
    MaxEntries,    \* maxContainerEntries
    MaxRead        \* maxMetadataReadBytes

VARIABLES
    name,          \* the file that is read
    written,       \* how much of it is on disk
    whole,         \* history: was it complete when it was opened?
    reader,        \* the format whose extractor is at work
    pc,            \* where the extractor is
    pos,           \* its offset in the file
    limit,         \* where the container it walks ends
    seen,          \* entries visited in this container
    reading        \* what the file was read as

vars == <<name, written, whole, reader, pc, pos, limit, seen, reading>>

\* The file as it is when complete.
file == Layout[name]

Header == 2          \* a header: 4 bytes of a FLAC block to 24 of an ASF object
AsfHeader == 3       \* asfHeaderObjectFixedSize

Entry == [at: Nat, head: {Header, 2 * Header},  \* an MP4 atom with a 64-bit size
          body: Int,             \* declared size without the header
          open: BOOLEAN,         \* an MP4 atom of size 0: it ends with its parent
          kind: {"tag", "moov", "skip"},
          last: BOOLEAN,         \* FLAC: the last metadata block
          inside: BOOLEAN,       \* MP4: a child of moov
          within: Nat]           \* where what it lies in ends

\* formats: which extractor reads which extension.
Formats == {"mp3", "flac", "ogg", "wav", "dsf", "m4a", "aac", "wma"}
Extractor == [ext \in Formats \union {"oga", "opus", "mp4"} |->
                CASE ext \in {"oga", "opus"} -> "ogg"
                  [] ext = "mp4" -> "m4a"
                  [] OTHER -> ext]
Supported(ext) == ext \in DOMAIN Extractor

\* Does the file hold a rating, wherever its writer put it?
Rated(f) ==
    CASE f.format \in {"mp3", "adts", "wav", "dsf"} -> Holds(f.tag.frames)
      [] f.format = "m4a" -> HoldsM4A(f.tag)
      [] f.format \in {"flac", "wma", "ogg"} -> Holds(f.tag)

-----------------------------------------------------------------------------
(* What a layout is: the offsets of its entries follow from their sizes.   *)
(* A damaged size does not fit where the entry lies, or is the size of     *)
(* what is there: a wrong one that fits looks right to any reader.         *)

Whole(e) == e.body >= 0 /\ e.at + e.head + e.body <= e.within

\* Where the entry behind e begins.
After(f, e) ==
    IF e.open THEN e.within
    ELSE e.at + e.head + e.body + IF f.format = "wav" THEN e.body % 2 ELSE 0

\* A flat list of entries: RIFF chunks, FLAC blocks, ASF objects.
FirstEntry(f) == CASE f.format = "wav" -> Header
                   [] f.format = "flac" -> f.start + Header
                   [] f.format = "wma" -> AsfHeader

InOrder(f) ==
    \A e, d \in {x \in f.entries : f.format = "m4a" => x.inside} :
        /\ e.at = d.at => e = d
        /\ e.at < d.at /\ (e.open \/ Whole(e)) => After(f, e) <= d.at
        /\ e.last => d.at <= e.at

Listed(f) ==
    f.format \in {"wav", "flac", "wma"} =>
        \A e \in f.entries :
            /\ e.at >= FirstEntry(f) /\ ~e.open /\ e.head = Header
            /\ f.format # "wma" => e.body >= 0
            /\ f.format = "wma" /\ f.headerSize \in AsfHeader..f.size =>
                   e.within = f.headerSize
            /\ f.format # "wma" => e.within = f.size

\* The children of moov lie in it.
Nested(f) ==
    f.format = "m4a" =>
        \A e, d \in f.entries :
            /\ ~e.inside => e.within = f.size
            /\ e.kind = "moov" /\ d.inside /\ (e.open \/ Whole(e)) =>
                 /\ e.at + e.head <= d.at
                 /\ d.within = IF e.open THEN f.size ELSE e.at + e.head + e.body

\* Entries lie side by side: where one ends the next begins, unless it was the
\* last one or too little is left for a header.
SideBySide(f) ==
    LET Begins(offset, inside) ==
            \E d \in f.entries : d.at = offset /\ d.inside = inside
        least(inside) == IF f.format = "m4a" /\ ~inside THEN 1 ELSE Header
        first == IF f.format = "m4a" THEN 0 ELSE FirstEntry(f)
        followed(e) == (f.format = "flac" => ~e.last)
                     /\ After(f, e) + least(e.inside) <= e.within
    IN  /\ f.format \in {"wav", "flac", "m4a"} /\ first + least(FALSE) <= f.size =>
               Begins(first, FALSE)
        /\ \A e \in f.entries : e.open \/ Whole(e) =>
             /\ followed(e) => Begins(After(f, e), e.inside)
             /\ e.kind = "moov" /\ e.at + e.head + Header <= After(f, e) =>
                    Begins(e.at + e.head, TRUE)

\* Where the tag is.
TagPlaced(f) ==
    /\ \A e \in f.entries : e.kind = "tag" =>
           /\ e.at + e.head <= e.within
           /\ e.inside <=> f.format = "m4a"
    /\ f.format # "ogg" /\ Rated(f) =>
           \E e \in f.entries :
              /\ e.kind = "tag"
              /\ f.format \in {"mp3", "adts"} => e.at = 0
              /\ f.format = "dsf" => f.offset # 0
              /\ f.format = "wma" =>
                     Cardinality({d \in f.entries : d.at < e.at}) < f.count

TagOf(f) ==
    CASE f.format \in {"mp3", "adts", "wav", "dsf"} -> f.tag \in SoundID3Tag
      [] f.format = "m4a" -> f.tag \in Udta
      [] f.format \in {"flac", "wma", "ogg"} -> f.tag \in Seq(Field)

LayoutOK(f) ==
    /\ {f.size, f.start, f.headerSize, f.count, f.offset, f.lead.size} \subseteq Nat
    /\ f.format \in Formats \union {"adts"}
    /\ f.entries \subseteq Entry /\ IsFiniteSet(f.entries)
    /\ TagOf(f) /\ InOrder(f) /\ Listed(f) /\ Nested(f) /\ SideBySide(f)
    /\ TagPlaced(f)

ASSUME FileAssumption ==
    /\ {MaxEntries, MaxRead} \subseteq Nat
    /\ \A n \in Files : LayoutOK(Layout[n])

-----------------------------------------------------------------------------
(* The end of a walk *)

rest == <<name, written, whole, reader, pos, limit, seen>>

Conclude(result) == pc' = "done" /\ reading' = result /\ UNCHANGED rest

Unreadable == Conclude("FileUnreadable")

\* The parser of the format, on what was extracted.
Parse(format, tag) ==
    CASE format \in {"mp3", "wav", "dsf"} -> RatingFromID3v2(tag)
      [] format = "m4a" -> RatingFromM4A(tag)
      [] format \in {"flac", "wma", "ogg"} -> RatingFromFields(tag)

OnDisk(offset) == offset <= written

\* Read the tag into memory, unless it is too large or cut off.
Take(e) ==
    LET end == pos + e.head + e.body
    IN  \/ (e.body > MaxRead \/ ~OnDisk(end)) /\ Unreadable
        \/ /\ e.body <= MaxRead /\ OnDisk(end)
           /\ Conclude(Parse(reader, file.tag))

\* Start walking entries at an offset, up to an end.
WalkFrom(offset, end, where) ==
    /\ pc' = where /\ pos' = offset /\ limit' = end /\ seen' = 0
    /\ UNCHANGED <<name, written, whole, reader, reading>>

\* Seek to the next entry.
SkipTo(offset) ==
    /\ pos' = offset /\ seen' = seen + 1
    /\ UNCHANGED <<name, written, whole, reader, pc, limit, reading>>

\* The entry whose header the extractor reads next.
EntriesAt(offset) == {e \in file.entries : e.at = offset}

Opening(format) == pc = "open" /\ reader = format
Walking(format) == pc = "walk" /\ reader = format

-----------------------------------------------------------------------------
Init ==
    /\ name \in Files
    /\ written \in 0..file.size
    /\ whole = (written = file.size)
    /\ reader = IF Supported(file.ext) /\ file.opens THEN Extractor[file.ext]
                ELSE "none"
    /\ pc = "open"
    /\ pos = 0 /\ limit = 0 /\ seen = 0
    /\ reading = "none"

\* The copy or the download goes on.
Grow ==
    /\ written < file.size /\ written' = written + 1
    /\ UNCHANGED <<name, whole, reader, pc, pos, limit, seen, reading>>

\* The extension is not supported, or os.Open fails.
NotOpened ==
    /\ pc = "open" /\ ~(Supported(file.ext) /\ file.opens)
    /\ Unreadable

\* A file too short for the first header, or with another magic.
BadStart ==
    /\ pc = "open" /\ reader \in {"flac", "wav", "dsf", "wma"}
    /\ \/ ~OnDisk(IF reader = "wma" THEN AsfHeader ELSE Header)
       \/ file.format # reader
    /\ Unreadable

\* Too many entries for one callback.
TooMany ==
    /\ seen >= MaxEntries
    /\ \/ pc = "walk" /\ reader \in {"wav", "flac"}
       \/ pc = "walk" /\ reader = "m4a" /\ pos < limit
       \/ pc = "moov" /\ pos + Header <= limit
    /\ Unreadable

-----------------------------------------------------------------------------
(* RIFF/WAVE: chunks of an even length, up to the end of the file *)

WavOpen ==
    /\ Opening("wav") /\ file.format = "wav" /\ OnDisk(Header)
    /\ WalkFrom(Header, written, "walk")

\* Fewer bytes than a header: every chunk was walked.
WavEnd ==
    /\ Walking("wav") /\ seen < MaxEntries /\ ~OnDisk(pos + Header)
    /\ Conclude("TagAbsent")

\* Mutant: the size of a chunk is not held against the file.
WavChunkUnchecked ==
    /\ Walking("wav") /\ seen < MaxEntries /\ OnDisk(pos + Header)
    /\ \E e \in EntriesAt(pos) :
          \/ e.kind = "tag" /\ Take(e)
          \/ e.kind = "skip" /\ SkipTo(pos + Header + e.body + (e.body % 2))

\* Mutant: chunks are not padded.
WavChunkUnpadded ==
    /\ Walking("wav") /\ seen < MaxEntries /\ OnDisk(pos + Header)
    /\ \E e \in EntriesAt(pos) :
          LET end == pos + Header + e.body
          IN  \/ end > limit /\ Unreadable
              \/ end <= limit /\ e.kind = "tag" /\ Take(e)
              \/ end <= limit /\ e.kind = "skip" /\ SkipTo(end)

WavChunk ==
    /\ Walking("wav") /\ seen < MaxEntries /\ OnDisk(pos + Header)
    /\ \E e \in EntriesAt(pos) :
          LET end == pos + Header + e.body
          IN  \/ end > limit /\ Unreadable
              \/ end <= limit /\ e.kind = "tag" /\ Take(e)
              \/ end <= limit /\ e.kind = "skip" /\ SkipTo(end + (e.body % 2))

-----------------------------------------------------------------------------
(* FLAC: an ID3v2 tag in front is passed over; the last block says so *)

\* A footer of v2.4 is not part of the tag's size.
LeadLength(lead) ==
    IF lead.size = 0 THEN 0
    ELSE lead.size + (IF lead.version = 4 /\ lead.footer THEN Header ELSE 0)

FlacOpen ==
    /\ Opening("flac") /\ file.format = "flac" /\ OnDisk(Header)
    /\ LET start == LeadLength(file.lead)
       IN  IF OnDisk(start + Header) /\ start = file.start
           THEN WalkFrom(start + Header, 0, "walk") ELSE Unreadable

FlacBlock ==
    /\ Walking("flac") /\ seen < MaxEntries
    /\ \/ ~OnDisk(pos + Header) /\ Unreadable
       \/ \E e \in EntriesAt(pos) :
            /\ OnDisk(pos + Header)
            /\ \/ e.kind = "tag" /\ Take(e)
               \/ e.kind = "skip" /\ e.last /\ Conclude("TagAbsent")
               \/ e.kind = "skip" /\ ~e.last /\ SkipTo(pos + Header + e.body)

-----------------------------------------------------------------------------
(* MP4: atoms, then the children of moov *)

\* readAtomHeader: the size of an atom that ends with its parent.
Size(e) == IF e.open THEN limit - pos ELSE e.head + e.body

Fits(e) == e.head <= Size(e) /\ Size(e) <= limit - pos

M4aOpen == Opening("m4a") /\ WalkFrom(0, written, "walk")

\* The end of the file and no moov atom.
NoMoov == Walking("m4a") /\ pos >= limit /\ Unreadable

Atoms(inside) == {e \in EntriesAt(pos) : e.inside = inside}

\* The header is cut off or the size does not fit; or this is no MP4 file,
\* and there is no moov whatever the atoms seem to be.
AtomRefused ==
    /\ reader = "m4a" /\ pc \in {"walk", "moov"} /\ seen < MaxEntries
    /\ pc = "walk" => pos < limit
    /\ pc = "moov" => pos + Header <= limit
    /\ \/ file.format # "m4a"
       \/ ~OnDisk(pos + Header)
       \/ \E e \in Atoms(pc = "moov") : ~OnDisk(pos + e.head) \/ ~Fits(e)
    /\ Unreadable

M4aAtom ==
    /\ Walking("m4a") /\ file.format = "m4a" /\ seen < MaxEntries /\ pos < limit
    /\ \E e \in Atoms(FALSE) :
          /\ OnDisk(pos + e.head) /\ Fits(e)
          /\ \/ /\ e.kind = "moov"
                /\ WalkFrom(pos + e.head, pos + Size(e), "moov")
             \/ e.kind = "skip" /\ SkipTo(pos + Size(e))

\* A moov walked to its end without a udta.
MoovEnd ==
    /\ pc = "moov" /\ pos + Header > limit
    /\ Conclude("TagAbsent")

MoovChild ==
    /\ pc = "moov" /\ seen < MaxEntries /\ pos + Header <= limit
    /\ \E e \in Atoms(TRUE) :
          /\ OnDisk(pos + e.head) /\ Fits(e)
          /\ \/ e.kind = "tag" /\ Take([e EXCEPT !.body = Size(e) - e.head])
             \/ e.kind = "skip" /\ SkipTo(pos + Size(e))

-----------------------------------------------------------------------------
(* ASF: the header object says how many objects it holds *)

WmaOpen ==
    /\ Opening("wma") /\ file.format = "wma" /\ OnDisk(AsfHeader)
    /\ LET fits == AsfHeader <= file.headerSize /\ OnDisk(file.headerSize)
       IN  \/ (~fits \/ file.count > MaxEntries) /\ Unreadable
           \/ /\ fits /\ file.count <= MaxEntries
              /\ WalkFrom(AsfHeader, file.headerSize, "walk")

WmaEnd == Walking("wma") /\ seen = file.count /\ Conclude("TagAbsent")

WmaObject ==
    /\ Walking("wma") /\ seen < file.count
    /\ \/ ~OnDisk(pos + Header) /\ Unreadable
       \/ EntriesAt(pos) = {} /\ Unreadable
       \/ \E e \in EntriesAt(pos) :
            LET end == pos + Header + e.body
                fits == e.body >= 0 /\ end <= limit
            IN  /\ OnDisk(pos + Header)
                /\ \/ ~fits /\ Unreadable
                   \/ fits /\ e.kind = "tag" /\ Take(e)
                   \/ fits /\ e.kind = "skip" /\ SkipTo(end)

-----------------------------------------------------------------------------
(* MP3, DSF and AAC: an ID3v2 tag at a known place *)

LeadingID3v2 ==
    IF file.format \in {"mp3", "adts"} THEN EntriesAt(0) ELSE {}

\* readID3v2Tag at the start of the file.
Mp3Tag ==
    /\ Opening("mp3")
    /\ \/ ~OnDisk(Header) /\ Unreadable
       \/ OnDisk(Header) /\ LeadingID3v2 = {} /\ Conclude("TagAbsent")
       \/ OnDisk(Header) /\ \E e \in LeadingID3v2 : Take(e)

\* The DSD header names the offset of the tag; 0 means there is none.
DsfHeader ==
    /\ Opening("dsf") /\ file.format = "dsf" /\ OnDisk(Header)
    /\ \/ file.offset = 0 /\ Conclude("TagAbsent")
       \/ file.offset >= written /\ file.offset # 0 /\ Unreadable
       \/ /\ file.offset < written /\ file.offset # 0
          /\ WalkFrom(file.offset, written, "walk")

DsfTag ==
    /\ Walking("dsf")
    /\ \/ (~OnDisk(pos + Header) \/ EntriesAt(pos) = {}) /\ Unreadable
       \/ OnDisk(pos + Header) /\ \E e \in EntriesAt(pos) : Take(e)

\* A .aac file is an ADTS stream with an ID3v2 tag in front, or an MP4.
AacSniff ==
    /\ Opening("aac")
    /\ LET tagged == OnDisk(Header) /\ LeadingID3v2 # {}
           mp4 == OnDisk(Header) /\ file.format = "m4a"
       IN  \/ ~tagged /\ ~mp4 /\ Unreadable
           \/ /\ tagged \/ mp4
              /\ reader' = IF tagged THEN "mp3" ELSE "m4a"
              /\ UNCHANGED <<name, written, whole, pc, pos, limit, seen,
                             reading>>

-----------------------------------------------------------------------------
Walk ==
    \/ NotOpened \/ BadStart \/ TooMany
    \/ WavOpen \/ WavEnd \/ WavChunk
    \/ FlacOpen \/ FlacBlock
    \/ M4aOpen \/ NoMoov \/ AtomRefused \/ M4aAtom \/ MoovEnd \/ MoovChild
    \/ WmaOpen \/ WmaEnd \/ WmaObject
    \/ Mp3Tag \/ DsfHeader \/ DsfTag \/ AacSniff

Next == Grow \/ Walk

Spec == Init /\ [][Next]_vars

-----------------------------------------------------------------------------
(* What a sound file is: nothing in the way of its tag is damaged, its tag *)
(* is of a kind the parser reads, and no limit is passed.                  *)

FieldsIntact(fields) == \A i \in DOMAIN fields : fields[i].fits

\* A search for a type comes to the first one, or to the end.
AtomsIntact(atoms, type) ==
    \/ \A i \in DOMAIN atoms : atoms[i].type # type /\ atoms[i].fits
    \/ \E i \in DOMAIN atoms :
          /\ atoms[i].type = type
          /\ \A j \in 1..i : atoms[j].fits /\ (atoms[j].type = type => j = i)

TagIntact(f) ==
    CASE f.format \in {"mp3", "adts", "wav", "dsf"} ->
           /\ f.tag.version \in {3, 4} /\ f.tag.extended # "broken"
           /\ \A i \in DOMAIN f.tag.frames :
                 f.tag.frames[i].fits
                   /\ ~(f.tag.frames[i].carrier /\ f.tag.frames[i].flagged)
      [] f.format = "m4a" ->
           /\ f.tag.style \in {"full", "quicktime"}
           /\ AtomsIntact(f.tag.udta, "meta") /\ AtomsIntact(f.tag.meta, "ilst")
           /\ FieldsIntact(f.tag.ilst)
      [] f.format \in {"flac", "wma", "ogg"} -> FieldsIntact(f.tag)

\* An entry lies in what it says it lies in, and a tag can be read at once.
EntryIntact(f, e) ==
    /\ e.within <= f.size /\ (e.open \/ Whole(e)) /\ e.at + e.head <= e.within
    /\ e.kind = "tag" =>
           MaxRead >= (IF e.open THEN e.within - e.at - e.head ELSE e.body)

\* The entries of one walk.
Level(f, inside) == {e \in f.entries : f.format = "m4a" => e.inside = inside}

Intact(f) ==
    /\ f.opens /\ Supported(f.ext) /\ Header <= f.size
    /\ IF Extractor[f.ext] = "aac" THEN f.format \in {"adts", "m4a"}
       ELSE f.format = Extractor[f.ext]
    /\ TagIntact(f) /\ \A e \in f.entries : EntryIntact(f, e)
    /\ \A inside \in BOOLEAN : Cardinality(Level(f, inside)) <= MaxEntries
    /\ f.format = "wav" => Cardinality(f.entries) < MaxEntries
    /\ f.format = "flac" =>
           /\ f.start = LeadLength(f.lead) /\ FirstEntry(f) + Header <= f.size
           /\ \A e \in f.entries : e.last \/ After(f, e) + Header <= f.size
    /\ f.format = "m4a" =>
           /\ \E e \in f.entries : e.kind = "moov" /\ ~e.inside
           /\ \A e, d \in Level(f, FALSE) :
                 e # d /\ e.at <= d.at => After(f, e) <= d.at
    /\ f.format = "wma" =>
           /\ f.headerSize \in AsfHeader..f.size
           /\ f.count <= MaxEntries /\ f.count <= Cardinality(f.entries)
           /\ f.entries # {} => \E e \in f.entries : e.at = FirstEntry(f)
    /\ f.format \in {"mp3", "adts", "dsf"} =>
           \A e \in f.entries : e.kind = "tag" /\ ~e.open
    /\ f.format = "dsf" /\ f.offset # 0 => \E e \in f.entries : e.at = f.offset
    /\ f.format = "adts" => \E e \in f.entries : e.at = 0

ASSUME SoundAssumption ==
    \A n \in Sound : Layout[n].format # "ogg" => Intact(Layout[n])

-----------------------------------------------------------------------------
(* Properties *)

TypeOK ==
    /\ name \in Files
    /\ written \in 0..file.size /\ whole \in BOOLEAN
    /\ reader \in Formats \union {"none"}
    /\ pc \in {"open", "walk", "moov", "ogg", "done"}
    /\ pos \in Nat /\ limit \in Nat /\ seen \in 0..MaxEntries
    /\ reading \in Results \union {"none"}
    /\ reading # "none" <=> pc = "done"

\* Files whose end is taken from their present size.
EndFromSize(f) ==
    f.format = "wav" \/ \E e \in f.entries : e.kind = "moov" /\ e.open

(* What the reader cannot know: how long a WAV file, or an MP4 whose moov  *)
(* runs to the end, is going to be; that a .mp3 file is something else     *)
(* (exports.go:60); Ogg comments behind the last one it walks.             *)
Blind ==
    \/ EndFromSize(file) /\ ~whole
    \/ reader = "mp3" /\ file.format \notin {"mp3", "adts"}
    \/ reader = "ogg" /\ file.tooManyComments

(* A file with a rating is never read as untagged, and one without is      *)
(* never read as rated, however it is damaged, cut off or growing while it *)
(* is read, but for Blind.  (exports.go:55-64, metadata.go:17-19.)         *)
NeverMisread ==
    /\ reading = "TagAbsent" => ~Rated(file) \/ Blind
    /\ reading \in {"TagFound", "TagNotWholeStar"} => Rated(file)

(* A file is untagged only when its container was read to a clean end and  *)
(* holds no rating tag; a file that is cut off is unreadable.              *)
(* (exports.go:55-60, wav.go:49-54.)                                       *)
OnlyCleanEndIsUntagged == reading = "TagAbsent" => ~Rated(file)

(* No walk loses its place: where it reads a header, one begins, however    *)
(* the sizes, the padding and the parents of the entries passed over add    *)
(* up.  (WAV, FLAC and MP4; a WMA or DSF file may point anywhere and is     *)
(* then unreadable.)                                                        *)
OnEntries ==
    /\ Walking("wav") /\ pos + Header <= limit => EntriesAt(pos) # {}
    /\ Walking("flac") /\ OnDisk(pos + Header) => EntriesAt(pos) # {}
    /\ Walking("m4a") /\ file.format = "m4a" /\ pos < limit => Atoms(FALSE) # {}
    /\ pc = "moov" /\ pos + Header <= limit => Atoms(TRUE) # {}

(* Care is not an excuse: a sound file that was complete when it was       *)
(* opened is read, whatever its layout.  (extractStarsFromFile.)           *)
SoundFilesAreRead ==
    reading = "FileUnreadable" /\ whole => name \notin Sound

=============================================================================
