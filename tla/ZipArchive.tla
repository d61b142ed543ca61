----------------------------- MODULE ZipArchive -----------------------------
(***************************************************************************)
(* The zip plugin, zip/index.ts: what zip() writes, and what unzip() makes *)
(* of it. An archive is the sequence of its records, each with its width   *)
(* in bytes, so that a record is found where an offset says it begins and  *)
(* nowhere else. The format's 16 and 32 bit fields are narrower here, with *)
(* records to scale: what matters is what reaches their limits.            *)
(***************************************************************************)
EXTENDS Integers, Sequences, SequencesExt

MAX_UINT16 == 4
MAX_UINT32 == 24
Field16(value) == value % (MAX_UINT16 + 1)
Field32(value) == value % (MAX_UINT32 + 1)

LOCAL_HEADER_SIZE == 2
DESCRIPTOR_SIZE == 1
CENTRAL_RECORD_SIZE == 3
EOCD_SIZE == 1

\* A name has a length, and a path that could be a key, or could not. A file
\* has a content (its CRC tells it from others), and its size as it is and deflated.
Safe(name) == name.sound /\ name.length <= MAX_UINT16
Width(file, method) == IF method = "store" THEN file.size ELSE file.deflated

(***************************************************************************)
(* zip(): the archive so far, and whether it had to be given up.           *)
(***************************************************************************)

\* entries: pairs of a name and the file that its key holds.
Resolves(entries) ==
    /\ Len(entries) < MAX_UINT16
    /\ \A i \in DOMAIN entries : Safe(entries[i].name)
    /\ \A i, j \in DOMAIN entries : i # j => entries[i].name # entries[j].name

Fits(value) == value < MAX_UINT32

LocalHeader(name) ==
    [sig |-> "local", width |-> LOCAL_HEADER_SIZE + name.length,
     nameLength |-> Field16(name.length)]
Body(file, method) ==
    [sig |-> "body", width |-> Width(file, method), content |-> file.content, form |-> method]
DataDescriptor == [sig |-> "descriptor", width |-> DESCRIPTOR_SIZE]

CentralRecord(entry, method, offset) ==
    [sig |-> "central", width |-> CENTRAL_RECORD_SIZE + entry.name.length, name |-> entry.name,
     nameLength |-> Field16(entry.name.length), method |-> method, crc |-> entry.file.content,
     compressedSize |-> Field32(Width(entry.file, method)), size |-> Field32(entry.file.size),
     localOffset |-> Field32(offset)]
EndOfCentralDirectory(count, offset) ==
    [sig |-> "eocd", width |-> EOCD_SIZE, count |-> Field16(count), offset |-> Field32(offset)]

Nothing == [chunks |-> <<>>, central |-> <<>>, offset |-> 0, fits |-> TRUE]

\* One entry: the stream fails as soon as something does not fit.
WriteEntry(method, zip, entry) ==
    LET header == LocalHeader(entry.name)
        body == Body(entry.file, method)
    IN  IF ~zip.fits THEN zip
        ELSE [chunks |-> zip.chunks \o <<header, body, DataDescriptor>>,
              central |-> Append(zip.central, CentralRecord(entry, method, zip.offset)),
              offset |-> zip.offset + header.width + body.width + DESCRIPTOR_SIZE,
              fits |-> Fits(entry.file.size) /\ Fits(body.width)]

ZipChunks(entries, method) ==
    LET written == FoldLeft(LAMBDA zip, entry : WriteEntry(method, zip, entry), Nothing, entries)
    IN  IF ~Resolves(entries) THEN [error |-> TRUE, chunks |-> <<>>]
        ELSE IF ~written.fits \/ ~Fits(written.offset)
          THEN [error |-> TRUE, chunks |-> written.chunks]
        ELSE [error |-> FALSE,
              chunks |-> Append(written.chunks \o written.central,
                           EndOfCentralDirectory(Len(written.central), written.offset))]

(***************************************************************************)
(* unzip(): the uploads it makes, and whether it throws after them.        *)
(***************************************************************************)

Begins(chunks, i) == FoldLeft(LAMBDA sum, c : sum + c.width, 0, SubSeq(chunks, 1, i - 1))
At(chunks, offset, sig) ==
    {chunks[i] : i \in {i \in DOMAIN chunks : chunks[i].sig = sig /\ Begins(chunks, i) = offset}}

\* The records of the directory, each where the one before it ends; count of them. No
\* body holds the signature of an end record, and nothing follows that record.
ParseCentralDirectory(chunks) ==
    LET eocd == chunks[Len(chunks)]
        Next(dir, i) ==
            LET found == At(chunks, dir.at, "central")
                record == CHOOSE r \in found : TRUE
            IN  IF dir.error \/ found = {} THEN [dir EXCEPT !.error = TRUE]
                ELSE [entries |-> Append(dir.entries, record),
                      at |-> dir.at + CENTRAL_RECORD_SIZE + record.nameLength,
                      error |-> MAX_UINT32 \in {record.compressedSize, record.size}]
    IN  IF \/ chunks = <<>> \/ eocd.sig # "eocd"
           \/ eocd.count = MAX_UINT16 \/ eocd.offset = MAX_UINT32
          THEN [entries |-> <<>>, error |-> TRUE]
        ELSE FoldLeft(Next, [entries |-> <<>>, at |-> eocd.offset, error |-> FALSE],
                      [i \in 1 .. eocd.count |-> i])

\* What lies between two offsets, if it is a body and all of it.
Slice(chunks, start, width) ==
    {c \in At(chunks, start, "body") : c.width = width}

\* The body that an entry names, if it can be decoded and is what the directory says.
ExtractEntry(chunks, entry, sizes) ==
    {c \in UNION {Slice(chunks, entry.localOffset + LOCAL_HEADER_SIZE + header.nameLength,
                        entry.compressedSize) :
                     header \in At(chunks, entry.localOffset, "local")} :
        /\ c.form = entry.method
        /\ sizes[c.content] = entry.size
        /\ c.content = entry.crc}

Unzip(chunks, sizes) ==
    LET dir == ParseCentralDirectory(chunks)
        Extract(done, entry) ==
            LET found == ExtractEntry(chunks, entry, sizes)
            IN  IF done.error \/ ~Safe(entry.name) \/ found = {} THEN [done EXCEPT !.error = TRUE]
                ELSE [done EXCEPT !.uploads = Append(@,
                        [name |-> entry.name, content |-> (CHOOSE c \in found : TRUE).content])]
    IN  IF dir.error THEN [uploads |-> <<>>, error |-> TRUE]
        ELSE FoldLeft(Extract, [uploads |-> <<>>, error |-> FALSE], dir.entries)

(***************************************************************************)
(* Every selection of up to two of these files under these names, of three *)
(* or four small ones, stored and deflated.                                *)
(***************************************************************************)

ZipNames == {[path |-> "a", length |-> 1, sound |-> TRUE],
             [path |-> "b", length |-> 2, sound |-> TRUE],
             [path |-> "c", length |-> MAX_UINT16, sound |-> TRUE],
             [path |-> "d", length |-> 1, sound |-> TRUE],
             [path |-> "long", length |-> MAX_UINT16 + 1, sound |-> TRUE],
             [path |-> "..", length |-> 2, sound |-> FALSE]}

Sizes == [empty |-> 0, text |-> 4, twin |-> 4, noise |-> 3, most |-> MAX_UINT32 - 1,
          dense |-> MAX_UINT32 - 1, huge |-> MAX_UINT32]
Deflated == [empty |-> 1, text |-> 2, twin |-> 2, noise |-> 4, most |-> 5,
             dense |-> MAX_UINT32, huge |-> 5]
ZipFile(content) == [content |-> content, size |-> Sizes[content], deflated |-> Deflated[content]]

EntriesOf(contents) == [name : ZipNames, file : {ZipFile(c) : c \in contents}]
Selections == UNION {[1 .. n -> EntriesOf(DOMAIN Sizes)] : n \in 0 .. 2}
                \cup [1 .. 3 -> EntriesOf({"empty", "text"})] \cup [1 .. 4 -> EntriesOf({"empty"})]
Methods == {"store", "deflate"}

Written(entries) == [i \in DOMAIN entries |->
                       [name |-> entries[i].name, content |-> entries[i].file.content]]

\* What zip() finishes, unzip() reads back: every entry, in order.
ASSUME ArchivesReadBack ==
    \A entries \in Selections, method \in Methods :
        LET zip == ZipChunks(entries, method)
        IN  zip.error \/ Unzip(zip.chunks, Sizes) = [uploads |-> Written(entries), error |-> FALSE]

\* zip() refuses what a field could not hold, or would hold as the mark of ZIP64, and
\* names that are no keys or not their own; nothing else. (The size of the directory has
\* a field too, which is never checked, and which unzip() never reads.)
DataEnd(entries, method) ==
    FoldLeft(LAMBDA sum, e : sum + LOCAL_HEADER_SIZE + e.name.length + Width(e.file, method)
                               + DESCRIPTOR_SIZE, 0, entries)
Beyond(entries, method) ==
    \/ Len(entries) >= MAX_UINT16
    \/ DataEnd(entries, method) >= MAX_UINT32
    \/ \E i \in DOMAIN entries : \/ entries[i].file.size >= MAX_UINT32
                                 \/ ~entries[i].name.sound
                                 \/ entries[i].name.length > MAX_UINT16
                                 \/ \E j \in 1 .. i - 1 : entries[j].name = entries[i].name

ASSUME OnlyWhatCannotBeHeldIsRefused ==
    \A entries \in Selections, method \in Methods :
        ZipChunks(entries, method).error <=> Beyond(entries, method)

\* A stream that ended early, refused or cancelled, is no archive: unzip() uploads
\* nothing of it.
ASSUME NoPartIsAnArchive ==
    \A entries \in Selections, method \in Methods :
        LET chunks == ZipChunks(entries, method).chunks
            ends == IF ZipChunks(entries, method).error THEN Len(chunks) ELSE Len(chunks) - 1
        IN  \A n \in 0 .. ends :
              Unzip(SubSeq(chunks, 1, n), Sizes) = [uploads |-> <<>>, error |-> TRUE]

\* An archive with any one number in its directory changed: whatever unzip() uploads
\* before it throws, if it does, was zipped under that name.
Numbers == [compressedSize |-> 0 .. MAX_UINT32, size |-> 0 .. MAX_UINT32,
            localOffset |-> 0 .. MAX_UINT32, nameLength |-> 0 .. MAX_UINT16,
            method |-> Methods, crc |-> DOMAIN Sizes,
            count |-> 0 .. MAX_UINT16, offset |-> 0 .. MAX_UINT32]
Changes(chunk) == UNION {{[chunk EXCEPT ![f] = v] : v \in Numbers[f]} :
                            f \in DOMAIN Numbers \cap DOMAIN chunk}

ASSUME ChangesAreCaught ==
    \A entries \in UNION {[1 .. n -> EntriesOf({"empty", "text", "twin"})] : n \in 1 .. 2} :
    \A method \in Methods :
        LET zip == ZipChunks(entries, method)
        IN  zip.error \/ \A i \in DOMAIN zip.chunks : zip.chunks[i].sig \in {"central", "eocd"} =>
              \A changed \in Changes(zip.chunks[i]) :
                LET uploads == Unzip([zip.chunks EXCEPT ![i] = changed], Sizes).uploads
                IN  \A k \in DOMAIN uploads :
                      \E j \in DOMAIN entries : uploads[k] = Written(entries)[j]
=============================================================================
