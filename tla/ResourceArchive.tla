--------------------------- MODULE ResourceArchive ---------------------------
(***************************************************************************)
(* The layout of a resource archive: what BuildArchive writes where, and   *)
(* what the readers look for where (LoaderMain.cpp, ResourceStructs.cpp).  *)
(* Sizes and offsets are numbers of bytes.  A file is the set of pieces    *)
(* written to it; reading a range yields the pieces that lie in it.        *)
(***************************************************************************)
EXTENDS Integers, SequencesExt

CONSTANTS
  HeaderSize,   \* sizeof(ResourceHeader): 124 in the Eternal build, 128 if not packed
  EntrySize,    \* sizeof(ResourceEntry): 144
  Assets,       \* asset paths
  PathLength,   \* the length of each
  TypeString,   \* the type string of stream files
  TypeLength    \* its length

ASSUME LayoutAssumption ==
  /\ {HeaderSize, EntrySize, TypeLength} \subseteq Nat
  /\ PathLength \in [Assets -> Nat]
  /\ TypeString \notin Assets
  /\ HeaderSize % 4 = 0 /\ EntrySize % 4 = 0

SizeOfLong == 8

(* The sum of the first n sizes.                                           *)
SumTo(sizes, n) ==
  LET sum[k \in 0 .. n] == IF k = 0 THEN 0 ELSE sum[k - 1] + sizes[k] IN sum[n]

-----------------------------------------------------------------------------
(* StringTable: each string once, where it came first.                     *)

Names(modfiles) ==
  [k \in 1 .. 2 * Len(modfiles) |->
     IF k % 2 = 1 THEN TypeString ELSE modfiles[k \div 2].assetPath]

Table(names) ==
  LET table[k \in 0 .. Len(names)] ==
        IF k = 0 THEN <<>>
        ELSE IF names[k] \in Range(table[k - 1]) THEN table[k - 1]
        ELSE Append(table[k - 1], names[k])
  IN  table[Len(names)]

Terminated(s) == (IF s = TypeString THEN TypeLength ELSE PathLength[s]) + 1

Lengths(table) == [k \in DOMAIN table |-> Terminated(table[k])]
BlobSize(table) == SumTo(Lengths(table), Len(table))

(* The offset of a string in the blob.                                     *)
indexof(table, s) ==
  LET k == CHOOSE k \in DOMAIN table : table[k] = s
  IN  SumTo(Lengths(table), k - 1)

Padding(size) == (8 - (size % 8)) % 8

ChunkSize(table) == SizeOfLong + Len(table) * SizeOfLong + BlobSize(table)
StringTableSize(table) == ChunkSize(table) + Padding(ChunkSize(table))

-----------------------------------------------------------------------------
(* BuildArchive: header and entries.  There are no dependencies.           *)

Header(modfiles) ==
  LET n     == Len(modfiles)
      table == Table(Names(modfiles))
      strings == HeaderSize + n * EntrySize
      deps  == strings + StringTableSize(table)
      idcl  == deps + 2 * n * SizeOfLong
  IN  [numResources |-> n, numStringIndices |-> 2 * n,
       resourceEntriesOffset |-> HeaderSize,
       stringTableOffset |-> strings, stringTableSize |-> StringTableSize(table),
       resourceDepsOffset |-> deps,
       idclOffset |-> idcl, idclSize |-> IF idcl % 8 = 0 THEN 8 ELSE 4,
       dataOffset |-> idcl + (IF idcl % 8 = 0 THEN 8 ELSE 4)]

(* Faulty variant: an offset that is aligned already takes no further      *)
(* bytes, and one that is not is rounded down.                             *)
AlignDown(offset) == offset - (offset % 8)
Align(offset) == offset + 8 - (offset % 8)

(* The running offset after so many blocks.                                *)
DataOffsets(modfiles) ==
  LET offset[k \in 0 .. Len(modfiles)] ==
        IF k = 0 THEN Header(modfiles).dataOffset
        ELSE Align(offset[k - 1] + modfiles[k].dataLength)
  IN  offset

Entries(modfiles) ==
  [k \in DOMAIN modfiles |->
     [strings |-> 2 * (k - 1), dataOffset |-> DataOffsets(modfiles)[k - 1],
      dataSize |-> modfiles[k].dataLength]]

StringIndex(modfiles) ==
  [k \in DOMAIN Names(modfiles) |-> indexof(Table(Names(modfiles)), Names(modfiles)[k])]

(* The pieces before the data, one after the other, then each block where  *)
(* its entry has it.                                                       *)
Piece(part, k) == [part |-> part, number |-> k]

Pieces(modfiles) ==
  LET h     == Header(modfiles)
      table == Table(Names(modfiles))
      pad   == Padding(ChunkSize(table))
  IN  << [what |-> Piece("header", 0), size |-> HeaderSize],
         [what |-> Piece("entries", 0), size |-> h.numResources * EntrySize],
         [what |-> Piece("numStrings", 0), size |-> SizeOfLong],
         [what |-> Piece("offsets", 0), size |-> Len(table) * SizeOfLong],
         [what |-> Piece("blob", 0),
          size |-> h.stringTableSize - SizeOfLong - SizeOfLong * Len(table) - pad],
         [what |-> Piece("padding", 0), size |-> pad],
         [what |-> Piece("stringIndex", 0), size |-> h.numStringIndices * SizeOfLong],
         [what |-> Piece("IDCL", 0), size |-> 4],
         [what |-> Piece("idcl padding", 0), size |-> h.idclSize - 4] >>

Blocks(modfiles) ==
  LET pieces == Pieces(modfiles)
      data   == Entries(modfiles)
      sizes  == [k \in DOMAIN pieces |-> pieces[k].size]
  IN  {[start |-> SumTo(sizes, k - 1), end |-> SumTo(sizes, k), what |-> pieces[k].what] :
         k \in DOMAIN pieces}
      \cup
      {[start |-> data[k].dataOffset, end |-> data[k].dataOffset + data[k].dataSize,
        what |-> Piece("data", k)] : k \in DOMAIN data}

(* Nothing is written for a piece of no size.                              *)
Written(modfiles) == {w \in Blocks(modfiles) : w.start < w.end}

BuildArchive(modfiles) ==
  [header |-> Header(modfiles), entries |-> Entries(modfiles),
   stringIndex |-> StringIndex(modfiles), numStrings |-> Len(Table(Names(modfiles))),
   file |-> Written(modfiles)]

-----------------------------------------------------------------------------
(* Reading.                                                                *)

FileLength(file) == CHOOSE n \in {w.end : w \in file} : \A w \in file : w.end <= n

(* What is read of a file from start to before end: the pieces there, and  *)
(* whether they are whole and there are enough of them.                    *)
Read(file, start, end) ==
  LET there == {w \in file : w.start < end /\ start < w.end}
  IN  [pieces |-> {w.what : w \in there},
       whole  |-> /\ \A w \in there : start <= w.start /\ w.end <= end
                  /\ start < end => end <= FileLength(file)]

ReadsPiece(file, start, size, what) ==
  Read(file, start, start + size)
    = [pieces |-> IF size > 0 THEN {what} ELSE {}, whole |-> TRUE]

(* Get_EntryData, from the data that Read_ResourceArchive keeps.           *)
Get_EntryData(a, k) ==
  LET e == a.entries[k]
      start == a.header.dataOffset + (e.dataOffset - a.header.dataOffset)
  IN  Read(a.file, start, start + e.dataSize)

(* GetContainerMaskHash: the hash of all from the header's end to IDCL.    *)
(* Faulty variant: IDCL is forgotten.                                      *)
MaskEndBeforeIDCL(h) == h.resourceDepsOffset + h.numStringIndices * SizeOfLong
MaskEnd(h) == h.resourceDepsOffset + h.numStringIndices * SizeOfLong + 4

GetContainerMaskHash(a) ==
  [hash |-> Read(a.file, HeaderSize, MaskEnd(a.header)),
   numResources |-> a.header.numResources]

-----------------------------------------------------------------------------
(* Read_ResourceArchive finds what BuildArchive wrote, and for every       *)
(* resource exactly its data.                                              *)
ReadsBack(a) ==
  LET h == a.header
      offsets == h.stringTableOffset + SizeOfLong
      block   == offsets + a.numStrings * SizeOfLong
  IN  /\ ReadsPiece(a.file, h.resourceEntriesOffset, h.numResources * EntrySize,
                    Piece("entries", 0))
      /\ ReadsPiece(a.file, h.stringTableOffset, SizeOfLong, Piece("numStrings", 0))
      /\ ReadsPiece(a.file, offsets, a.numStrings * SizeOfLong, Piece("offsets", 0))
      /\ LET block_ == Read(a.file, block, h.stringTableOffset + h.stringTableSize)
         IN  block_.whole /\ Piece("blob", 0) \in block_.pieces
      /\ ReadsPiece(a.file, h.resourceDepsOffset, h.numStringIndices * SizeOfLong,
                    Piece("stringIndex", 0))
      /\ \A k \in DOMAIN a.entries :
           LET data == Get_EntryData(a, k) IN
           a.entries[k].dataSize > 0 =>
             data = [pieces |-> {Piece("data", k)}, whole |-> TRUE]

(* The data starts on 8 bytes, and so does every block of it.              *)
Aligned(a) ==
  /\ a.header.dataOffset % 8 = 0
  /\ \A k \in DOMAIN a.entries : a.entries[k].dataOffset % 8 = 0

(* What Audit_ResourceArchive asserts of the string indices.               *)
StringsInBounds(a) ==
  \A k \in DOMAIN a.stringIndex : a.stringIndex[k] < a.numStrings
=============================================================================
