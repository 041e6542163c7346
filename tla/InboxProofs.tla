----------------------------- MODULE InboxProofs -----------------------------
(***************************************************************************)
(* What is written to a message is read back from it, for every payload    *)
(* whose lengths fit their byte; and what the main thread takes from a     *)
(* connection is what its peer said, for every set of connections and      *)
(* every conversation.  Both hold for every size of bytes, words and       *)
(* hashes.                                                                 *)
(*                                                                         *)
(* The codec comes first.  One fact carries it: reading takes off the end  *)
(* of a body exactly what was appended last (LastIsRead).  It is used once *)
(* for each part of a payload, from its last part to its first.            *)
(*                                                                         *)
(* Then the conversation.  Every message is somewhere: taken, in the       *)
(* queue, in pieces between m_forming_in_message and the stream, or on the *)
(* stream.  The invariant says for each connection how many were pushed,   *)
(* where in the shared queue they are, and at which offset of the stream   *)
(* each of the others begins.                                              *)
(***************************************************************************)
EXTENDS Inbox, TLAPS

(* The payloads whose lengths fit their byte. *)
SizeIsTrue(file) == file.nameSize = Len(file.name)
FitsByte(code) == Len(code) < ByteModulus

Code == {code \in Bytes : FitsByte(code)}
NamedFile == {file \in FileData : SizeIsTrue(file)}

PayloadOf(id) ==
    CASE id \in Metadata -> [type : Byte, code : Code, file : NamedFile]
      [] id = "Accept"   -> [type : Byte, maxChunkSize : Word, code : Code, file : NamedFile]
      [] id = "Receive"  -> [code : Code]
      [] id = "Chunk"    -> [data : Bytes, hash : Hash]
      [] OTHER           -> [empty : Byte]

-----------------------------------------------------------------------------
(* Sequences in two parts. *)

LEMMA SecondPart ==
    ASSUME NEW a \in Bytes, NEW b \in Bytes
    PROVE  /\ a \o b \in Bytes /\ Len(a \o b) = Len(a) + Len(b)
           /\ SubSeq(a \o b, 1, Len(a)) = a
           /\ SubSeq(a \o b, Len(a) + 1, Len(a) + Len(b)) = b
<1>1. a \o b \in Bytes /\ Len(a \o b) = Len(a) + Len(b) /\ Len(a) \in Nat /\ Len(b) \in Nat
  BY DEF Bytes
<1>2. SubSeq(a \o b, 1, Len(a)) = a
  BY DEF Bytes
<1>3. SubSeq(a \o b, Len(a) + 1, Len(a) + Len(b)) = b
  BY DEF Bytes
<1> QED
  BY <1>1, <1>2, <1>3

LEMMA NoZeros == ASSUME NEW b \in Bytes PROVE b \o Zeros(0) = b
<1>1. Zeros(0) = <<>>
  BY DEF Zeros
<1> QED
  BY <1>1 DEF Bytes

(* operator>> takes off the end what operator<< appended, into a value or  *)
(* into a container of the right size.                                     *)
LEMMA LastIsRead ==
    ASSUME NEW a \in Bytes, NEW b \in Bytes
    PROVE  LET m == Whole(a \o b) IN
           /\ Value(m, Len(b)) = b /\ AfterValue(m, Len(b)) = Whole(a)
           /\ Contents(m, Len(b)) = b /\ AfterContents(m, Len(b)) = Whole(a)
<1> DEFINE m == Whole(a \o b)
<1>1. m.body = a \o b /\ Len(m.body) = Len(a) + Len(b) /\ Len(a) \in Nat /\ Len(b) \in Nat
  BY SecondPart DEF Whole, Bytes
<1>2. Len(b) <= Len(m.body) /\ Len(m.body) - Len(b) = Len(a)
      /\ Len(m.body) - Len(b) + 1 = Len(a) + 1
  BY <1>1
<1>3. LastBytes(m, Len(b)) = b
  BY <1>1, <1>2, SecondPart DEF LastBytes
<1>4. WithoutLast(m, Len(b)) = Whole(a)
  <2>1. SubSeq(m.body, 1, Len(m.body) - Len(b)) = a
    BY <1>1, <1>2, SecondPart
  <2>2. m = [body |-> a \o b, inside |-> TRUE] /\ Whole(a) = [body |-> a, inside |-> TRUE]
    BY DEF Whole
  <2> HIDE DEF m
  <2>3. WithoutLast(m, Len(b)) = [m EXCEPT !.body = a]
    BY <2>1 DEF WithoutLast
  <2> QED
    BY <2>2, <2>3
<1>5. Available(m, Len(b)) = Len(b) /\ Len(b) - Available(m, Len(b)) = 0
  BY <1>1, <1>2 DEF Available
<1>6. Value(m, Len(b)) = b /\ AfterValue(m, Len(b)) = Whole(a)
  BY <1>2, <1>3, <1>4 DEF Value, AfterValue
<1>7. Contents(m, Len(b)) = b /\ AfterContents(m, Len(b)) = Whole(a)
  BY <1>3, <1>4, <1>5, NoZeros DEF Contents, AfterContents
<1> QED
  BY <1>6, <1>7

(* The same for a value of one byte. *)
LEMMA LastByteIsRead ==
    ASSUME NEW a \in Bytes, NEW x \in Byte
    PROVE  LET m == Whole(a \o <<x>>) IN
           Value(m, 1) = <<x>> /\ Value(m, 1)[1] = x /\ AfterValue(m, 1) = Whole(a)
<1>1. <<x>> \in Bytes /\ Len(<<x>>) = 1 /\ <<x>>[1] = x
  BY DEF Bytes
<1> QED
  BY <1>1, LastIsRead

LEMMA WordLengthIs ==
    /\ \A w \in Word : w \in Bytes /\ Len(w) = WordLength
    /\ \A h \in Hash : h \in Bytes /\ Len(h) = HashLength
  BY WidthAssumption DEF Word, Hash, Bytes

-----------------------------------------------------------------------------
(* The parts, behind whatever was written before them.                     *)

(* A phrase that fits is read back whole, and what was before it is left.  *)
LEMMA PhraseIsRead ==
    ASSUME NEW a \in Bytes, NEW code \in Bytes, FitsByte(code)
    PROVE  LET m == Whole(a \o PhraseBytes(code)) IN
           Phrase(m) = code /\ AfterPhrase(m) = Whole(a)
<1> DEFINE m == Whole(a \o PhraseBytes(code))
<1>1. SizeByte(code) = Len(code) /\ SizeByte(code) \in Byte
  <2>1. \A n \in Nat : n < ByteModulus => n % ByteModulus = n
    BY WidthAssumption
  <2>2. Len(code) \in Nat /\ Len(code) < ByteModulus
    BY DEF FitsByte, Bytes
  <2>3. SizeByte(code) = Len(code)
    BY <2>1, <2>2 DEF SizeByte
  <2> QED
    BY <2>2, <2>3, WidthAssumption DEF Byte
<1>2. a \o PhraseBytes(code) = (a \o code) \o <<SizeByte(code)>>
  BY <1>1 DEF PhraseBytes, Bytes
<1>3. a \o code \in Bytes
  BY SecondPart
<1>4. PhraseSize(m) = Len(code) /\ AfterValue(m, 1) = Whole(a \o code)
  BY <1>1, <1>2, <1>3, LastByteIsRead DEF PhraseSize
<1> QED
  BY <1>4, LastIsRead DEF Phrase, AfterPhrase

(* Of a file the numbers are read back, and when the name's size is true   *)
(* the name as well.                                                       *)
LEMMA FileIsRead ==
    ASSUME NEW a \in Bytes, NEW file \in FileData
    PROVE  LET m == Whole(a \o FileBytes(file)) IN
           /\ BeforeName(m) = Whole(a \o file.name) /\ NameSize(m) = file.nameSize
           /\ SizeIsTrue(file) => File(m) = file /\ AfterFile(m) = Whole(a)
<1> DEFINE m == Whole(a \o FileBytes(file))
<1>1. /\ file.name \in Bytes /\ file.nameSize \in Byte /\ file.size \in Bytes
      /\ Len(file.size) = WordLength
      /\ file = [size |-> file.size, nameSize |-> file.nameSize, name |-> file.name]
  BY WordLengthIs DEF FileData
<1>2. /\ a \o file.name \in Bytes /\ (a \o file.name) \o <<file.nameSize>> \in Bytes
      /\ a \o FileBytes(file) = ((a \o file.name) \o <<file.nameSize>>) \o file.size
  BY <1>1 DEF FileBytes, Bytes
<1>3. /\ Value(m, WordLength) = file.size
      /\ AfterValue(m, WordLength) = Whole((a \o file.name) \o <<file.nameSize>>)
  BY <1>1, <1>2, LastIsRead
<1>4. NameSize(m) = file.nameSize /\ BeforeName(m) = Whole(a \o file.name)
  <2>1. LET n == Whole((a \o file.name) \o <<file.nameSize>>) IN
        Value(n, 1)[1] = file.nameSize /\ AfterValue(n, 1) = Whole(a \o file.name)
    BY <1>1, <1>2, LastByteIsRead
  <2> HIDE DEF m
  <2> QED
    BY <1>3, <2>1 DEF NameSize, BeforeName
<1>5. ASSUME SizeIsTrue(file)
      PROVE  File(m) = file /\ AfterFile(m) = Whole(a)
  <2>1. /\ Contents(BeforeName(m), NameSize(m)) = file.name
        /\ AfterContents(BeforeName(m), NameSize(m)) = Whole(a)
    BY <1>1, <1>4, <1>5, LastIsRead DEF SizeIsTrue
  <2> QED
    BY <1>1, <1>3, <1>4, <2>1 DEF File, AfterFile
<1> QED
  BY <1>4, <1>5

LEMMA PhraseBytesAreBytes ==
    ASSUME NEW code \in Bytes
    PROVE  PhraseBytes(code) \in Bytes
<1>1. SizeByte(code) \in Byte
  <2>1. Len(code) \in Nat
    BY DEF Bytes
  <2> QED
    BY <2>1, WidthAssumption DEF SizeByte, Byte
<1> QED
  BY <1>1 DEF PhraseBytes, Bytes

LEMMA FileBytesAreBytes == \A file \in FileData : FileBytes(file) \in Bytes
<1> SUFFICES ASSUME NEW file \in FileData PROVE FileBytes(file) \in Bytes
  OBVIOUS
<1>1. file.name \in Bytes /\ file.nameSize \in Byte /\ file.size \in Bytes
  BY WordLengthIs DEF FileData
<1> QED
  BY <1>1 DEF FileBytes, Bytes

(* A file at the front of a body. *)
LEMMA FileAloneIsRead ==
    ASSUME NEW file \in FileData, SizeIsTrue(file)
    PROVE  /\ File(Whole(FileBytes(file))) = file
           /\ AfterFile(Whole(FileBytes(file))) = Whole(<<>>)
<1>1. <<>> \in Bytes /\ <<>> \o FileBytes(file) = FileBytes(file)
  BY FileBytesAreBytes DEF Bytes
<1> QED
  BY <1>1, FileIsRead

-----------------------------------------------------------------------------
(* The theorems.                                                           *)

(* A sender's or a receiver's PreMetadata: type and phrase come back, and  *)
(* the file too when the name's size is true.  A receiver, which leaves    *)
(* file_size and file_name_size uninitialised, is understood all the same. *)
THEOREM PreMetadataIsRead ==
    ASSUME NEW file \in FileData, NEW code \in Bytes, NEW type \in Byte, FitsByte(code)
    PROVE  LET p == [type |-> type, code |-> code, file |-> file]
               d == PreMetadata(Whole(PreMetadataBytes(p)))
           IN  /\ d.payload.type = type /\ d.payload.code = code
               /\ SizeIsTrue(file) => d.payload = p /\ d.left = Whole(<<>>)
<1> DEFINE p == [type |-> type, code |-> code, file |-> file]
           m == Whole(PreMetadataBytes(p))
           d == PreMetadata(m)
<1>1. FileBytes(file) \in Bytes /\ PhraseBytes(code) \in Bytes
  BY FileBytesAreBytes, PhraseBytesAreBytes
<1>2. FileBytes(file) \o PhraseBytes(code) \in Bytes
  BY <1>1, SecondPart
<1>3. PreMetadataBytes(p) = (FileBytes(file) \o PhraseBytes(code)) \o <<type>>
  BY DEF PreMetadataBytes
<1>4. Value(m, 1)[1] = type /\ AfterValue(m, 1) = Whole(FileBytes(file) \o PhraseBytes(code))
  BY <1>2, <1>3, LastByteIsRead
<1> HIDE DEF m
<1>5. Phrase(AfterValue(m, 1)) = code /\ AfterPhrase(AfterValue(m, 1)) = Whole(FileBytes(file))
  BY <1>1, <1>4, PhraseIsRead
<1>6. d = [payload |-> [type |-> type, code |-> code, file |-> File(Whole(FileBytes(file)))],
           left    |-> AfterFile(Whole(FileBytes(file)))]
  BY <1>4, <1>5 DEF PreMetadata
<1>7. SizeIsTrue(file) => /\ File(Whole(FileBytes(file))) = file
                          /\ AfterFile(Whole(FileBytes(file))) = Whole(<<>>)
  BY FileAloneIsRead
<1> QED
  BY <1>6, <1>7 DEF m

(* The server's PostMetadata: what Accept carries comes back. *)
THEOREM PostMetadataIsRead ==
    ASSUME NEW file \in FileData, SizeIsTrue(file), NEW code \in Bytes, FitsByte(code),
           NEW size \in Word, NEW type \in Byte
    PROVE  LET p == [type |-> type, maxChunkSize |-> size, code |-> code, file |-> file]
               d == PostMetadata(Whole(PostMetadataBytes(p)))
           IN  d.payload = p /\ d.left = Whole(<<>>)
<1> DEFINE p == [type |-> type, maxChunkSize |-> size, code |-> code, file |-> file]
           m == Whole(PostMetadataBytes(p))
           front == FileBytes(file) \o PhraseBytes(code)
           m1 == AfterValue(m, 1)
           m2 == AfterValue(m1, WordLength)
<1>1. /\ FileBytes(file) \in Bytes /\ PhraseBytes(code) \in Bytes
      /\ size \in Bytes /\ Len(size) = WordLength
  BY FileBytesAreBytes, PhraseBytesAreBytes, WordLengthIs
<1>2. front \in Bytes /\ front \o size \in Bytes
  BY <1>1, SecondPart
<1>3. PostMetadataBytes(p) = (front \o size) \o <<type>>
  BY DEF PostMetadataBytes
<1>4. Value(m, 1)[1] = type /\ m1 = Whole(front \o size)
  BY <1>2, <1>3, LastByteIsRead
<1> HIDE DEF m, m1
<1>5. Value(m1, WordLength) = size /\ m2 = Whole(front)
  BY <1>1, <1>2, <1>4, LastIsRead DEF m1
<1> HIDE DEF m2
<1>6. Phrase(m2) = code /\ AfterPhrase(m2) = Whole(FileBytes(file))
  BY <1>1, <1>5, PhraseIsRead
<1>7. /\ File(Whole(FileBytes(file))) = file
      /\ AfterFile(Whole(FileBytes(file))) = Whole(<<>>)
  BY FileAloneIsRead
<1>8. PostMetadata(m) = [payload |-> p, left |-> Whole(<<>>)]
  BY <1>4, <1>5, <1>6, <1>7 DEF PostMetadata, m1, m2
<1> QED
  BY <1>8 DEF m

(* A chunk of any length: hash and data are told apart by the hash's.      *)
THEOREM ChunkIsRead ==
    ASSUME NEW data \in Bytes, NEW hash \in Hash
    PROVE  LET p == [data |-> data, hash |-> hash]
               d == Chunk(Whole(ChunkBytes(p)))
           IN  d.payload = p /\ d.left = Whole(<<>>)
<1> DEFINE p == [data |-> data, hash |-> hash]
           m == Whole(ChunkBytes(p))
           m1 == AfterValue(m, HashLength)
<1>1. hash \in Bytes /\ Len(hash) = HashLength
  BY WordLengthIs
<1>2. Value(m, HashLength) = hash /\ m1 = Whole(data)
  <2>1. LET n == Whole(data \o hash) IN
        Value(n, Len(hash)) = hash /\ AfterValue(n, Len(hash)) = Whole(data)
    BY <1>1, LastIsRead
  <2>2. m = Whole(data \o hash)
    BY DEF ChunkBytes
  <2> QED
    BY <1>1, <2>1, <2>2
<1>3. <<>> \in Bytes /\ <<>> \o data = data
  BY DEF Bytes
<1>4. Contents(Whole(data), Len(data)) = data /\ AfterContents(Whole(data), Len(data)) = Whole(<<>>)
  <2>1. LET n == Whole(<<>> \o data) IN
        Contents(n, Len(data)) = data /\ AfterContents(n, Len(data)) = Whole(<<>>)
    BY <1>3, LastIsRead
  <2> QED
    BY <1>3, <2>1
<1>5. Whole(data).body = data
  BY DEF Whole
<1> HIDE DEF m, m1
<1>6. Chunk(m) = [payload |-> [hash |-> hash, data |-> data], left |-> Whole(<<>>)]
  BY <1>2, <1>4, <1>5 DEF Chunk, m1
<1> QED
  BY <1>6 DEF m

(* Whatever the message, what one end encodes the other decodes, and        *)
(* nothing of the message is left over.                                    *)
THEOREM PayloadsRoundTrip ==
    ASSUME NEW id, NEW p \in PayloadOf(id)
    PROVE  DecodeBody(id, EncodeBody(id, p)) = [payload |-> p, left |-> Whole(<<>>)]
<1>1. CASE id \in Metadata
  <2>1. p \in [type : Byte, code : Code, file : NamedFile]
    BY <1>1 DEF PayloadOf, Metadata
  <2>2. /\ p = [type |-> p.type, code |-> p.code, file |-> p.file]
        /\ p.type \in Byte /\ p.code \in Bytes /\ FitsByte(p.code)
        /\ p.file \in FileData /\ SizeIsTrue(p.file)
    BY <2>1 DEF Code, NamedFile
  <2>3. LET d == PreMetadata(Whole(PreMetadataBytes(p))) IN d.payload = p /\ d.left = Whole(<<>>)
    BY <2>2, PreMetadataIsRead
  <2>4. PreMetadata(Whole(PreMetadataBytes(p))) = [payload |-> p, left |-> Whole(<<>>)]
    BY <2>3 DEF PreMetadata
  <2> QED
    BY <1>1, <2>4 DEF EncodeBody, DecodeBody, Metadata
<1>2. CASE id = "Accept"
  <2>1. p \in [type : Byte, maxChunkSize : Word, code : Code, file : NamedFile]
    BY <1>2 DEF PayloadOf, Metadata
  <2>2. /\ p = [type |-> p.type, maxChunkSize |-> p.maxChunkSize, code |-> p.code, file |-> p.file]
        /\ p.type \in Byte /\ p.maxChunkSize \in Word /\ p.code \in Bytes /\ FitsByte(p.code)
        /\ p.file \in FileData /\ SizeIsTrue(p.file)
    BY <2>1 DEF Code, NamedFile
  <2>3. LET d == PostMetadata(Whole(PostMetadataBytes(p))) IN d.payload = p /\ d.left = Whole(<<>>)
    BY <2>2, PostMetadataIsRead
  <2>4. PostMetadata(Whole(PostMetadataBytes(p))) = [payload |-> p, left |-> Whole(<<>>)]
    BY <2>3 DEF PostMetadata
  <2> QED
    BY <1>2, <2>4 DEF EncodeBody, DecodeBody, Metadata
<1>3. CASE id = "Receive"
  <2>1. p = [code |-> p.code] /\ p.code \in Bytes /\ FitsByte(p.code)
    BY <1>3 DEF PayloadOf, Metadata, Code
  <2>2. <<>> \in Bytes /\ <<>> \o PhraseBytes(p.code) = PhraseBytes(p.code)
    BY <2>1, PhraseBytesAreBytes DEF Bytes
  <2>3. /\ Phrase(Whole(PhraseBytes(p.code))) = p.code
        /\ AfterPhrase(Whole(PhraseBytes(p.code))) = Whole(<<>>)
    BY <2>1, <2>2, PhraseIsRead
  <2> QED
    BY <1>3, <2>1, <2>3 DEF EncodeBody, DecodeBody, Metadata
<1>4. CASE id = "Chunk"
  <2>1. p = [data |-> p.data, hash |-> p.hash] /\ p.data \in Bytes /\ p.hash \in Hash
    BY <1>4 DEF PayloadOf, Metadata
  <2>2. LET d == Chunk(Whole(ChunkBytes(p))) IN d.payload = p /\ d.left = Whole(<<>>)
    BY <2>1, ChunkIsRead
  <2>3. Chunk(Whole(ChunkBytes(p))) = [payload |-> p, left |-> Whole(<<>>)]
    BY <2>2 DEF Chunk
  <2> QED
    BY <1>4, <2>3 DEF EncodeBody, DecodeBody, Metadata
<1>5. CASE id \notin Metadata \cup {"Accept", "Receive", "Chunk"}
  <2>1. p = [empty |-> p.empty] /\ p.empty \in Byte
    BY <1>5 DEF PayloadOf
  <2>2. <<>> \in Bytes /\ <<>> \o <<p.empty>> = <<p.empty>>
    BY <2>1 DEF Bytes
  <2>3. LET m == Whole(<<p.empty>>) IN Value(m, 1)[1] = p.empty /\ AfterValue(m, 1) = Whole(<<>>)
    BY <2>1, <2>2, LastByteIsRead
  <2> QED
    BY <1>5, <2>1, <2>3 DEF EncodeBody, DecodeBody
<1> QED
  BY <1>1, <1>2, <1>3, <1>4, <1>5

-----------------------------------------------------------------------------
(* Lengths that do not fit their byte. *)

(* A message read within bounds so far. *)
Sound(m) == m.body \in Bytes /\ m = Whole(m.body)

LEMMA ValueInside ==
    ASSUME NEW m, Sound(m), NEW n \in Nat, n <= Len(m.body)
    PROVE  /\ Sound(AfterValue(m, n)) /\ Len(AfterValue(m, n).body) = Len(m.body) - n
           /\ Len(m.body) \in Nat /\ \A i \in 1 .. n : Value(m, n)[i] \in Byte
<1>1. PICK b : b = m.body
  OBVIOUS
<1>2. b \in Seq(Byte) /\ Len(b) \in Nat /\ n <= Len(b) /\ m = [body |-> b, inside |-> TRUE]
  BY <1>1 DEF Sound, Whole, Bytes
<1>3. PICK k : k = Len(b) - n
  OBVIOUS
<1>4. k \in Nat /\ k <= Len(b)
  BY <1>2, <1>3
<1>5. SubSeq(b, 1, k) \in Seq(Byte) /\ Len(SubSeq(b, 1, k)) = k
  BY <1>2, <1>4
<1>6. AfterValue(m, n) = [body |-> SubSeq(b, 1, k), inside |-> TRUE]
  BY <1>2, <1>3 DEF AfterValue, WithoutLast
<1>7. ASSUME NEW i \in 1 .. n
      PROVE  Value(m, n)[i] \in Byte
  <2>1. Value(m, n) = SubSeq(b, k + 1, Len(b))
    BY <1>2, <1>3 DEF Value, LastBytes
  <2>2. SubSeq(b, k + 1, Len(b))[i] = b[k + i] /\ k + i \in 1 .. Len(b)
    BY <1>2, <1>3, <1>4
  <2>3. b[k + i] \in Byte
    BY <1>2, <2>2
  <2> QED
    BY <2>1, <2>2, <2>3
<1>8. Sound(AfterValue(m, n)) /\ Len(AfterValue(m, n).body) = k
  BY <1>5, <1>6 DEF Sound, Whole, Bytes
<1> QED
  BY <1>1, <1>2, <1>3, <1>7, <1>8

(* A container takes what there is. *)
LEMMA ContentsInside ==
    ASSUME NEW m, Sound(m), NEW n \in Nat
    PROVE  /\ Sound(AfterContents(m, n)) /\ Len(AfterContents(m, n).body) \in Nat
           /\ Len(AfterContents(m, n).body) = Len(m.body) - Available(m, n)
           /\ Available(m, n) \in Nat /\ Available(m, n) <= n
<1>1. PICK b, a : b = m.body /\ a = Available(m, n)
  OBVIOUS
<1>2. b \in Seq(Byte) /\ Len(b) \in Nat /\ m = [body |-> b, inside |-> TRUE]
  BY <1>1 DEF Sound, Whole, Bytes
<1>3. a \in Nat /\ a <= Len(b) /\ a <= n
  BY <1>1, <1>2 DEF Available
<1>4. PICK k : k = Len(b) - a
  OBVIOUS
<1>5. k \in Nat /\ k <= Len(b)
  BY <1>2, <1>3, <1>4
<1>6. SubSeq(b, 1, k) \in Seq(Byte) /\ Len(SubSeq(b, 1, k)) = k
  BY <1>2, <1>5
<1>7. AfterContents(m, n) = [body |-> SubSeq(b, 1, k), inside |-> TRUE]
  <2>1. AfterContents(m, n) = [m EXCEPT !.body = SubSeq(m.body, 1, Len(m.body) - a)]
    BY <1>1 DEF AfterContents, WithoutLast
  <2>2. m.body = b /\ Len(m.body) - a = k
    BY <1>1, <1>4
  <2>3. AfterContents(m, n) = [m EXCEPT !.body = SubSeq(b, 1, k)]
    BY <2>1, <2>2
  <2> QED
    BY <1>2, <2>3
<1>8. Sound(AfterContents(m, n)) /\ Len(AfterContents(m, n).body) = k
  BY <1>6, <1>7 DEF Sound, Whole, Bytes
<1> QED
  BY <1>1, <1>3, <1>4, <1>5, <1>8

(* A phrase leaves at least what was written before it. *)
LEMMA PhraseInside ==
    ASSUME NEW a \in Bytes, NEW code \in Bytes
    PROVE  LET m == AfterPhrase(Whole(a \o PhraseBytes(code))) IN
           Sound(m) /\ Len(m.body) \in Nat /\ Len(m.body) >= Len(a)
<1>1. PICK n : n = SizeByte(code)
  OBVIOUS
<1>2. Len(code) \in Nat /\ n \in Nat /\ n \in Byte /\ n <= Len(code)
  <2>1. PICK k : k = Len(code)
    OBVIOUS
  <2>2. k \in Nat /\ ByteModulus \in Nat \ {0}
    BY <2>1, WidthAssumption DEF Bytes
  <2>3. k % ByteModulus \in 0 .. ByteModulus - 1 /\ k % ByteModulus <= k
    <3>1. PICK r : r = k % ByteModulus
      OBVIOUS
    <3>2. r \in 0 .. ByteModulus - 1
      BY <2>2, <3>1
    <3>3. r <= k
      BY <2>2, <3>1
    <3> QED
      BY <3>1, <3>2, <3>3
  <2>4. n = k % ByteModulus
    BY <1>1, <2>1 DEF SizeByte
  <2> QED
    BY <2>1, <2>2, <2>3, <2>4 DEF Byte
<1>3. a \o code \in Bytes /\ Len(a \o code) = Len(a) + Len(code) /\ Len(a) \in Nat
  BY SecondPart DEF Bytes
<1>4. a \o PhraseBytes(code) = (a \o code) \o <<n>>
  BY <1>1, <1>2 DEF PhraseBytes, Bytes
<1>5. PICK c : c = a \o code
  OBVIOUS
<1>6. PICK m : m = Whole(c \o <<n>>)
  OBVIOUS
<1>7. PhraseSize(m) = n /\ AfterValue(m, 1) = Whole(c)
  BY <1>2, <1>3, <1>5, <1>6, LastByteIsRead DEF PhraseSize
<1>8. Sound(Whole(c)) /\ Whole(c).body = c
  BY <1>3, <1>5 DEF Sound, Whole
<1>9. PICK d : d = AfterContents(Whole(c), n)
  OBVIOUS
<1>10. PICK v : v = Available(Whole(c), n)
  OBVIOUS
<1>11. Sound(d) /\ Len(d.body) \in Nat /\ Len(d.body) = Len(c) - v /\ v \in Nat /\ v <= n
  BY <1>2, <1>8, <1>9, <1>10, ContentsInside
<1>12. Len(d.body) >= Len(a)
  BY <1>2, <1>3, <1>5, <1>11
<1>13. AfterPhrase(Whole(a \o PhraseBytes(code))) = d
  BY <1>4, <1>5, <1>6, <1>7, <1>9 DEF AfterPhrase
<1> QED
  BY <1>11, <1>12, <1>13

(* A file is read within bounds wherever its two numbers still are. *)
LEMMA FileInside ==
    ASSUME NEW m, Sound(m), Len(m.body) >= WordLength + 1
    PROVE  Sound(AfterFile(m))
<1>1. WordLength \in Nat /\ Len(m.body) \in Nat
  BY WidthAssumption DEF Sound, Bytes
<1>2. PICK w : w = AfterValue(m, WordLength)
  OBVIOUS
<1>3. Sound(w) /\ Len(w.body) = Len(m.body) - WordLength
  <2>1. WordLength <= Len(m.body)
    BY <1>1
  <2> QED
    BY <1>1, <1>2, <2>1, ValueInside
<1>4. PICK b : b = AfterValue(w, 1)
  OBVIOUS
<1>5. Sound(b) /\ Value(w, 1)[1] \in Byte
  <2>1. 1 <= Len(w.body) /\ 1 \in Nat /\ 1 \in 1 .. 1
    BY <1>1, <1>3
  <2> QED
    BY <1>3, <1>4, <2>1, ValueInside
<1>6. NameSize(m) \in Nat /\ BeforeName(m) = b
  BY <1>2, <1>4, <1>5, WidthAssumption DEF NameSize, BeforeName, Byte
<1> QED
  BY <1>5, <1>6, ContentsInside DEF AfterFile

LEMMA WholeIsSound == ASSUME NEW b \in Bytes PROVE Sound(Whole(b)) /\ Whole(b).body = b
  BY DEF Sound, Whole

LEMMA FileLength ==
    ASSUME NEW file \in FileData
    PROVE  FileBytes(file) \in Bytes /\ Len(FileBytes(file)) \in Nat
           /\ Len(FileBytes(file)) >= WordLength + 1
<1>1. PICK a, b, c : a = file.name /\ b = <<file.nameSize>> /\ c = file.size
  OBVIOUS
<1>2. /\ a \in Seq(Byte) /\ b \in Seq(Byte) /\ c \in Seq(Byte)
      /\ Len(a) \in Nat /\ Len(b) = 1 /\ Len(c) = WordLength
  <2>1. file.size \in Word /\ file.name \in Bytes /\ file.nameSize \in Byte
    BY DEF FileData
  <2> QED
    BY <1>1, <2>1, WordLengthIs DEF Bytes
<1>3. Len((a \o b) \o c) = Len(a) + 1 + WordLength
  <2>1. PICK d : d = a \o b
    OBVIOUS
  <2>2. d \in Seq(Byte) /\ Len(d) = Len(a) + 1
    <3>1. a \o b \in Bytes /\ Len(a \o b) = Len(a) + Len(b)
      BY <1>2, SecondPart DEF Bytes
    <3> QED
      BY <1>2, <2>1, <3>1 DEF Bytes
  <2>3. Len(d \o c) = Len(d) + Len(c)
    BY <1>2, <2>2, SecondPart DEF Bytes
  <2> QED
    BY <1>2, <2>1, <2>2, <2>3
<1>4. FileBytes(file) = (a \o b) \o c
  BY <1>1 DEF FileBytes
<1>5. PICK n : n = Len(FileBytes(file))
  OBVIOUS
<1>6. n = Len(a) + 1 + WordLength
  BY <1>3, <1>4, <1>5
<1>7. n \in Nat /\ n >= WordLength + 1
  BY <1>2, <1>6, WidthAssumption
<1> QED
  BY <1>5, <1>7, FileBytesAreBytes

(* Of a message that a program has filled in, whatever its lengths, no      *)
(* operator>> of its decode reads before the beginning of the body: the     *)
(* offset body.size() - sizeof(data) does not wrap around.                  *)
THEOREM DecodeStaysInside ==
    ASSUME NEW id, NEW p \in Payload(id)
    PROVE  DecodeBody(id, EncodeBody(id, p)).left.inside
<1>1. CASE id \in Metadata
  <2>1. p.type \in Byte /\ p.code \in Bytes /\ p.file \in FileData
    BY <1>1 DEF Payload, Metadata, Named, Unnamed
  <2>2. PICK f, t : f = FileBytes(p.file) /\ t = f \o PhraseBytes(p.code)
    OBVIOUS
  <2>3. /\ f \in Bytes /\ Len(f) \in Nat /\ Len(f) >= WordLength + 1
        /\ t \in Bytes
    BY <2>1, <2>2, FileLength, PhraseBytesAreBytes, SecondPart
  <2>4. PICK m : m = Whole(t \o <<p.type>>)
    OBVIOUS
  <2>5. AfterValue(m, 1) = Whole(t)
    BY <2>1, <2>3, <2>4, LastByteIsRead
  <2>6. PICK n : n = AfterPhrase(Whole(t))
    OBVIOUS
  <2>7. Sound(n) /\ Len(n.body) \in Nat /\ Len(n.body) >= Len(f)
    BY <2>1, <2>2, <2>3, <2>6, PhraseInside
  <2>8. Sound(AfterFile(n))
    <3>1. Len(n.body) >= WordLength + 1
      BY <2>3, <2>7, WidthAssumption
    <3> QED
      BY <2>7, <3>1, FileInside
  <2>9. PreMetadata(m).left = AfterFile(n)
    BY <2>5, <2>6 DEF PreMetadata
  <2>10. DecodeBody(id, EncodeBody(id, p)) = PreMetadata(m)
    BY <1>1, <2>2, <2>4 DEF DecodeBody, EncodeBody, PreMetadataBytes, Metadata
  <2> QED
    BY <2>8, <2>9, <2>10 DEF Sound, Whole
<1>2. CASE id = "Accept"
  <2>1. p.type \in Byte /\ p.code \in Bytes /\ p.file \in FileData /\ p.maxChunkSize \in Word
    BY <1>2 DEF Payload, Metadata, Named, Unnamed
  <2>2. PICK f, t, w : f = FileBytes(p.file) /\ t = f \o PhraseBytes(p.code) /\ w = p.maxChunkSize
    OBVIOUS
  <2>3. /\ f \in Bytes /\ Len(f) \in Nat /\ Len(f) >= WordLength + 1
        /\ t \in Bytes
    BY <2>1, <2>2, FileLength, PhraseBytesAreBytes, SecondPart
  <2>4. w \in Bytes /\ Len(w) = WordLength /\ t \o w \in Bytes
    BY <2>1, <2>2, <2>3, WordLengthIs, SecondPart
  <2>5. PICK m, m1 : m = Whole((t \o w) \o <<p.type>>) /\ m1 = Whole(t \o w)
    OBVIOUS
  <2>6. AfterValue(m, 1) = m1
    BY <2>1, <2>4, <2>5, LastByteIsRead
  <2>7. AfterValue(m1, WordLength) = Whole(t)
    <3>1. AfterValue(Whole(t \o w), Len(w)) = Whole(t)
      BY <2>3, <2>4, LastIsRead
    <3> QED
      BY <2>4, <2>5, <3>1
  <2>8. PICK n : n = AfterPhrase(Whole(t))
    OBVIOUS
  <2>9. Sound(n) /\ Len(n.body) \in Nat /\ Len(n.body) >= Len(f)
    BY <2>1, <2>2, <2>3, <2>8, PhraseInside
  <2>10. Sound(AfterFile(n))
    <3>1. Len(n.body) >= WordLength + 1
      BY <2>3, <2>9, WidthAssumption
    <3> QED
      BY <2>9, <3>1, FileInside
  <2>11. PostMetadata(m).left = AfterFile(n)
    BY <2>6, <2>7, <2>8 DEF PostMetadata
  <2>12. DecodeBody(id, EncodeBody(id, p)) = PostMetadata(m)
    BY <1>2, <2>2, <2>5 DEF DecodeBody, EncodeBody, PostMetadataBytes, Metadata
  <2> QED
    BY <2>10, <2>11, <2>12 DEF Sound, Whole
<1>3. CASE id = "Receive"
  <2>1. p.code \in Bytes /\ <<>> \in Bytes
    BY <1>3 DEF Payload, Metadata, Bytes
  <2>2. <<>> \o PhraseBytes(p.code) = PhraseBytes(p.code)
    BY <2>1, PhraseBytesAreBytes DEF Bytes
  <2>3. Sound(AfterPhrase(Whole(PhraseBytes(p.code))))
    BY <2>1, <2>2, PhraseInside
  <2> QED
    BY <1>3, <2>3 DEF DecodeBody, EncodeBody, Metadata, Sound, Whole
<1>4. CASE id \notin Metadata \cup {"Accept", "Receive"}
  <2>1. p \in PayloadOf(id)
    BY <1>4 DEF Payload, PayloadOf, Metadata
  <2> QED
    BY <2>1, PayloadsRoundTrip DEF Whole
<1> QED
  BY <1>1, <1>2, <1>3, <1>4

(* Of a receiver's request only the type and the phrase have been filled    *)
(* in; they are read back, and nothing is left of the message although the  *)
(* name's size in it is whatever was in memory.                             *)
THEOREM RequestIsRead ==
    ASSUME NEW file \in Unnamed, NEW code \in Bytes, NEW type \in Byte, FitsByte(code)
    PROVE  LET p == [type |-> type, code |-> code, file |-> file]
               d == PreMetadata(Whole(PreMetadataBytes(p)))
           IN  d.payload.type = type /\ d.payload.code = code /\ d.left.body = <<>>
<1>1. file \in FileData /\ file.name = <<>> /\ file.nameSize \in Byte
  BY DEF Unnamed, FileData
<1>2. PICK p : p = [type |-> type, code |-> code, file |-> file]
  OBVIOUS
<1>3. LET d == PreMetadata(Whole(PreMetadataBytes(p))) IN
      d.payload.type = type /\ d.payload.code = code
  BY <1>1, <1>2, PreMetadataIsRead
<1>4. PICK f, t : f = FileBytes(file) /\ t = f \o PhraseBytes(code)
  OBVIOUS
<1>5. f \in Bytes /\ t \in Bytes
  BY <1>1, <1>4, FileBytesAreBytes, PhraseBytesAreBytes, SecondPart
<1>6. PICK m : m = Whole(t \o <<type>>)
  OBVIOUS
<1>7. AfterValue(m, 1) = Whole(t) /\ AfterPhrase(Whole(t)) = Whole(f)
  BY <1>4, <1>5, <1>6, LastByteIsRead, PhraseIsRead
<1>8. PreMetadata(m).left = AfterFile(Whole(f))
  BY <1>7 DEF PreMetadata
<1>9. BeforeName(Whole(f)) = Whole(<<>>) /\ NameSize(Whole(f)) = file.nameSize
  <2>1. <<>> \in Bytes /\ <<>> \o f = f /\ <<>> \o file.name = <<>>
    BY <1>1, <1>5 DEF Bytes
  <2> QED
    BY <1>1, <1>4, <2>1, FileIsRead
<1>10. AfterContents(Whole(<<>>), file.nameSize).body = <<>>
  <2>1. PICK b : b = AfterContents(Whole(<<>>), file.nameSize)
    OBVIOUS
  <2>2. Sound(Whole(<<>>)) /\ Len(Whole(<<>>).body) = 0 /\ file.nameSize \in Nat
    BY <1>1, WidthAssumption DEF Sound, Whole, Byte, Bytes
  <2>3. PICK v : v = Available(Whole(<<>>), file.nameSize)
    OBVIOUS
  <2>4. Sound(b) /\ Len(b.body) \in Nat /\ Len(b.body) = 0 - v /\ v \in Nat
    BY <2>1, <2>2, <2>3, ContentsInside
  <2>5. Len(b.body) = 0
    BY <2>4
  <2> QED
    BY <2>1, <2>4, <2>5 DEF Sound, Bytes
<1>11. PreMetadata(m).left.body = <<>>
  BY <1>8, <1>9, <1>10 DEF AfterFile
<1>12. m = Whole(PreMetadataBytes(p))
  BY <1>2, <1>4, <1>6 DEF PreMetadataBytes
<1> QED
  BY <1>2, <1>3, <1>11, <1>12

-----------------------------------------------------------------------------

Body(m) == EncodeBody(m.id, m.payload)

(* A message as it is pushed to the queue. *)
Framed(m) == [id |-> m.id, size |-> Len(Body(m)), body |-> Body(m)]

(* c's messages a + 1 .. b are in the queue, in this order, and nothing    *)
(* else of c is.                                                           *)
QueuedAt(c, a, b, h) ==
    /\ \A j, k \in a + 1 .. b : j < k => h[j] < h[k]
    /\ \A j \in a + 1 .. b : deq[h[j]] = [remote |-> c, msg |-> Framed(script[c][j])]
    /\ \A i \in 1 .. Len(deq) : deq[i].remote = c => \E j \in a + 1 .. b : h[j] = i

InQueue(c, a, b) == \E h \in [a + 1 .. b -> 1 .. Len(deq)] : QueuedAt(c, a, b, h)

(* Cells 1 .. n of message j lie on the stream behind offset o; those that *)
(* would lie before its beginning have been read.                          *)
Lies(c, j, o, n) ==
    \A i \in 1 .. n : o + i >= 1 =>
        o + i <= Len(stream[c]) /\ stream[c][o + i] = Cells(script[c][j])[i]

(* Behind the messages that were written in full there is nothing, or what *)
(* the peer wrote of the next one before it died.                          *)
Ends(c, o) ==
    \/ Len(stream[c]) = o
    \/ /\ gone[c] /\ said[c] < Len(script[c])
       /\ Len(stream[c]) - o \in 1 .. Len(Cells(Says(c))) - 1
       /\ Lies(c, said[c] + 1, o, Len(stream[c]) - o)

(* The messages from a + 1 on are on the stream, one behind the other, but *)
(* for the first n cells, which have been read.                            *)
CarriedAt(c, a, n, g) ==
    /\ g[a + 1] = -n
    /\ \A j \in a + 1 .. said[c] :
          /\ g[j + 1] = g[j] + Len(Cells(script[c][j]))
          /\ Lies(c, j, g[j], Len(Cells(script[c][j])))
    /\ Ends(c, g[said[c] + 1])

Carried(c, a, n) == \E g \in [a + 1 .. said[c] + 1 -> Int] : CarriedAt(c, a, n, g)

(* Message a + 1 is being read; its header is known. *)
Begun(c, a, n, body) ==
    /\ a < Len(script[c])
    /\ Carried(c, a, n)
    /\ forming[c] = [id |-> script[c][a + 1].id, size |-> Len(Body(script[c][a + 1])),
                     body |-> body]

(* Where the reader of c is, which has pushed a messages. *)
Reads(c, a) ==
    \/ /\ reading[c] = "header" /\ ~done[c]
       /\ Carried(c, a, 0) /\ forming[c] = NoMessage
    \/ /\ reading[c] = "header" /\ done[c]
       /\ Begun(c, a, 1, <<>>)
    \/ /\ reading[c] = "body" /\ ~done[c]
       /\ Begun(c, a, 1, <<>>) /\ forming[c].size > 0
    \/ /\ reading[c] = "body" /\ done[c]
       /\ Begun(c, a, 1 + Len(Body(script[c][a + 1])), Body(script[c][a + 1]))
    \/ /\ reading[c] = "nothing" /\ ~done[c]
       /\ io = c => Carried(c, a, 0)

Placed(c) ==
    \E a \in Len(taken[c]) .. said[c] :
        /\ InQueue(c, Len(taken[c]), a)
        /\ Reads(c, a)
        /\ io = c => reading[c] = "nothing"

(* What the main thread makes of a message that came as it was sent. *)
Decoded(m) == [id |-> m.id, got |-> DecodeBody(m.id, Body(m))]

TakenWhole(c) ==
    /\ Len(taken[c]) \in Nat
    /\ taken[c] = [i \in 1 .. Len(taken[c]) |-> Decoded(script[c][i])]

InPlace(c) == said[c] <= Len(script[c]) /\ Placed(c) /\ TakenWhole(c)

IInv ==
    /\ script \in Scripts
    /\ TypeOK
    /\ \A c \in There : InPlace(c)

-----------------------------------------------------------------------------
(* Sequences. *)

LEMMA JoinFacts ==
    ASSUME NEW S, NEW p \in Seq(S), NEW q \in Seq(S)
    PROVE  /\ p \o q \in Seq(S) /\ Len(p \o q) = Len(p) + Len(q)
           /\ Len(p) \in Nat /\ Len(q) \in Nat
           /\ \A i \in 1 .. Len(p) : (p \o q)[i] = p[i]
           /\ \A i \in 1 .. Len(q) : (p \o q)[Len(p) + i] = q[i]
  OBVIOUS

LEMMA AppendFacts ==
    ASSUME NEW S, NEW q \in Seq(S), NEW m \in S
    PROVE  /\ Append(q, m) \in Seq(S) /\ Len(Append(q, m)) = Len(q) + 1
           /\ Len(q) \in Nat
           /\ \A i \in 1 .. Len(q) : Append(q, m)[i] = q[i]
           /\ Append(q, m)[Len(q) + 1] = m
  OBVIOUS

LEMMA TailFacts ==
    ASSUME NEW S, NEW q \in Seq(S), q # <<>>
    PROVE  /\ Tail(q) \in Seq(S) /\ Len(q) \in Nat \ {0} /\ Len(Tail(q)) = Len(q) - 1
           /\ Head(q) = q[1] /\ Head(q) \in S
           /\ \A i \in 1 .. Len(q) - 1 : Tail(q)[i] = q[i + 1]
  OBVIOUS

(* n elements taken off the front, and the others. *)
LEMMA PartFacts ==
    ASSUME NEW S, NEW q \in Seq(S), NEW n \in 0 .. Len(q)
    PROVE  /\ SubSeq(q, 1, n) \in Seq(S) /\ Len(SubSeq(q, 1, n)) = n
           /\ \A i \in 1 .. n : SubSeq(q, 1, n)[i] = q[i]
           /\ SubSeq(q, n + 1, Len(q)) \in Seq(S)
           /\ Len(SubSeq(q, n + 1, Len(q))) = Len(q) - n
           /\ \A i \in 1 .. Len(q) - n : SubSeq(q, n + 1, Len(q))[i] = q[n + i]
  OBVIOUS

-----------------------------------------------------------------------------
(* Messages and cells. *)

LEMMA BodyType ==
    ASSUME NEW m, Sayable(m)
    PROVE  Body(m) \in Bytes /\ Len(Body(m)) \in Nat
<1>1. CASE m.id \in Metadata
  <2>1. /\ m.payload.code \in Bytes /\ m.payload.file \in FileData /\ m.payload.type \in Byte
    BY <1>1 DEF Sayable, Payload, Metadata, Named, Unnamed
  <2>2. Body(m) = FileBytes(m.payload.file) \o PhraseBytes(m.payload.code) \o <<m.payload.type>>
    BY <1>1 DEF Body, EncodeBody, PreMetadataBytes, Metadata
  <2>3. FileBytes(m.payload.file) \in Bytes /\ PhraseBytes(m.payload.code) \in Bytes
    BY <2>1, FileBytesAreBytes, PhraseBytesAreBytes
  <2>4. PICK f, p, t : /\ f = FileBytes(m.payload.file) /\ p = PhraseBytes(m.payload.code)
                       /\ t = <<m.payload.type>>
    OBVIOUS
  <2>5. f \in Bytes /\ p \in Bytes /\ t \in Bytes
    BY <2>1, <2>3, <2>4 DEF Bytes
  <2>6. f \o p \o t \in Bytes
    BY <2>5 DEF Bytes
  <2> QED
    BY <2>2, <2>4, <2>6 DEF Bytes
<1>2. CASE m.id = "Accept"
  <2>1. /\ m.payload.code \in Bytes /\ m.payload.file \in FileData /\ m.payload.type \in Byte
        /\ m.payload.maxChunkSize \in Word
    BY <1>2 DEF Sayable, Payload, Metadata, Named, Unnamed
  <2>2. Body(m) = FileBytes(m.payload.file) \o PhraseBytes(m.payload.code)
                     \o m.payload.maxChunkSize \o <<m.payload.type>>
    BY <1>2 DEF Body, EncodeBody, PostMetadataBytes, Metadata
  <2>3. /\ FileBytes(m.payload.file) \in Bytes /\ PhraseBytes(m.payload.code) \in Bytes
        /\ m.payload.maxChunkSize \in Bytes
    BY <2>1, FileBytesAreBytes, PhraseBytesAreBytes, WordLengthIs
  <2>4. PICK f, p, w, t : /\ f = FileBytes(m.payload.file) /\ p = PhraseBytes(m.payload.code)
                          /\ w = m.payload.maxChunkSize /\ t = <<m.payload.type>>
    OBVIOUS
  <2>5. f \in Bytes /\ p \in Bytes /\ w \in Bytes /\ t \in Bytes
    BY <2>1, <2>3, <2>4 DEF Bytes
  <2>6. f \o p \o w \o t \in Bytes
    BY <2>5 DEF Bytes
  <2>7. Body(m) = f \o p \o w \o t
    BY <2>2, <2>4
  <2> QED
    BY <2>6, <2>7 DEF Bytes
<1>3. CASE m.id = "Receive"
  <2>1. m.payload.code \in Bytes /\ Body(m) = PhraseBytes(m.payload.code)
    BY <1>3 DEF Sayable, Payload, Body, EncodeBody, Metadata
  <2> QED
    BY <2>1, PhraseBytesAreBytes DEF Bytes
<1>4. CASE m.id = "Chunk"
  <2>1. /\ m.payload.data \in Bytes /\ m.payload.hash \in Bytes
        /\ Body(m) = m.payload.data \o m.payload.hash
    BY <1>4, WordLengthIs DEF Sayable, Payload, Body, EncodeBody, ChunkBytes, Metadata
  <2>2. PICK d, h : d = m.payload.data /\ h = m.payload.hash
    OBVIOUS
  <2>3. d \o h \in Bytes /\ Body(m) = d \o h
    BY <2>1, <2>2 DEF Bytes
  <2> QED
    BY <2>3 DEF Bytes
<1>5. CASE m.id \notin Metadata \cup {"Accept", "Receive", "Chunk"}
  <2>1. m.payload.empty \in Byte /\ Body(m) = <<m.payload.empty>>
    BY <1>5 DEF Sayable, Payload, Body, EncodeBody, Metadata
  <2> QED
    BY <2>1 DEF Bytes
<1> QED
  BY <1>1, <1>2, <1>3, <1>4, <1>5

(* One cell for the header, one for each byte. *)
LEMMA CellsAre ==
    ASSUME NEW m, Sayable(m)
    PROVE  /\ Cells(m) \in Seq(Cell) /\ Len(Cells(m)) = 1 + Len(Body(m))
           /\ Cells(m)[1] = HeaderCell(m.id, Len(Body(m)))
           /\ \A i \in 1 .. Len(Body(m)) : Cells(m)[i + 1] = ByteCell(Body(m)[i])
<1>1. PICK b : b = Body(m)
  OBVIOUS
<1>2. b \in Seq(Byte) /\ Len(b) \in Nat
  BY <1>1, BodyType DEF Bytes
<1>3. Byte \subseteq Nat
  BY WidthAssumption DEF Byte
<1>4. PICK h, t : h = <<HeaderCell(m.id, Len(b))>> /\ t = [i \in 1 .. Len(b) |-> ByteCell(b[i])]
  OBVIOUS
<1>5. /\ HeaderCell(m.id, Len(b)) \in Cell
      /\ \A i \in 1 .. Len(b) : ByteCell(b[i]) \in Cell
  <2>1. m.id \in Ids /\ "none" \in Ids
    BY DEF Sayable, Ids
  <2>2. \A i \in 1 .. Len(b) : b[i] \in Byte
    BY <1>2
  <2> QED
    BY <1>2, <1>3, <2>1, <2>2 DEF HeaderCell, ByteCell, Cell
<1>6. h \in Seq(Cell) /\ Len(h) = 1 /\ h[1] = HeaderCell(m.id, Len(b))
  BY <1>4, <1>5
<1>7. t \in Seq(Cell) /\ Len(t) = Len(b) /\ \A i \in 1 .. Len(b) : t[i] = ByteCell(b[i])
  BY <1>2, <1>4, <1>5
<1>8. Cells(m) = h \o t
  BY <1>1, <1>4 DEF Cells, HeaderSize, Body
<1> QED
  <2>1. /\ h \o t \in Seq(Cell) /\ Len(h \o t) = Len(h) + Len(t)
        /\ \A i \in 1 .. Len(h) : (h \o t)[i] = h[i]
        /\ \A i \in 1 .. Len(t) : (h \o t)[Len(h) + i] = t[i]
    BY <1>6, <1>7, JoinFacts
  <2>2. PICK s : s = h \o t
    OBVIOUS
  <2>3. /\ s \in Seq(Cell) /\ Len(s) = 1 + Len(b)
        /\ s[1] = HeaderCell(m.id, Len(b))
        /\ \A i \in 1 .. Len(b) : s[i + 1] = ByteCell(b[i])
    BY <1>6, <1>7, <2>1, <2>2
  <2> QED
    BY <1>1, <1>8, <2>2, <2>3

(* What the handlers of the io thread make of a message has its type. *)
LEMMA FramedType ==
    ASSUME NEW m, Sayable(m)
    PROVE  /\ Framed(m) \in {r \in Read : r.id # "none" /\ r.size = Len(r.body)}
           /\ [id |-> m.id, size |-> Len(Body(m)), body |-> <<>>] \in Read
  BY BodyType DEF Framed, Read, Sayable, Bytes

-----------------------------------------------------------------------------
(* The stream of a connection. *)

(* What the lemmas about c take for granted. *)
Known(c) ==
    /\ script \in Scripts /\ c \in There
    /\ said[c] \in Nat /\ said[c] <= Len(script[c]) /\ stream[c] \in Seq(Cell)

LEMMA ScriptFacts ==
    ASSUME NEW c, Known(c)
    PROVE  /\ Len(script[c]) \in Nat
           /\ \A j \in 1 .. Len(script[c]) :
                 /\ Sayable(script[c][j]) /\ Len(Cells(script[c][j])) \in Nat \ {0}
                 /\ Cells(script[c][j]) \in Seq(Cell)
<1>1. /\ Len(script[c]) \in Nat
      /\ \A j \in 1 .. Len(script[c]) : Sayable(script[c][j])
  BY ScriptAssumption DEF Known, There
<1>2. ASSUME NEW j \in 1 .. Len(script[c])
      PROVE  Len(Cells(script[c][j])) \in Nat \ {0} /\ Cells(script[c][j]) \in Seq(Cell)
  <2>1. PICK m : m = script[c][j]
    OBVIOUS
  <2>2. Sayable(m)
    BY <1>1, <2>1
  <2>3. Len(Cells(m)) = 1 + Len(Body(m)) /\ Len(Body(m)) \in Nat /\ Cells(m) \in Seq(Cell)
    BY <2>2, CellsAre, BodyType
  <2> QED
    BY <2>1, <2>3
<1> QED
  BY <1>1, <1>2

(* The cells in front are those of the message that is being read. *)
LEMMA NextCells ==
    ASSUME NEW c, Known(c), NEW a \in Nat, a <= said[c], NEW n \in Nat, Carried(c, a, n),
           NEW w \in Nat \ {0}, w <= Len(stream[c]),
           a < Len(script[c]) => n + w <= Len(Cells(script[c][a + 1]))
    PROVE  /\ a < Len(script[c])
           /\ \A i \in 1 .. w : stream[c][i] = Cells(script[c][a + 1])[n + i]
<1>1. PICK g \in [a + 1 .. said[c] + 1 -> Int] : CarriedAt(c, a, n, g)
  BY DEF Carried
<1>2. PICK k, l : k = Len(script[c]) /\ l = Len(stream[c])
  OBVIOUS
<1>3. k \in Nat /\ l \in Nat /\ said[c] \in Nat /\ said[c] <= k /\ g[a + 1] = -n
  BY <1>1, <1>2, ScriptFacts DEF CarriedAt, Known
<1>4. CASE a < said[c]
  <2>1. Lies(c, a + 1, -n, Len(Cells(script[c][a + 1])))
    BY <1>1, <1>3, <1>4 DEF CarriedAt
  <2>2. a + 1 \in 1 .. k /\ a < k
    BY <1>3, <1>4
  <2>3. PICK z : z = Len(Cells(script[c][a + 1])) /\ z \in Nat
    BY <1>2, <2>2, ScriptFacts
  <2>4. ASSUME NEW i \in 1 .. w
        PROVE  stream[c][i] = Cells(script[c][a + 1])[n + i]
    <3>1. n + i \in 1 .. z /\ -n + (n + i) = i /\ i >= 1
      BY <1>2, <2>2, <2>3
    <3> QED
      BY <2>1, <2>3, <3>1 DEF Lies
  <2> QED
    BY <1>2, <2>2, <2>4
<1>5. CASE a = said[c]
  <2>1. Ends(c, -n)
    BY <1>1, <1>3, <1>5 DEF CarriedAt
  <2>2. l # -n
    BY <1>2, <1>3
  <2>3. a < k /\ Lies(c, a + 1, -n, l - (-n))
    BY <1>2, <1>5, <2>1, <2>2 DEF Ends
  <2>4. ASSUME NEW i \in 1 .. w
        PROVE  stream[c][i] = Cells(script[c][a + 1])[n + i]
    <3>1. n + i \in 1 .. l - (-n) /\ -n + (n + i) = i /\ i >= 1
      BY <1>2, <1>3
    <3> QED
      BY <2>3, <3>1 DEF Lies
  <2> QED
    BY <1>2, <2>3, <2>4
<1> QED
  BY <1>3, <1>4, <1>5

(* w cells are taken off the front. *)
LEMMA LiesBehind ==
    ASSUME NEW c, Known(c), NEW j, NEW o \in Int, NEW n \in Int, Lies(c, j, o, n),
           NEW w \in 0 .. Len(stream[c]),
           stream'[c] = SubSeq(stream[c], w + 1, Len(stream[c])), script' = script
    PROVE  Lies(c, j, o - w, n)'
<1>1. PICK s : s = stream[c]
  OBVIOUS
<1>2. s \in Seq(Cell) /\ w \in 0 .. Len(s) /\ Len(s) \in Nat
  BY <1>1 DEF Known
<1>3. /\ Len(stream'[c]) = Len(s) - w
      /\ \A i \in 1 .. Len(s) - w : stream'[c][i] = s[w + i]
  <2>1. stream'[c] = SubSeq(s, w + 1, Len(s))
    BY <1>1
  <2> QED
    BY <1>2, <2>1, PartFacts
<1>4. ASSUME NEW i \in 1 .. n, (o - w) + i >= 1
      PROVE  (o - w) + i <= Len(stream'[c]) /\ stream'[c][(o - w) + i] = Cells(script[c][j])[i]
  <2>1. o + i <= Len(s) /\ s[o + i] = Cells(script[c][j])[i]
    BY <1>1, <1>2, <1>4 DEF Lies
  <2>2. PICK p : p = (o - w) + i
    OBVIOUS
  <2>3. p \in 1 .. Len(s) - w /\ w + p = o + i
    BY <1>2, <1>4, <2>1, <2>2
  <2>4. stream'[c][p] = s[w + p]
    BY <1>3, <2>3
  <2>5. p <= Len(stream'[c])
    BY <1>2, <1>3, <2>3
  <2> QED
    BY <2>1, <2>2, <2>3, <2>4, <2>5
<1> QED
  BY <1>4 DEF Lies

LEMMA CellsTaken ==
    ASSUME NEW c, Known(c), NEW a \in Nat, a <= said[c], NEW n \in Nat, Carried(c, a, n),
           NEW w \in 0 .. Len(stream[c]), NEW k, k = n + w,
           stream'[c] = SubSeq(stream[c], w + 1, Len(stream[c])),
           script' = script, said'[c] = said[c], gone'[c] = gone[c]
    PROVE  Carried(c, a, k)'
<1>1. PICK g \in [a + 1 .. said[c] + 1 -> Int] : CarriedAt(c, a, n, g)
  BY DEF Carried
<1>2. PICK d : d = said[c]
  OBVIOUS
<1>3. /\ d \in Nat /\ a <= d /\ g \in [a + 1 .. d + 1 -> Int] /\ d <= Len(script[c])
      /\ w \in Nat /\ Len(stream[c]) \in Nat
  BY <1>1, <1>2 DEF Known
<1>4. PICK f : f = [j \in a + 1 .. d + 1 |-> g[j] - w]
  OBVIOUS
<1>5. f \in [a + 1 .. d + 1 -> Int] /\ \A j \in a + 1 .. d + 1 : f[j] = g[j] - w
  <2>1. \A j \in a + 1 .. d + 1 : g[j] \in Int
    BY <1>3
  <2>2. \A j \in a + 1 .. d + 1 : g[j] - w \in Int
    BY <1>3, <2>1
  <2> QED
    BY <1>4, <2>2
<1>6. f[a + 1] = -k
  <2>1. g[a + 1] = -n /\ a + 1 \in a + 1 .. d + 1
    BY <1>1, <1>3 DEF CarriedAt
  <2> QED
    BY <1>3, <1>5, <2>1
<1>7. ASSUME NEW j \in a + 1 .. d
      PROVE  /\ f[j + 1] = f[j] + Len(Cells(script[c][j]))
             /\ Lies(c, j, f[j], Len(Cells(script[c][j])))'
  <2>1. /\ g[j + 1] = g[j] + Len(Cells(script[c][j]))
        /\ Lies(c, j, g[j], Len(Cells(script[c][j])))
    BY <1>1, <1>2 DEF CarriedAt
  <2>2. PICK z, o : z = Len(Cells(script[c][j])) /\ o = g[j]
    OBVIOUS
  <2>3. z \in Int /\ o \in Int /\ j + 1 \in a + 1 .. d + 1 /\ j \in a + 1 .. d + 1
    BY <1>3, <2>2, ScriptFacts
  <2>4. Lies(c, j, o - w, z)'
    BY <2>1, <2>2, <2>3, LiesBehind
  <2>5. f[j] = o - w /\ f[j + 1] = (o - w) + z
    <3>1. f[j] = g[j] - w /\ f[j + 1] = g[j + 1] - w
      BY <1>5, <2>3
    <3>2. g[j + 1] = o + z /\ g[j] = o
      BY <2>1, <2>2
    <3> QED
      BY <1>3, <2>3, <3>1, <3>2
  <2> QED
    BY <2>2, <2>4, <2>5 DEF Lies
<1>8. Ends(c, f[d + 1])'
  <2>1. PICK o : o = g[d + 1]
    OBVIOUS
  <2>2. o \in Int /\ f[d + 1] = o - w /\ Ends(c, o)
    <3>1. d + 1 \in a + 1 .. d + 1
      BY <1>3
    <3>2. o \in Int /\ f[d + 1] = o - w
      BY <1>3, <1>5, <2>1, <3>1
    <3>3. Ends(c, o)
      BY <1>1, <1>2, <2>1 DEF CarriedAt
    <3> QED
      BY <3>2, <3>3
  <2>3. Len(stream'[c]) = Len(stream[c]) - w
    <3>1. PICK s : s = stream[c]
      OBVIOUS
    <3>2. s \in Seq(Cell) /\ w \in 0 .. Len(s) /\ stream'[c] = SubSeq(s, w + 1, Len(s))
      BY <3>1 DEF Known
    <3> QED
      BY <3>1, <3>2, PartFacts
  <2>4. CASE Len(stream[c]) = o
    BY <2>2, <2>3, <2>4 DEF Ends
  <2>5. CASE /\ gone[c] /\ said[c] < Len(script[c])
             /\ Len(stream[c]) - o \in 1 .. Len(Cells(Says(c))) - 1
             /\ Lies(c, said[c] + 1, o, Len(stream[c]) - o)
    <3>1. PICK z, j : z = Len(stream[c]) - o /\ j = said[c] + 1
      OBVIOUS
    <3>2. Lies(c, j, o - w, z)'
      <4>1. o \in Int /\ z \in Int /\ Lies(c, j, o, z)
        BY <1>3, <2>2, <2>5, <3>1
      <4> QED
        BY <4>1, LiesBehind
    <3>3. Len(stream'[c]) - (o - w) = z
      BY <1>3, <2>2, <2>3, <3>1
    <3>4. Says(c)' = Says(c)
      BY DEF Says
    <3>5. gone'[c] /\ said'[c] < Len(script'[c]) /\ said'[c] + 1 = j
      BY <2>5, <3>1
    <3>6. Len(stream'[c]) - (o - w) \in 1 .. Len(Cells(Says(c))') - 1
      BY <2>5, <3>1, <3>3 DEF Says
    <3>7. Lies(c, said[c] + 1, o - w, Len(stream[c]) - (o - w))'
      BY <3>2, <3>3, <3>5 DEF Lies
    <3> QED
      BY <2>2, <3>5, <3>6, <3>7 DEF Ends
  <2> QED
    BY <2>2, <2>4, <2>5 DEF Ends
<1>9. CarriedAt(c, a, k, f)'
  BY <1>2, <1>6, <1>7, <1>8 DEF CarriedAt
<1> QED
  BY <1>2, <1>5, <1>9 DEF Carried

(* The last cell of a message has been read, and the next one begins.      *)
LEMMA MessageRead ==
    ASSUME NEW c, Known(c), NEW a \in Nat, a <= said[c], a < Len(script[c]),
           NEW n, n = Len(Cells(script[c][a + 1])), Carried(c, a, n)
    PROVE  a + 1 <= said[c] /\ Carried(c, a + 1, 0)
<1>1. PICK g \in [a + 1 .. said[c] + 1 -> Int] : CarriedAt(c, a, n, g)
  BY DEF Carried
<1>2. PICK d : d = said[c]
  OBVIOUS
<1>3. /\ d \in Nat /\ a <= d /\ g \in [a + 1 .. d + 1 -> Int] /\ d <= Len(script[c])
      /\ Len(stream[c]) \in Nat /\ n \in Nat \ {0} /\ g[a + 1] = -n
  <2>1. /\ d \in Nat /\ a <= d /\ g \in [a + 1 .. d + 1 -> Int] /\ d <= Len(script[c])
        /\ Len(stream[c]) \in Nat
    BY <1>1, <1>2 DEF Known
  <2>2. n \in Nat \ {0}
    BY ScriptFacts
  <2>3. g[a + 1] = -n
    BY <1>1 DEF CarriedAt
  <2> QED
    BY <2>1, <2>2, <2>3
<1>4. a + 1 <= d
  <2> SUFFICES ASSUME a = d PROVE FALSE
    BY <1>3
  <2>1. Ends(c, -n) /\ Says(c) = script[c][a + 1]
    BY <1>1, <1>2, <1>3 DEF CarriedAt, Says
  <2>2. PICK l : l = Len(stream[c])
    OBVIOUS
  <2>3. l = -n \/ l - (-n) \in 1 .. n - 1
    BY <2>1, <2>2 DEF Ends
  <2> QED
    BY <1>3, <2>2, <2>3
<1>5. PICK f : f = [j \in (a + 1) + 1 .. d + 1 |-> g[j]]
  OBVIOUS
<1>6. /\ f \in [(a + 1) + 1 .. d + 1 -> Int]
      /\ \A j \in (a + 1) + 1 .. d + 1 : f[j] = g[j]
  <2>1. \A j \in (a + 1) + 1 .. d + 1 : j \in a + 1 .. d + 1
    BY <1>3
  <2>2. \A j \in (a + 1) + 1 .. d + 1 : g[j] \in Int
    BY <1>3, <2>1
  <2> QED
    BY <1>5, <2>2
<1>7. f[(a + 1) + 1] = -0
  <2>1. g[(a + 1) + 1] = g[a + 1] + n
    BY <1>1, <1>2, <1>3, <1>4 DEF CarriedAt
  <2> QED
    BY <1>3, <1>4, <1>6, <2>1
<1>8. ASSUME NEW j \in (a + 1) + 1 .. d
      PROVE  /\ f[j + 1] = f[j] + Len(Cells(script[c][j]))
             /\ Lies(c, j, f[j], Len(Cells(script[c][j])))
  <2>1. /\ j \in a + 1 .. d /\ f[j] = g[j] /\ f[j + 1] = g[j + 1]
    <3>1. /\ j \in a + 1 .. d /\ j \in (a + 1) + 1 .. d + 1
          /\ j + 1 \in (a + 1) + 1 .. d + 1
      BY <1>3
    <3> QED
      BY <1>6, <3>1
  <2> QED
    BY <1>1, <1>2, <2>1 DEF CarriedAt
<1>9. Ends(c, f[d + 1])
  <2>1. f[d + 1] = g[d + 1]
    BY <1>3, <1>4, <1>6
  <2> QED
    BY <1>1, <1>2, <2>1 DEF CarriedAt
<1>10. CarriedAt(c, a + 1, 0, f)
  BY <1>2, <1>7, <1>8, <1>9 DEF CarriedAt
<1> QED
  BY <1>2, <1>4, <1>6, <1>10 DEF Carried

(* What lies on the stream stays where it is when something is put behind. *)
LEMMA LiesBefore ==
    ASSUME NEW c, Known(c), NEW j, NEW o \in Int, NEW n \in Int, Lies(c, j, o, n),
           NEW t \in Seq(Cell), stream'[c] = stream[c] \o t, script' = script
    PROVE  Lies(c, j, o, n)'
<1>1. PICK s : s = stream[c]
  OBVIOUS
<1>2. s \in Seq(Cell) /\ stream'[c] = s \o t
  BY <1>1 DEF Known
<1>3. /\ Len(stream'[c]) = Len(s) + Len(t) /\ Len(s) \in Nat /\ Len(t) \in Nat
      /\ \A i \in 1 .. Len(s) : stream'[c][i] = s[i]
  BY <1>2, JoinFacts
<1>4. ASSUME NEW i \in 1 .. n, o + i >= 1
      PROVE  o + i <= Len(stream'[c]) /\ stream'[c][o + i] = Cells(script[c][j])[i]
  <2>1. PICK p : p = o + i
    OBVIOUS
  <2>2. p <= Len(s) /\ s[p] = Cells(script[c][j])[i] /\ p >= 1 /\ p \in Int
    BY <1>1, <1>4, <2>1 DEF Lies
  <2>3. stream'[c][p] = s[p] /\ p <= Len(stream'[c])
    BY <1>3, <2>2
  <2> QED
    BY <2>1, <2>2, <2>3
<1> QED
  BY <1>4 DEF Lies

(* The first cells of a message, put on the stream. *)
LEMMA PutOnStream ==
    ASSUME NEW c, Known(c), NEW j \in 1 .. Len(script[c]),
           NEW n \in 0 .. Len(Cells(script[c][j])),
           NEW t \in Seq(Cell), t = SubSeq(Cells(script[c][j]), 1, n),
           stream'[c] = stream[c] \o t, script' = script,
           NEW l, l = Len(stream[c])
    PROVE  Len(stream'[c]) = l + n /\ Lies(c, j, l, n)'
<1>1. PICK s, u : s = stream[c] /\ u = Cells(script[c][j])
  OBVIOUS
<1>2. /\ s \in Seq(Cell) /\ u \in Seq(Cell) /\ n \in 0 .. Len(u) /\ t = SubSeq(u, 1, n)
      /\ stream'[c] = s \o t
  BY <1>1, ScriptFacts DEF Known
<1>3. Len(t) = n /\ \A i \in 1 .. n : t[i] = u[i]
  BY <1>2, PartFacts
<1>4. /\ Len(stream'[c]) = Len(s) + n /\ Len(s) \in Nat /\ n \in Nat
      /\ \A i \in 1 .. n : stream'[c][Len(s) + i] = t[i]
  <2>1. PICK v : v = s \o t
    OBVIOUS
  <2>2. /\ Len(v) = Len(s) + Len(t) /\ Len(s) \in Nat
        /\ \A i \in 1 .. Len(t) : v[Len(s) + i] = t[i]
    BY <1>2, <2>1, JoinFacts
  <2>3. stream'[c] = v
    BY <1>2, <2>1
  <2> QED
    <3>1. Len(u) \in Nat
      BY <1>2
    <3>2. n \in Nat
      BY <1>2, <3>1
    <3> QED
      BY <1>3, <2>2, <2>3, <3>2
<1>5. l = Len(s)
  BY <1>1
<1>6. ASSUME NEW i \in 1 .. n
      PROVE  l + i <= Len(stream'[c]) /\ stream'[c][l + i] = u[i]
  <2>1. i \in Nat /\ i <= n /\ l \in Nat
    BY <1>4, <1>5
  <2>2. stream'[c][l + i] = t[i] /\ t[i] = u[i]
    BY <1>3, <1>4, <1>5
  <2>3. Len(stream'[c]) = l + n
    BY <1>4, <1>5
  <2>4. l + i <= l + n
    BY <1>4, <2>1
  <2> QED
    BY <2>2, <2>3, <2>4
<1>7. Lies(c, j, l, n)'
  BY <1>1, <1>6 DEF Lies
<1> QED
  BY <1>4, <1>5, <1>7

LEMMA WritesCarried ==
    ASSUME NEW c, Known(c), NEW a \in Nat, a <= said[c], NEW n \in Nat, Carried(c, a, n),
           ~gone[c], said[c] < Len(script[c]), said'[c] = said[c] + 1,
           stream'[c] = stream[c] \o Cells(Says(c)), script' = script
    PROVE  Carried(c, a, n)'
<1>1. PICK g \in [a + 1 .. said[c] + 1 -> Int] : CarriedAt(c, a, n, g)
  BY DEF Carried
<1>2. PICK d, l : d = said[c] /\ l = Len(stream[c])
  OBVIOUS
<1>3. PICK t : t = Cells(Says(c))
  OBVIOUS
<1>4. PICK z : z = Len(t)
  OBVIOUS
<1>5. /\ d \in Nat /\ a <= d /\ g \in [a + 1 .. d + 1 -> Int] /\ l \in Nat
      /\ t \in Seq(Cell) /\ z \in Nat \ {0} /\ d + 1 \in 1 .. Len(script[c])
      /\ t = Cells(script[c][d + 1]) /\ stream'[c] = stream[c] \o t
      /\ g[d + 1] = l
  <2>1. /\ d \in Nat /\ a <= d /\ g \in [a + 1 .. d + 1 -> Int] /\ l \in Nat
        /\ Len(script[c]) \in Nat /\ d + 1 \in 1 .. Len(script[c])
    BY <1>1, <1>2, ScriptFacts DEF Known
  <2>2. t = Cells(script[c][d + 1])
    BY <1>2, <1>3 DEF Says
  <2>3. t \in Seq(Cell) /\ z \in Nat \ {0}
    BY <1>4, <2>1, <2>2, ScriptFacts
  <2>4. g[d + 1] = l
    BY <1>1, <1>2 DEF CarriedAt, Ends
  <2> QED
    BY <1>3, <2>1, <2>2, <2>3, <2>4
<1>6. Len(stream'[c]) = l + z /\ Lies(c, d + 1, l, z)'
  <2>1. PICK u : u = SubSeq(t, 1, z) /\ u = t
    BY <1>4, <1>5
  <2>2. z \in 0 .. Len(Cells(script[c][d + 1])) /\ u = SubSeq(Cells(script[c][d + 1]), 1, z)
    BY <1>4, <1>5, <2>1
  <2> QED
    BY <1>2, <1>5, <2>1, <2>2, PutOnStream
<1>7. PICK f : f = [j \in a + 1 .. d + 2 |-> IF j = d + 2 THEN l + z ELSE g[j]]
  OBVIOUS
<1>8. /\ f \in [a + 1 .. d + 2 -> Int]
      /\ \A j \in a + 1 .. d + 1 : f[j] = g[j]
      /\ f[d + 2] = l + z
  <2>1. ASSUME NEW j \in a + 1 .. d + 2
        PROVE  (IF j = d + 2 THEN l + z ELSE g[j]) \in Int
    <3>1. CASE j = d + 2
      BY <1>5, <3>1
    <3>2. CASE j # d + 2
      <4>1. j \in a + 1 .. d + 1
        BY <1>5, <3>2
      <4> QED
        BY <1>5, <3>2, <4>1
    <3> QED
      BY <3>1, <3>2
  <2>2. ASSUME NEW j \in a + 1 .. d + 1
        PROVE  j \in a + 1 .. d + 2 /\ j # d + 2
    BY <1>5
  <2>3. d + 2 \in a + 1 .. d + 2
    BY <1>5
  <2> QED
    BY <1>7, <2>1, <2>2, <2>3
<1>9. f[a + 1] = -n
  BY <1>1, <1>5, <1>8 DEF CarriedAt
<1>10. ASSUME NEW j \in a + 1 .. d + 1
       PROVE  /\ f[j + 1] = f[j] + Len(Cells(script[c][j]))
              /\ Lies(c, j, f[j], Len(Cells(script[c][j])))'
  <2>1. CASE j = d + 1
    <3>1. /\ f[j + 1] = l + z /\ f[j] = l /\ Len(Cells(script[c][j])) = z
      BY <1>4, <1>5, <1>8, <2>1
    <3> QED
      BY <1>6, <2>1, <3>1 DEF Lies
  <2>2. CASE j \in a + 1 .. d
    <3>1. /\ g[j + 1] = g[j] + Len(Cells(script[c][j]))
          /\ Lies(c, j, g[j], Len(Cells(script[c][j])))
      BY <1>1, <1>2, <2>2 DEF CarriedAt
    <3>2. PICK o, y : o = g[j] /\ y = Len(Cells(script[c][j]))
      OBVIOUS
    <3>3. /\ j + 1 \in a + 1 .. d + 1 /\ j \in a + 1 .. d + 1 /\ j \in 1 .. Len(script[c])
          /\ o \in Int /\ y \in Int
      <4>1. j + 1 \in a + 1 .. d + 1 /\ j \in a + 1 .. d + 1 /\ j \in 1 .. Len(script[c])
        BY <1>5, <2>2
      <4> QED
        BY <1>5, <3>2, <4>1, ScriptFacts
    <3>4. Lies(c, j, o, y)'
      BY <1>5, <3>1, <3>2, <3>3, LiesBefore
    <3> QED
      BY <1>8, <3>1, <3>2, <3>3, <3>4 DEF Lies
  <2> QED
    BY <1>5, <2>1, <2>2
<1>11. Ends(c, f[d + 2])'
  BY <1>6, <1>8 DEF Ends
<1>12. CarriedAt(c, a, n, f)'
  <2>1. said'[c] = d + 1 /\ d + 1 + 1 = d + 2
    BY <1>2, <1>5
  <2> QED
    BY <1>9, <1>10, <1>11, <2>1 DEF CarriedAt
<1> QED
  <2>1. said'[c] + 1 = d + 2
    BY <1>2, <1>5
  <2> QED
    BY <1>8, <1>12, <2>1 DEF Carried

LEMMA LeavesCarried ==
    ASSUME NEW c, Known(c), NEW a \in Nat, a <= said[c], NEW n \in Nat, Carried(c, a, n),
           ~gone[c], gone'[c], said'[c] = said[c], said[c] < Len(script[c]),
           NEW i \in 1 .. Len(Cells(Says(c))) - 1,
           stream'[c] = stream[c] \o SubSeq(Cells(Says(c)), 1, i), script' = script
    PROVE  Carried(c, a, n)'
<1>1. PICK g \in [a + 1 .. said[c] + 1 -> Int] : CarriedAt(c, a, n, g)
  BY DEF Carried
<1>2. PICK d, l : d = said[c] /\ l = Len(stream[c])
  OBVIOUS
<1>3. PICK t : t = SubSeq(Cells(script[c][d + 1]), 1, i)
  OBVIOUS
<1>4. Says(c) = script[c][d + 1] /\ Says(c)' = script[c][d + 1]
  BY <1>2 DEF Says
<1>5. /\ d \in Nat /\ a <= d /\ l \in Nat /\ d + 1 \in 1 .. Len(script[c])
      /\ g[d + 1] = l
  <2>1. d \in Nat /\ a <= d /\ l \in Nat /\ d < Len(script[c]) /\ Len(script[c]) \in Nat
    BY <1>2, ScriptFacts DEF Known
  <2>2. Ends(c, g[d + 1])
    BY <1>1, <1>2 DEF CarriedAt
  <2>3. g[d + 1] = l
    BY <1>2, <2>2 DEF Ends
  <2> QED
    BY <2>1, <2>3
<1>6. /\ t \in Seq(Cell) /\ i \in 1 .. Len(Cells(script[c][d + 1])) - 1
      /\ i \in 0 .. Len(Cells(script[c][d + 1])) /\ stream'[c] = stream[c] \o t
  <2>1. PICK u : u = Cells(script[c][d + 1])
    OBVIOUS
  <2>2. u \in Seq(Cell) /\ i \in 1 .. Len(u) - 1 /\ t = SubSeq(u, 1, i)
    BY <1>3, <1>4, <1>5, <2>1, ScriptFacts
  <2>3. Len(u) \in Nat /\ i \in 0 .. Len(u)
    BY <2>2
  <2>4. t \in Seq(Cell)
    BY <2>2, <2>3, PartFacts
  <2> QED
    BY <1>3, <1>4, <2>1, <2>2, <2>3, <2>4
<1>7. Len(stream'[c]) = l + i /\ Lies(c, d + 1, l, i)'
  BY <1>2, <1>3, <1>5, <1>6, PutOnStream
<1>8. ASSUME NEW j \in a + 1 .. d
      PROVE  /\ g[j + 1] = g[j] + Len(Cells(script[c][j]))
             /\ Lies(c, j, g[j], Len(Cells(script[c][j])))'
  <2>1. /\ g[j + 1] = g[j] + Len(Cells(script[c][j]))
        /\ Lies(c, j, g[j], Len(Cells(script[c][j])))
    BY <1>1, <1>2 DEF CarriedAt
  <2>2. PICK o, y : o = g[j] /\ y = Len(Cells(script[c][j]))
    OBVIOUS
  <2>3. o \in Int /\ y \in Int
    <3>1. j \in a + 1 .. d + 1 /\ j \in 1 .. Len(script[c])
      BY <1>5
    <3> QED
      BY <1>1, <1>2, <2>2, <3>1, ScriptFacts
  <2>4. Lies(c, j, o, y)'
    BY <1>6, <2>1, <2>2, <2>3, LiesBefore
  <2> QED
    BY <2>1, <2>2, <2>4 DEF Lies
<1>9. Ends(c, l)'
  <2>1. (l + i) - l = i
    BY <1>5, <1>6
  <2>2. Len(stream'[c]) - l = i
    BY <1>7, <2>1
  <2> QED
    BY <1>2, <1>4, <1>6, <1>7, <2>2 DEF Ends, Lies
<1>10. CarriedAt(c, a, n, g)'
  BY <1>1, <1>2, <1>5, <1>8, <1>9 DEF CarriedAt
<1> QED
  BY <1>10 DEF Carried

LEMMA CarriedFrame ==
    ASSUME NEW c, NEW a, NEW n, Carried(c, a, n), script' = script,
           said'[c] = said[c], gone[c] => gone'[c], stream'[c] = stream[c]
    PROVE  Carried(c, a, n)'
<1>1. PICK g \in [a + 1 .. said[c] + 1 -> Int] : CarriedAt(c, a, n, g)
  BY DEF Carried
<1>2. \A j, o, k : Lies(c, j, o, k) => Lies(c, j, o, k)'
  BY DEF Lies
<1>3. \A o : Ends(c, o) => Ends(c, o)'
  BY <1>2 DEF Ends, Says, Lies
<1>4. CarriedAt(c, a, n, g)'
  BY <1>1, <1>2, <1>3 DEF CarriedAt, Lies
<1> QED
  BY <1>4 DEF Carried

-----------------------------------------------------------------------------
(* The queue, which the connections share. *)

LEMMA PushMine ==
    ASSUME NEW S, deq \in Seq(S), NEW c, NEW a \in Nat, NEW b \in Nat, a <= b,
           InQueue(c, a, b), NEW e \in S,
           e = [remote |-> c, msg |-> Framed(script[c][b + 1])],
           deq' = Append(deq, e), script' = script
    PROVE  InQueue(c, a, b + 1)'
<1>1. PICK h \in [a + 1 .. b -> 1 .. Len(deq)] : QueuedAt(c, a, b, h)
  BY DEF InQueue
<1>2. PICK l, p : l = Len(deq) /\ p = b + 1
  OBVIOUS
<1>3. /\ l \in Nat /\ Len(deq') = l + 1 /\ deq'[l + 1] = e
      /\ \A i \in 1 .. l : deq'[i] = deq[i]
  BY <1>2, AppendFacts
<1>4. /\ \A j \in a + 1 .. b : h[j] \in 1 .. l
      /\ p \in a + 1 .. p /\ p \notin a + 1 .. b /\ p \in Nat
      /\ \A j \in a + 1 .. p : j = p \/ j \in a + 1 .. b
      /\ \A j \in a + 1 .. b : j < p /\ j \in a + 1 .. p
  BY <1>1, <1>2
<1>5. PICK f : f = [j \in a + 1 .. p |-> IF j = p THEN l + 1 ELSE h[j]]
  OBVIOUS
<1>6. /\ f[p] = l + 1
      /\ \A j \in a + 1 .. b : f[j] = h[j]
  BY <1>4, <1>5
<1>7. ASSUME NEW j \in a + 1 .. p
      PROVE  f[j] \in 1 .. l + 1
  <2>1. CASE j = p
    BY <1>3, <1>6, <2>1
  <2>2. CASE j \in a + 1 .. b
    <3>1. f[j] = h[j] /\ h[j] \in 1 .. l
      BY <1>4, <1>6, <2>2
    <3> QED
      BY <1>3, <3>1
  <2> QED
    BY <1>4, <2>1, <2>2
<1>8. f \in [a + 1 .. p -> 1 .. l + 1]
  BY <1>5, <1>7
<1>9. ASSUME NEW j \in a + 1 .. p, NEW k \in a + 1 .. p, j < k
      PROVE  f[j] < f[k]
  <2>1. j \in a + 1 .. b
    BY <1>2, <1>4, <1>9
  <2>2. CASE k = p
    BY <1>3, <1>4, <1>6, <2>1, <2>2
  <2>3. CASE k \in a + 1 .. b
    BY <1>1, <1>6, <1>9, <2>1, <2>3 DEF QueuedAt
  <2> QED
    BY <1>4, <2>2, <2>3
<1>10. ASSUME NEW j \in a + 1 .. p
       PROVE  deq'[f[j]] = [remote |-> c, msg |-> Framed(script[c][j])]
  <2>1. CASE j = p
    BY <1>2, <1>3, <1>6, <2>1
  <2>2. CASE j \in a + 1 .. b
    <3>1. deq[h[j]] = [remote |-> c, msg |-> Framed(script[c][j])]
      BY <1>1, <2>2 DEF QueuedAt
    <3> QED
      BY <1>3, <1>4, <1>6, <2>2, <3>1
  <2> QED
    BY <1>4, <2>1, <2>2
<1>11. ASSUME NEW i \in 1 .. l + 1, deq'[i].remote = c
       PROVE  \E j \in a + 1 .. p : f[j] = i
  <2>1. CASE i = l + 1
    BY <1>4, <1>6, <2>1
  <2>2. CASE i \in 1 .. l
    <3>1. \E j \in a + 1 .. b : h[j] = i
      BY <1>1, <1>2, <1>3, <1>11, <2>2 DEF QueuedAt
    <3> QED
      BY <1>4, <1>6, <3>1
  <2> QED
    BY <1>3, <2>1, <2>2
<1>12. QueuedAt(c, a, p, f)'
  <2>1. script' = script
    OBVIOUS
  <2> QED
    BY <1>3, <1>9, <1>10, <1>11, <2>1 DEF QueuedAt, Framed
<1>13. InQueue(c, a, p)'
  BY <1>3, <1>8, <1>12 DEF InQueue
<1> QED
  BY <1>2, <1>13

LEMMA PushOther ==
    ASSUME NEW S, deq \in Seq(S), NEW c, NEW a \in Nat, NEW b \in Nat,
           InQueue(c, a, b), NEW e \in S, e.remote # c,
           deq' = Append(deq, e), script' = script
    PROVE  InQueue(c, a, b)'
<1>1. PICK h \in [a + 1 .. b -> 1 .. Len(deq)] : QueuedAt(c, a, b, h)
  BY DEF InQueue
<1>2. PICK l : l = Len(deq)
  OBVIOUS
<1>3. /\ l \in Nat /\ Len(deq') = l + 1 /\ deq'[l + 1] = e
      /\ \A i \in 1 .. l : deq'[i] = deq[i]
  BY <1>2, AppendFacts
<1>4. /\ \A j \in a + 1 .. b : h[j] \in 1 .. l
      /\ \A i \in 1 .. l : i \in 1 .. l + 1
      /\ \A i \in 1 .. l + 1 : i = l + 1 \/ i \in 1 .. l
  BY <1>1, <1>2, <1>3
<1>5. h \in [a + 1 .. b -> 1 .. l + 1]
  BY <1>1, <1>2, <1>4
<1>6. ASSUME NEW j \in a + 1 .. b
      PROVE  deq'[h[j]] = [remote |-> c, msg |-> Framed(script[c][j])]
  <2>1. deq[h[j]] = [remote |-> c, msg |-> Framed(script[c][j])]
    BY <1>1 DEF QueuedAt
  <2> QED
    BY <1>3, <1>4, <2>1
<1>7. ASSUME NEW i \in 1 .. l + 1, deq'[i].remote = c
      PROVE  \E j \in a + 1 .. b : h[j] = i
  BY <1>1, <1>2, <1>3, <1>4, <1>7 DEF QueuedAt
<1>8. QueuedAt(c, a, b, h)'
  BY <1>1, <1>3, <1>6, <1>7 DEF QueuedAt, Framed
<1> QED
  BY <1>3, <1>5, <1>8 DEF InQueue

LEMMA TakeMine ==
    ASSUME NEW S, deq \in Seq(S), deq # <<>>, NEW c, NEW a \in Nat, NEW b \in Nat,
           InQueue(c, a, b), Head(deq).remote = c,
           deq' = Tail(deq), script' = script
    PROVE  /\ a < b /\ Head(deq) = [remote |-> c, msg |-> Framed(script[c][a + 1])]
           /\ InQueue(c, a + 1, b)'
<1>1. PICK h \in [a + 1 .. b -> 1 .. Len(deq)] : QueuedAt(c, a, b, h)
  BY DEF InQueue
<1>2. PICK l, p : l = Len(deq) /\ p = a + 1
  OBVIOUS
<1>3. /\ l \in Nat \ {0} /\ Len(deq') = l - 1 /\ Head(deq) = deq[1]
      /\ \A i \in 1 .. l - 1 : deq'[i] = deq[i + 1]
  BY <1>2, TailFacts
<1>4. PICK k \in p .. b : h[k] = 1
  BY <1>1, <1>2, <1>3 DEF QueuedAt
<1>5. p \in p .. b /\ p \in Nat /\ h \in [p .. b -> 1 .. l]
  BY <1>1, <1>2, <1>4
<1>6. \A j, i \in p .. b : j < i => h[j] < h[i]
  BY <1>1, <1>2 DEF QueuedAt
<1>7. k = p
  <2> SUFFICES ASSUME k # p PROVE FALSE
    OBVIOUS
  <2>1. p < k
    BY <1>4, <1>5
  <2>2. h[p] < 1 /\ h[p] \in 1 .. l
    BY <1>4, <1>5, <1>6, <2>1
  <2> QED
    BY <1>3, <2>2
<1>8. Head(deq) = [remote |-> c, msg |-> Framed(script[c][a + 1])]
  BY <1>1, <1>2, <1>3, <1>4, <1>5, <1>7 DEF QueuedAt
<1>9. ASSUME NEW j \in p + 1 .. b
      PROVE  j \in p .. b /\ h[j] - 1 \in 1 .. l - 1
  <2>1. j \in p .. b /\ p < j
    BY <1>5
  <2>2. h[p] < h[j] /\ h[j] \in 1 .. l
    BY <1>5, <1>6, <2>1
  <2> QED
    BY <1>3, <1>4, <1>7, <2>1, <2>2
<1>10. PICK f : f = [j \in p + 1 .. b |-> h[j] - 1]
  OBVIOUS
<1>11. /\ f \in [p + 1 .. b -> 1 .. l - 1]
       /\ \A j \in p + 1 .. b : f[j] = h[j] - 1
  BY <1>9, <1>10
<1>12. ASSUME NEW j \in p + 1 .. b, NEW i \in p + 1 .. b, j < i
       PROVE  f[j] < f[i]
  <2>1. h[j] < h[i] /\ h[j] \in Int /\ h[i] \in Int
    BY <1>5, <1>6, <1>9, <1>12
  <2> QED
    BY <1>11, <2>1
<1>13. ASSUME NEW j \in p + 1 .. b
       PROVE  deq'[f[j]] = [remote |-> c, msg |-> Framed(script[c][j])]
  <2>1. deq[h[j]] = [remote |-> c, msg |-> Framed(script[c][j])]
    BY <1>1, <1>2, <1>9 DEF QueuedAt
  <2>2. PICK x : x = f[j]
    OBVIOUS
  <2>3. x \in 1 .. l - 1 /\ x + 1 = h[j]
    BY <1>5, <1>9, <1>11, <2>2
  <2>4. deq'[x] = deq[x + 1]
    BY <1>3, <2>3
  <2> QED
    BY <2>1, <2>2, <2>3, <2>4
<1>14. ASSUME NEW i \in 1 .. l - 1, deq'[i].remote = c
       PROVE  \E j \in p + 1 .. b : f[j] = i
  <2>1. i + 1 \in 1 .. l /\ deq[i + 1].remote = c
    BY <1>3, <1>14
  <2>2. PICK j \in p .. b : h[j] = i + 1
    BY <1>1, <1>2, <2>1 DEF QueuedAt
  <2>3. j # p
    BY <1>3, <1>4, <1>7, <2>2
  <2>4. j \in p + 1 .. b
    BY <1>5, <2>3
  <2>5. f[j] = (i + 1) - 1
    BY <1>11, <2>2, <2>4
  <2>6. f[j] = i
    BY <2>5
  <2> QED
    BY <2>4, <2>6
<1>15. QueuedAt(c, p, b, f)'
  BY <1>3, <1>12, <1>13, <1>14 DEF QueuedAt, Framed
<1>16. InQueue(c, p, b)'
  BY <1>3, <1>11, <1>15 DEF InQueue
<1> QED
  BY <1>2, <1>5, <1>8, <1>16

LEMMA TakeOther ==
    ASSUME NEW S, deq \in Seq(S), deq # <<>>, NEW c, NEW a \in Nat, NEW b \in Nat,
           InQueue(c, a, b), Head(deq).remote # c,
           deq' = Tail(deq), script' = script
    PROVE  InQueue(c, a, b)'
<1>1. PICK h \in [a + 1 .. b -> 1 .. Len(deq)] : QueuedAt(c, a, b, h)
  BY DEF InQueue
<1>2. PICK l : l = Len(deq)
  OBVIOUS
<1>3. /\ l \in Nat \ {0} /\ Len(deq') = l - 1 /\ Head(deq) = deq[1]
      /\ \A i \in 1 .. l - 1 : deq'[i] = deq[i + 1]
  BY <1>2, TailFacts
<1>4. ASSUME NEW j \in a + 1 .. b
      PROVE  h[j] \in Int /\ h[j] - 1 \in 1 .. l - 1 /\ deq[h[j]].remote = c
  <2>1. deq[h[j]] = [remote |-> c, msg |-> Framed(script[c][j])] /\ h[j] \in 1 .. l
    BY <1>1, <1>2 DEF QueuedAt
  <2>2. h[j] # 1
    BY <1>3, <2>1
  <2> QED
    BY <1>3, <2>1, <2>2
<1>5. PICK f : f = [j \in a + 1 .. b |-> h[j] - 1]
  OBVIOUS
<1>6. /\ f \in [a + 1 .. b -> 1 .. l - 1]
      /\ \A j \in a + 1 .. b : f[j] = h[j] - 1
  BY <1>4, <1>5
<1>7. ASSUME NEW j \in a + 1 .. b, NEW i \in a + 1 .. b, j < i
      PROVE  f[j] < f[i]
  <2>1. h[j] < h[i] /\ h[j] \in Int /\ h[i] \in Int
    BY <1>1, <1>4, <1>7 DEF QueuedAt
  <2> QED
    BY <1>6, <2>1
<1>8. ASSUME NEW j \in a + 1 .. b
      PROVE  deq'[f[j]] = [remote |-> c, msg |-> Framed(script[c][j])]
  <2>1. deq[h[j]] = [remote |-> c, msg |-> Framed(script[c][j])]
    BY <1>1 DEF QueuedAt
  <2>2. PICK x : x = f[j]
    OBVIOUS
  <2>3. x \in 1 .. l - 1 /\ x + 1 = h[j]
    BY <1>4, <1>6, <2>2
  <2>4. deq'[x] = deq[x + 1]
    BY <1>3, <2>3
  <2> QED
    BY <2>1, <2>2, <2>3, <2>4
<1>9. ASSUME NEW i \in 1 .. l - 1, deq'[i].remote = c
      PROVE  \E j \in a + 1 .. b : f[j] = i
  <2>1. i + 1 \in 1 .. l /\ deq[i + 1].remote = c
    BY <1>3, <1>9
  <2>2. PICK j \in a + 1 .. b : h[j] = i + 1
    BY <1>1, <1>2, <2>1 DEF QueuedAt
  <2> QED
    BY <1>3, <1>6, <2>2
<1>10. QueuedAt(c, a, b, f)'
  BY <1>3, <1>7, <1>8, <1>9 DEF QueuedAt, Framed
<1> QED
  BY <1>3, <1>6, <1>10 DEF InQueue

LEMMA QueueFrame ==
    ASSUME NEW c, NEW a, NEW b, InQueue(c, a, b), deq' = deq, script' = script
    PROVE  InQueue(c, a, b)'
  BY DEF InQueue, QueuedAt, Framed

-----------------------------------------------------------------------------
(* What a step does not touch stays in place. *)

LEMMA KnownOf ==
    ASSUME IInv, NEW c \in There
    PROVE  /\ Known(c) /\ c # Loop
           /\ said[c] \in Nat /\ Len(taken[c]) \in Nat
  BY ScriptAssumption DEF IInv, InPlace, Known, TypeOK, TakenWhole, There

SameReader(c) ==
    reading'[c] = reading[c] /\ done'[c] = done[c] /\ forming'[c] = forming[c]

SameStream(c) ==
    said'[c] = said[c] /\ (gone[c] => gone'[c]) /\ stream'[c] = stream[c]

(* The reader stands where it did; the peer may have written more. *)
LEMMA ReadsOn ==
    ASSUME NEW c, Known(c), NEW a \in Nat, a <= said[c], Reads(c, a), SameReader(c),
           script' = script, io' = c => io = c,
           \A n \in Nat : Carried(c, a, n) => Carried(c, a, n)'
    PROVE  Reads(c, a)'
<1>1. PICK m : m = script[c][a + 1]
  OBVIOUS
<1>2. a < Len(script[c]) => Len(Body(m)) \in Nat
  <2>1. ASSUME a < Len(script[c]) PROVE Len(Body(m)) \in Nat
    <3>1. a + 1 \in 1 .. Len(script[c])
      BY <2>1, ScriptFacts
    <3>2. Sayable(m)
      BY <1>1, <3>1, ScriptFacts
    <3> QED
      BY <3>2, BodyType
  <2> QED
    BY <2>1
<1>3. \A n \in Nat : \A body : Begun(c, a, n, body) => Begun(c, a, n, body)'
  BY DEF Begun, SameReader
<1>4. CASE reading[c] = "header" /\ ~done[c] /\ Carried(c, a, 0) /\ forming[c] = NoMessage
  BY <1>4 DEF Reads, SameReader
<1>5. CASE reading[c] = "header" /\ done[c] /\ Begun(c, a, 1, <<>>)
  BY <1>3, <1>5 DEF Reads, SameReader
<1>6. CASE /\ reading[c] = "body" /\ ~done[c]
           /\ Begun(c, a, 1, <<>>) /\ forming[c].size > 0
  BY <1>3, <1>6 DEF Reads, SameReader
<1>7. CASE /\ reading[c] = "body" /\ done[c]
           /\ Begun(c, a, 1 + Len(Body(script[c][a + 1])), Body(script[c][a + 1]))
  <2>1. PICK k, b : k = 1 + Len(Body(m)) /\ b = Body(m)
    OBVIOUS
  <2>2. k \in Nat /\ Begun(c, a, k, b)
    BY <1>1, <1>2, <1>7, <2>1 DEF Begun
  <2>3. Begun(c, a, k, b)'
    BY <1>3, <2>2
  <2>4. /\ script'[c][a + 1] = m /\ Body(script[c][a + 1])' = b
        /\ (1 + Len(Body(script[c][a + 1])))' = k
    BY <1>1, <2>1 DEF Body
  <2> QED
    BY <1>7, <2>3, <2>4 DEF Reads, SameReader, Begun
<1>8. CASE reading[c] = "nothing" /\ ~done[c] /\ (io = c => Carried(c, a, 0))
  BY <1>8 DEF Reads, SameReader
<1> QED
  BY <1>4, <1>5, <1>6, <1>7, <1>8 DEF Reads

LEMMA ReadsFrame ==
    ASSUME NEW c, Known(c), NEW a \in Nat, a <= said[c], Reads(c, a), SameReader(c),
           SameStream(c), script' = script, io' = c => io = c
    PROVE  Reads(c, a)'
<1>1. \A n \in Nat : Carried(c, a, n) => Carried(c, a, n)'
  BY CarriedFrame DEF SameStream
<1> QED
  BY <1>1, ReadsOn

(* Of c nothing changes but its place in the queue. *)
LEMMA PlaceFrame ==
    ASSUME IInv, NEW c \in There, SameReader(c), SameStream(c), script' = script,
           io' = c => io = c, taken'[c] = taken[c],
           \A a, b \in Nat : InQueue(c, a, b) => InQueue(c, a, b)'
    PROVE  InPlace(c)'
<1>1. Known(c) /\ said[c] \in Nat /\ Len(taken[c]) \in Nat
  BY KnownOf
<1>2. PICK a \in Len(taken[c]) .. said[c] :
         /\ InQueue(c, Len(taken[c]), a) /\ Reads(c, a)
         /\ io = c => reading[c] = "nothing"
  BY DEF IInv, InPlace, Placed
<1>3. a \in Nat /\ a <= said[c]
  BY <1>1
<1>4. Reads(c, a)'
  BY <1>1, <1>2, <1>3, ReadsFrame
<1>5. PICK b : b = Len(taken[c])
  OBVIOUS
<1>6. InQueue(c, b, a)' /\ Len(taken'[c]) = b
  BY <1>1, <1>2, <1>3, <1>5
<1>7. Placed(c)'
  BY <1>2, <1>4, <1>5, <1>6 DEF Placed, SameReader, SameStream, InQueue
<1>8. said'[c] <= Len(script'[c]) /\ TakenWhole(c)'
  BY DEF IInv, InPlace, TakenWhole, Decoded, Body, SameStream
<1> QED
  BY <1>7, <1>8 DEF InPlace

LEMMA PlaceStays ==
    ASSUME IInv, NEW c \in There, SameReader(c), SameStream(c), script' = script,
           io' = c => io = c, taken'[c] = taken[c], deq' = deq
    PROVE  InPlace(c)'
<1>1. \A a, b \in Nat : InQueue(c, a, b) => InQueue(c, a, b)'
  BY QueueFrame
<1> QED
  BY <1>1, PlaceFrame

-----------------------------------------------------------------------------
(* The peer. *)

LEMMA PeerWritesKeeps ==
    ASSUME IInv, NEW c \in There, PeerWrites(c)
    PROVE  IInv'
<1>0. /\ Known(c) /\ c # Loop /\ said[c] \in Nat /\ There' = There
      /\ said[c] < Len(script[c]) /\ Len(script[c]) \in Nat
      /\ script' = script /\ ~gone[c] /\ gone' = gone
  BY KnownOf, ScriptFacts DEF PeerWrites, There
<1>1. PICK t : t = Cells(Says(c))
  OBVIOUS
<1>2. t \in Seq(Cell)
  <2>1. said[c] + 1 \in 1 .. Len(script[c])
    BY <1>0
  <2> QED
    BY <1>0, <1>1, <2>1, ScriptFacts DEF Says
<1>3. /\ said'[c] = said[c] + 1 /\ stream'[c] = stream[c] \o t
      /\ said' \in [There -> Nat] /\ stream' \in [There -> Seq(Cell)]
      /\ \A d \in There \ {c} : said'[d] = said[d] /\ stream'[d] = stream[d]
  <2>1. stream[c] \o t \in Seq(Cell)
    BY <1>0, <1>2, JoinFacts DEF Known
  <2>2. stream' = [stream EXCEPT ![c] = stream[c] \o t]
    BY <1>1 DEF PeerWrites
  <2> QED
    <3>1. said' = [said EXCEPT ![c] = said[c] + 1]
      BY DEF PeerWrites
    <3>2. said \in [There -> Nat] /\ stream \in [There -> Seq(Cell)] /\ said[c] + 1 \in Nat
      BY <1>0 DEF IInv, TypeOK
    <3>3. /\ said'[c] = said[c] + 1 /\ said' \in [There -> Nat]
          /\ \A d \in There \ {c} : said'[d] = said[d]
      BY <3>1, <3>2
    <3>4. /\ stream'[c] = stream[c] \o t /\ stream' \in [There -> Seq(Cell)]
          /\ \A d \in There \ {c} : stream'[d] = stream[d]
      BY <2>1, <2>2, <3>2
    <3> QED
      BY <3>3, <3>4
<1>4. TypeOK'
  BY <1>0, <1>3 DEF IInv, TypeOK, PeerWrites, readVars
<1>5. ASSUME NEW d \in There \ {c}
      PROVE  InPlace(d)'
  <2>1. SameReader(d) /\ SameStream(d)
    BY <1>0, <1>3 DEF SameReader, SameStream, PeerWrites, readVars
  <2> QED
    BY <1>0, <2>1, PlaceStays DEF PeerWrites
<1>6. InPlace(c)'
  <2>1. PICK a \in Len(taken[c]) .. said[c] :
           /\ InQueue(c, Len(taken[c]), a) /\ Reads(c, a)
           /\ io = c => reading[c] = "nothing"
    BY DEF IInv, InPlace, Placed
  <2>2. a \in Nat /\ a <= said[c]
    BY <1>0, KnownOf
  <2>3. \A n \in Nat : Carried(c, a, n) => Carried(c, a, n)'
    BY <1>0, <1>1, <1>3, <2>2, WritesCarried
  <2>4. SameReader(c) /\ UNCHANGED <<deq, taken, io, reading>>
    BY DEF SameReader, PeerWrites, readVars
  <2>5. Reads(c, a)'
    BY <1>0, <2>1, <2>2, <2>3, <2>4, ReadsOn
  <2>6. InQueue(c, Len(taken[c]), a)'
    BY <1>0, <2>1, <2>4 DEF InQueue, QueuedAt, Framed
  <2>7. a \in Len(taken'[c]) .. said'[c]
    BY <1>0, <1>3, <2>2, <2>4
  <2>8. Placed(c)'
    BY <2>1, <2>4, <2>5, <2>6, <2>7 DEF Placed
  <2>9. said'[c] <= Len(script'[c])
    BY <1>0, <1>3
  <2>10. TakenWhole(c)'
    BY <1>0, <2>4 DEF IInv, InPlace, TakenWhole, Decoded, Body
  <2> QED
    BY <2>8, <2>9, <2>10 DEF InPlace
<1> QED
  BY <1>0, <1>4, <1>5, <1>6 DEF IInv

LEMMA PeerLeavesKeeps ==
    ASSUME IInv, NEW c \in There, PeerLeaves(c)
    PROVE  IInv'
<1>0. /\ Known(c) /\ c # Loop /\ said[c] \in Nat /\ There' = There
      /\ script' = script /\ said' = said /\ ~gone[c] /\ gone'[c]
      /\ gone' \in [There -> BOOLEAN]
      /\ \A d \in There \ {c} : gone'[d] = gone[d]
  BY KnownOf DEF PeerLeaves, There, IInv, TypeOK
<1>1. \/ stream' = stream
      \/ /\ said[c] < Len(script[c])
         /\ \E n \in 1 .. (Len(Cells(Says(c))) - 1) :
               stream' = [stream EXCEPT ![c] = stream[c] \o SubSeq(Cells(Says(c)), 1, n)]
  BY DEF PeerLeaves
<1>2. /\ stream' \in [There -> Seq(Cell)]
      /\ \A d \in There \ {c} : stream'[d] = stream[d]
      /\ \/ stream'[c] = stream[c]
         \/ /\ said[c] < Len(script[c])
            /\ \E n \in 1 .. (Len(Cells(Says(c))) - 1) :
                  stream'[c] = stream[c] \o SubSeq(Cells(Says(c)), 1, n)
  <2>1. CASE stream' = stream
    BY <2>1 DEF IInv, TypeOK
  <2>2. CASE /\ said[c] < Len(script[c])
             /\ \E n \in 1 .. (Len(Cells(Says(c))) - 1) :
                   stream' = [stream EXCEPT ![c] = stream[c] \o SubSeq(Cells(Says(c)), 1, n)]
    <3>1. PICK n \in 1 .. (Len(Cells(Says(c))) - 1) :
             stream' = [stream EXCEPT ![c] = stream[c] \o SubSeq(Cells(Says(c)), 1, n)]
      BY <2>2
    <3>2. PICK u, v : u = Cells(Says(c)) /\ v = SubSeq(u, 1, n)
      OBVIOUS
    <3>3. said[c] + 1 \in 1 .. Len(script[c])
      BY <1>0, <2>2, ScriptFacts
    <3>4. u \in Seq(Cell) /\ Len(u) \in Nat /\ n \in 0 .. Len(u)
      BY <1>0, <3>1, <3>2, <3>3, ScriptFacts DEF Says
    <3>5. v \in Seq(Cell)
      BY <3>2, <3>4, PartFacts
    <3>6. stream[c] \o v \in Seq(Cell)
      BY <1>0, <3>5, JoinFacts DEF Known
    <3>7. stream' = [stream EXCEPT ![c] = stream[c] \o v]
      BY <3>1, <3>2
    <3>8. stream \in [There -> Seq(Cell)]
      BY DEF IInv, TypeOK
    <3>9. /\ stream' \in [There -> Seq(Cell)] /\ stream'[c] = stream[c] \o v
          /\ \A d \in There \ {c} : stream'[d] = stream[d]
      BY <3>6, <3>7, <3>8
    <3> QED
      BY <2>2, <3>1, <3>2, <3>9
  <2> QED
    BY <1>1, <2>1, <2>2
<1>3. TypeOK'
  BY <1>0, <1>2 DEF IInv, TypeOK, PeerLeaves, readVars
<1>4. ASSUME NEW d \in There \ {c}
      PROVE  InPlace(d)'
  <2>1. SameReader(d) /\ SameStream(d)
    BY <1>0, <1>2 DEF SameReader, SameStream, PeerLeaves, readVars
  <2> QED
    BY <1>0, <2>1, PlaceStays DEF PeerLeaves
<1>5. InPlace(c)'
  <2>1. PICK a \in Len(taken[c]) .. said[c] :
           /\ InQueue(c, Len(taken[c]), a) /\ Reads(c, a)
           /\ io = c => reading[c] = "nothing"
    BY DEF IInv, InPlace, Placed
  <2>2. a \in Nat /\ a <= said[c] /\ said'[c] = said[c]
    BY <1>0, KnownOf
  <2>3. ASSUME NEW n \in Nat, Carried(c, a, n)
        PROVE  Carried(c, a, n)'
    <3>1. CASE stream'[c] = stream[c]
      BY <1>0, <2>3, <3>1, CarriedFrame
    <3>2. CASE /\ said[c] < Len(script[c])
               /\ \E i \in 1 .. (Len(Cells(Says(c))) - 1) :
                     stream'[c] = stream[c] \o SubSeq(Cells(Says(c)), 1, i)
      BY <1>0, <2>2, <2>3, <3>2, LeavesCarried
    <3> QED
      BY <1>2, <3>1, <3>2
  <2>4. SameReader(c) /\ UNCHANGED <<deq, taken, io, reading>>
    BY DEF SameReader, PeerLeaves, readVars
  <2>5. Reads(c, a)'
    BY <1>0, <2>1, <2>2, <2>3, <2>4, ReadsOn
  <2>6. InQueue(c, Len(taken[c]), a)'
    <3>1. PICK t : t = Len(taken[c])
      OBVIOUS
    <3>2. InQueue(c, t, a)'
      BY <1>0, <2>1, <2>4, <3>1, QueueFrame
    <3> QED
      BY <2>4, <3>1, <3>2 DEF InQueue
  <2>7. a \in Len(taken'[c]) .. said'[c]
    BY <1>0, <2>2, <2>4
  <2>8. Placed(c)'
    BY <2>1, <2>4, <2>5, <2>6, <2>7 DEF Placed
  <2>9. TakenWhole(c)' /\ said'[c] <= Len(script'[c])
    BY <1>0, <2>4 DEF IInv, InPlace, TakenWhole, Decoded, Body
  <2> QED
    BY <2>8, <2>9 DEF InPlace
<1> QED
  BY <1>0, <1>3, <1>4, <1>5 DEF IInv

-----------------------------------------------------------------------------
(* The io thread. *)

(* The message that is being read when a messages have been pushed. *)
LEMMA MessageOf ==
    ASSUME NEW c, Known(c), NEW a \in Nat, a < Len(script[c]),
           NEW m, m = script[c][a + 1]
    PROVE  /\ Sayable(m) /\ Body(m) \in Bytes /\ Len(Body(m)) \in Nat
           /\ Len(Cells(m)) = 1 + Len(Body(m))
           /\ Cells(m)[1] = HeaderCell(m.id, Len(Body(m)))
           /\ \A i \in 1 .. Len(Body(m)) : Cells(m)[i + 1] = ByteCell(Body(m)[i])
<1>1. a + 1 \in 1 .. Len(script[c])
  BY ScriptFacts
<1>2. Sayable(m)
  BY <1>1, ScriptFacts
<1> QED
  BY <1>2, BodyType, CellsAre

LEMMA HeaderArrives ==
    ASSUME IInv, NEW c \in There, ReadCompletes(c), reading[c] = "header",
           NEW a \in Nat, a <= said[c], Reads(c, a)
    PROVE  Reads(c, a)' /\ forming'[c] \in Read
<1>0. /\ Known(c) /\ script' = script /\ said' = said /\ gone' = gone /\ reading' = reading
      /\ ~done[c] /\ done'[c] /\ Carried(c, a, 0) /\ forming[c] = NoMessage
  BY KnownOf DEF ReadCompletes, Reads, IInv, TypeOK
<1>1. PICK s : s = stream[c]
  OBVIOUS
<1>2. s \in Seq(Cell) /\ Len(s) \in Nat \ {0} /\ Wanted(c) = 1
  BY <1>0, <1>1 DEF ReadCompletes, Wanted, Known
<1>3. SubSeq(s, 1, 1)[1] = s[1] /\ stream'[c] = SubSeq(s, 1 + 1, Len(s))
  <2>1. 1 \in 0 .. Len(s)
    BY <1>2
  <2>2. SubSeq(s, 1, 1)[1] = s[1]
    BY <1>2, <2>1, PartFacts
  <2> QED
    BY <1>1, <1>2, <2>2 DEF ReadCompletes, IInv, TypeOK
<1>4. forming'[c] = [id |-> s[1].id, size |-> s[1].value, body |-> <<>>]
  <2>1. forming' = [forming EXCEPT ![c] =
                      [@ EXCEPT !.id = SubSeq(s, 1, 1)[1].id, !.size = SubSeq(s, 1, 1)[1].value]]
    BY <1>1, <1>2 DEF ReadCompletes
  <2> QED
    <3>1. PICK x, y : x = s[1].id /\ y = s[1].value
      OBVIOUS
    <3>2. PICK f : f = forming[c]
      OBVIOUS
    <3>3. f = [id |-> "none", size |-> 0, body |-> <<>>]
      BY <1>0, <3>2 DEF NoMessage
    <3>4. forming'[c] = [f EXCEPT !.id = x, !.size = y]
      BY <1>3, <2>1, <3>1, <3>2 DEF IInv, TypeOK
    <3> QED
      BY <3>1, <3>3, <3>4
<1>5. PICK m : m = script[c][a + 1]
  OBVIOUS
<1>6. a < Len(script[c]) => 0 + 1 <= Len(Cells(m))
  BY <1>0, <1>5, MessageOf
<1>7. a < Len(script[c]) /\ s[1] = Cells(m)[1]
  <2>1. 1 <= Len(stream[c]) /\ 0 + 1 = 1
    BY <1>1, <1>2
  <2>2. /\ a < Len(script[c])
        /\ \A i \in 1 .. 1 : stream[c][i] = Cells(script[c][a + 1])[0 + i]
    BY <1>0, <1>5, <1>6, <2>1, NextCells
  <2> QED
    BY <1>1, <1>5, <2>1, <2>2
<1>8. /\ Sayable(m) /\ Len(Body(m)) \in Nat
      /\ s[1] = HeaderCell(m.id, Len(Body(m)))
  BY <1>0, <1>5, <1>7, MessageOf
<1>9. forming'[c] = [id |-> m.id, size |-> Len(Body(m)), body |-> <<>>]
  BY <1>4, <1>8 DEF HeaderCell
<1>10. Carried(c, a, 1)'
  <2>1. 1 \in 0 .. Len(stream[c]) /\ 1 = 0 + 1
    BY <1>1, <1>2
  <2>2. stream'[c] = SubSeq(stream[c], 1 + 1, Len(stream[c]))
    BY <1>1, <1>3
  <2> QED
    BY <1>0, <2>1, <2>2, CellsTaken
<1>11. Begun(c, a, 1, <<>>)'
  BY <1>0, <1>5, <1>7, <1>9, <1>10 DEF Begun, Body
<1>12. reading'[c] = "header"
  BY <1>0
<1> QED
  BY <1>0, <1>8, <1>9, <1>11, <1>12, FramedType DEF Reads

LEMMA BodyArrives ==
    ASSUME IInv, NEW c \in There, ReadCompletes(c), reading[c] = "body",
           NEW a \in Nat, a <= said[c], Reads(c, a)
    PROVE  Reads(c, a)' /\ forming'[c] \in Read
<1>0. /\ Known(c) /\ script' = script /\ said' = said /\ gone' = gone /\ reading' = reading
      /\ ~done[c] /\ done'[c] /\ Begun(c, a, 1, <<>>) /\ forming[c].size > 0
  BY KnownOf DEF ReadCompletes, Reads, IInv, TypeOK
<1>1. PICK s, m : s = stream[c] /\ m = script[c][a + 1]
  OBVIOUS
<1>2. PICK b, w : b = Body(m) /\ w = Len(b)
  OBVIOUS
<1>3. /\ a < Len(script[c]) /\ Carried(c, a, 1)
      /\ forming[c] = [id |-> m.id, size |-> w, body |-> <<>>]
  BY <1>0, <1>1, <1>2 DEF Begun
<1>4. /\ Sayable(m) /\ b \in Bytes /\ w \in Nat \ {0} /\ Len(Cells(m)) = 1 + w
      /\ \A i \in 1 .. w : Cells(m)[i + 1] = ByteCell(b[i])
  <2>1. w > 0
    BY <1>0, <1>3
  <2> QED
    BY <1>0, <1>1, <1>2, <1>3, <2>1, MessageOf
<1>5. /\ s \in Seq(Cell) /\ Len(s) \in Nat /\ Wanted(c) = w /\ w <= Len(s)
      /\ w \in 0 .. Len(s)
  <2>1. s \in Seq(Cell) /\ Wanted(c) = w
    BY <1>0, <1>1, <1>3 DEF Wanted, Known
  <2>2. Len(s) >= w
    BY <1>1, <2>1 DEF ReadCompletes
  <2> QED
    BY <1>4, <2>1, <2>2
<1>6. \A i \in 1 .. w : s[i] = ByteCell(b[i])
  <2>1. 1 + w <= Len(Cells(script[c][a + 1])) /\ w <= Len(stream[c])
    BY <1>1, <1>4, <1>5
  <2>2. \A i \in 1 .. w : stream[c][i] = Cells(script[c][a + 1])[1 + i]
    BY <1>0, <1>3, <1>4, <2>1, NextCells
  <2>3. \A i \in 1 .. w : 1 + i = i + 1
    BY <1>4
  <2> QED
    BY <1>1, <1>4, <2>2, <2>3
<1>7. PICK p : p = SubSeq(s, 1, w)
  OBVIOUS
<1>8. \A i \in 1 .. w : p[i] = s[i]
  BY <1>5, <1>7, PartFacts
<1>9. [i \in 1 .. w |-> p[i].value] = b
  <2>1. b \in [1 .. w -> Byte]
    BY <1>2, <1>4 DEF Bytes
  <2>2. \A i \in 1 .. w : p[i].value = b[i]
    <3>1. ASSUME NEW i \in 1 .. w PROVE p[i].value = b[i]
      <4>1. p[i] = ByteCell(b[i])
        BY <1>6, <1>8
      <4> QED
        BY <4>1 DEF ByteCell
    <3> QED
      BY <3>1
  <2> QED
    BY <2>1, <2>2
<1>10. forming'[c] = [id |-> m.id, size |-> w, body |-> b]
  <2>1. forming' = [forming EXCEPT ![c] =
                      [@ EXCEPT !.body = [i \in 1 .. w |-> p[i].value]]]
    BY <1>0, <1>1, <1>5, <1>7 DEF ReadCompletes
  <2> QED
    <3>1. PICK f : f = forming[c]
      OBVIOUS
    <3>2. forming'[c] = [f EXCEPT !.body = [i \in 1 .. w |-> p[i].value]]
      BY <2>1, <3>1 DEF IInv, TypeOK
    <3>3. forming'[c] = [f EXCEPT !.body = b]
      BY <1>9, <3>2
    <3> QED
      BY <1>3, <3>1, <3>3
<1>11. stream'[c] = SubSeq(stream[c], w + 1, Len(stream[c]))
  BY <1>1, <1>5 DEF ReadCompletes, IInv, TypeOK
<1>12. PICK k : k = 1 + w
  OBVIOUS
<1>13. Carried(c, a, k)'
  BY <1>0, <1>1, <1>3, <1>5, <1>11, <1>12, CellsTaken
<1>14. /\ (1 + Len(Body(script[c][a + 1])))' = k /\ Body(script[c][a + 1])' = b
       /\ script'[c][a + 1] = m
  BY <1>0, <1>1, <1>2, <1>12 DEF Body
<1>15. Begun(c, a, k, b)'
  BY <1>0, <1>2, <1>3, <1>10, <1>13, <1>14 DEF Begun
<1>16. reading'[c] = "body"
  BY <1>0
<1>17. forming'[c] \in Read
  BY <1>2, <1>4, <1>10, FramedType DEF Framed
<1> QED
  BY <1>0, <1>14, <1>15, <1>16, <1>17 DEF Reads, Begun

LEMMA ReadCompletesKeeps ==
    ASSUME IInv, NEW c \in There, ReadCompletes(c)
    PROVE  IInv'
<1>0. /\ Known(c) /\ c # Loop /\ said[c] \in Nat /\ There' = There
      /\ script' = script /\ said' = said /\ gone' = gone
      /\ reading[c] \in {"header", "body"}
  BY KnownOf DEF ReadCompletes, There, IInv, TypeOK
<1>1. PICK a \in Len(taken[c]) .. said[c] :
         /\ InQueue(c, Len(taken[c]), a) /\ Reads(c, a)
         /\ io = c => reading[c] = "nothing"
  BY DEF IInv, InPlace, Placed
<1>2. a \in Nat /\ a <= said[c]
  BY <1>0, KnownOf
<1>3. Reads(c, a)' /\ forming'[c] \in Read
  BY <1>0, <1>1, <1>2, HeaderArrives, BodyArrives
<1>4. /\ stream' \in [There -> Seq(Cell)]
      /\ \A d \in There \ {c} : stream'[d] = stream[d]
  <2>1. PICK s, w : s = stream[c] /\ w = Wanted(c)
    OBVIOUS
  <2>2. s \in Seq(Cell) /\ Len(s) \in Nat /\ w \in Nat /\ w <= Len(s)
    <3>1. w \in Nat
      BY <2>1 DEF Wanted, IInv, TypeOK, Read
    <3> QED
      BY <1>0, <2>1, <3>1 DEF ReadCompletes, Known
  <2>3. w \in 0 .. Len(s)
    BY <2>2
  <2>4. SubSeq(s, w + 1, Len(s)) \in Seq(Cell)
    BY <2>2, <2>3, PartFacts
  <2>5. stream' = [stream EXCEPT ![c] = SubSeq(s, w + 1, Len(s))]
    BY <2>1 DEF ReadCompletes
  <2> QED
    BY <2>4, <2>5 DEF IInv, TypeOK
<1>5. /\ forming' \in [There -> Read] /\ done' \in [There -> BOOLEAN]
      /\ \A d \in There \ {c} : forming'[d] = forming[d] /\ done'[d] = done[d]
  <2>1. /\ forming \in [There -> Read] /\ done \in [There -> BOOLEAN]
        /\ done' = [done EXCEPT ![c] = TRUE]
    BY DEF IInv, TypeOK, ReadCompletes
  <2>2. PICK z : forming' = [forming EXCEPT ![c] = z]
    BY DEF ReadCompletes
  <2>3. z \in Read
    BY <1>3, <2>1, <2>2
  <2> QED
    BY <2>1, <2>2, <2>3
<1>6. TypeOK'
  BY <1>0, <1>4, <1>5 DEF IInv, TypeOK, ReadCompletes
<1>7. ASSUME NEW d \in There \ {c}
      PROVE  InPlace(d)'
  <2>1. SameReader(d) /\ SameStream(d)
    BY <1>0, <1>4, <1>5 DEF SameReader, SameStream, ReadCompletes
  <2> QED
    BY <1>0, <2>1, PlaceStays DEF ReadCompletes
<1>8. InPlace(c)'
  <2>1. UNCHANGED <<deq, taken, io, reading>>
    BY DEF ReadCompletes
  <2>2. InQueue(c, Len(taken[c]), a)'
    BY <1>0, <1>1, <2>1 DEF InQueue, QueuedAt, Framed
  <2>3. Placed(c)'
    BY <1>0, <1>1, <1>3, <2>1, <2>2 DEF Placed
  <2>4. TakenWhole(c)' /\ said'[c] <= Len(script'[c])
    BY <1>0, <2>1 DEF IInv, InPlace, TakenWhole, Decoded, Body
  <2> QED
    BY <2>3, <2>4 DEF InPlace
<1> QED
  BY <1>0, <1>6, <1>7, <1>8 DEF IInv

(* A whole message goes to the end of the queue. *)
LEMMA PushKeeps ==
    ASSUME IInv, NEW c \in There, NEW a \in Len(taken[c]) .. said[c],
           InQueue(c, Len(taken[c]), a), a < Len(script[c]),
           Carried(c, a, Len(Cells(script[c][a + 1]))),
           forming[c] = Framed(script[c][a + 1]), io = Loop, PushBack(c),
           done' = [done EXCEPT ![c] = FALSE],
           UNCHANGED <<peerVars, open, forming, manner, main, taken>>
    PROVE  IInv'
<1>0. /\ Known(c) /\ c # Loop /\ said[c] \in Nat /\ There' = There
      /\ Len(taken[c]) \in Nat /\ a \in Nat /\ a <= said[c]
      /\ script' = script /\ said' = said /\ gone' = gone /\ stream' = stream
      /\ taken' = taken
  BY KnownOf DEF There, peerVars
<1>1. a + 1 <= said[c] /\ Carried(c, a + 1, 0)
  BY <1>0, MessageRead
<1>2. PICK S : S = [remote : There, msg : {m \in Read : m.id # "none" /\ m.size = Len(m.body)}]
  OBVIOUS
<1>3. PICK e : e = [remote |-> c, msg |-> Framed(script[c][a + 1])]
  OBVIOUS
<1>4. deq \in Seq(S) /\ e \in S /\ deq' = Append(deq, e) /\ e.remote = c
  <2>1. PICK m : m = script[c][a + 1]
    OBVIOUS
  <2>2. Sayable(m)
    BY <1>0, <2>1, MessageOf
  <2>3. Framed(m) \in {r \in Read : r.id # "none" /\ r.size = Len(r.body)}
    BY <2>2, FramedType
  <2>4. e \in S /\ e.remote = c
    BY <1>2, <1>3, <2>1, <2>3
  <2> QED
    BY <1>2, <1>3, <2>4 DEF PushBack, IInv, TypeOK
<1>5. deq' \in Seq(S)
  BY <1>4, AppendFacts
<1>6. /\ io' = c /\ reading'[c] = "nothing" /\ ~done'[c]
      /\ reading' \in [There -> {"header", "body", "nothing"}]
      /\ done' \in [There -> BOOLEAN]
      /\ \A d \in There \ {c} : reading'[d] = reading[d] /\ done'[d] = done[d]
  BY DEF PushBack, IInv, TypeOK
<1>7. TypeOK'
  BY <1>0, <1>2, <1>5, <1>6 DEF IInv, TypeOK, peerVars
<1>8. ASSUME NEW d \in There \ {c}
      PROVE  InPlace(d)'
  <2>1. SameReader(d) /\ SameStream(d)
    BY <1>0, <1>6 DEF SameReader, SameStream
  <2>2. \A i, j \in Nat : InQueue(d, i, j) => InQueue(d, i, j)'
    BY <1>0, <1>4, PushOther
  <2> QED
    BY <1>0, <1>6, <2>1, <2>2, PlaceFrame
<1>9. InPlace(c)'
  <2>1. PICK t, k : t = Len(taken[c]) /\ k = a + 1
    OBVIOUS
  <2>2. t \in Nat /\ t <= a /\ InQueue(c, t, a)
    BY <1>0, <2>1
  <2>3. InQueue(c, t, k)'
    BY <1>0, <1>3, <1>4, <2>1, <2>2, PushMine
  <2>4. Carried(c, k, 0)'
    BY <1>0, <1>1, <2>1, CarriedFrame
  <2>5. Reads(c, k)'
    BY <1>6, <2>4 DEF Reads
  <2>6. k \in t .. said[c] /\ Len(taken'[c]) = t
    BY <1>0, <1>1, <2>1, <2>2
  <2>7. Placed(c)'
    BY <1>0, <1>6, <2>3, <2>5, <2>6 DEF Placed, InQueue
  <2>8. TakenWhole(c)' /\ said'[c] <= Len(script'[c])
    BY <1>0 DEF IInv, InPlace, TakenWhole, Decoded, Body
  <2> QED
    BY <2>7, <2>8 DEF InPlace
<1> QED
  BY <1>0, <1>7, <1>8, <1>9 DEF IInv

LEMMA HeaderReadKeeps ==
    ASSUME IInv, NEW c \in There, HeaderRead(c)
    PROVE  IInv'
<1>0. /\ Known(c) /\ c # Loop /\ said[c] \in Nat /\ There' = There
      /\ script' = script /\ said' = said /\ gone' = gone /\ stream' = stream
      /\ forming' = forming /\ io = Loop /\ done[c] /\ reading[c] = "header"
  BY KnownOf DEF HeaderRead, There, peerVars
<1>1. PICK a \in Len(taken[c]) .. said[c] :
         /\ InQueue(c, Len(taken[c]), a) /\ Reads(c, a)
         /\ io = c => reading[c] = "nothing"
  BY DEF IInv, InPlace, Placed
<1>2. a \in Nat /\ a <= said[c] /\ Begun(c, a, 1, <<>>)
  BY <1>0, <1>1, KnownOf DEF Reads
<1>3. PICK m : m = script[c][a + 1]
  OBVIOUS
<1>4. /\ a < Len(script[c]) /\ Carried(c, a, 1)
      /\ forming[c] = [id |-> m.id, size |-> Len(Body(m)), body |-> <<>>]
  BY <1>2, <1>3 DEF Begun
<1>5. Body(m) \in Bytes /\ Len(Body(m)) \in Nat /\ Len(Cells(m)) = 1 + Len(Body(m))
  BY <1>0, <1>2, <1>3, <1>4, MessageOf
<1>6. CASE forming[c].size > 0
  <2>1. /\ reading' = [reading EXCEPT ![c] = "body"] /\ done' = [done EXCEPT ![c] = FALSE]
        /\ UNCHANGED <<deq, io, open, manner, main, taken>>
    BY <1>6 DEF HeaderRead
  <2>2. /\ reading' \in [There -> {"header", "body", "nothing"}]
        /\ done' \in [There -> BOOLEAN] /\ reading'[c] = "body" /\ ~done'[c]
        /\ \A d \in There \ {c} : reading'[d] = reading[d] /\ done'[d] = done[d]
    BY <2>1 DEF IInv, TypeOK
  <2>3. TypeOK'
    BY <1>0, <2>1, <2>2 DEF IInv, TypeOK
  <2>4. ASSUME NEW d \in There \ {c}
        PROVE  InPlace(d)'
    <3>1. SameReader(d) /\ SameStream(d)
      BY <1>0, <2>1, <2>2 DEF SameReader, SameStream
    <3> QED
      BY <1>0, <2>1, <3>1, PlaceStays
  <2>5. InPlace(c)'
    <3>1. Carried(c, a, 1)'
      BY <1>0, <1>4, CarriedFrame
    <3>2. Begun(c, a, 1, <<>>)'
      BY <1>0, <1>2, <3>1 DEF Begun, Body
    <3>3. Reads(c, a)'
      BY <1>0, <1>6, <2>2, <3>2 DEF Reads
    <3>4. InQueue(c, Len(taken[c]), a)'
      BY <1>0, <1>1, <2>1 DEF InQueue, QueuedAt, Framed
    <3>5. Placed(c)'
      BY <1>0, <1>1, <2>1, <3>3, <3>4 DEF Placed
    <3>6. TakenWhole(c)' /\ said'[c] <= Len(script'[c])
      BY <1>0, <2>1 DEF IInv, InPlace, TakenWhole, Decoded, Body
    <3> QED
      BY <3>5, <3>6 DEF InPlace
  <2> QED
    BY <1>0, <2>3, <2>4, <2>5 DEF IInv
<1>7. CASE ~(forming[c].size > 0)
  <2>1. Len(Body(m)) = 0
    BY <1>4, <1>5, <1>7
  <2>2. Body(m) = <<>>
    <3>1. PICK b : b = Body(m)
      OBVIOUS
    <3>2. b \in Seq(Byte) /\ Len(b) = 0
      BY <1>5, <2>1, <3>1 DEF Bytes
    <3> QED
      BY <3>1, <3>2
  <2>3. forming[c] = Framed(script[c][a + 1])
    BY <1>3, <1>4, <2>2 DEF Framed
  <2>4. Len(Cells(script[c][a + 1])) = 1
    BY <1>3, <1>5, <2>1
  <2>5. Carried(c, a, Len(Cells(script[c][a + 1])))
    BY <1>4, <2>4
  <2>6. /\ PushBack(c) /\ done' = [done EXCEPT ![c] = FALSE]
        /\ UNCHANGED <<peerVars, open, forming, manner, main, taken>>
    BY <1>7 DEF HeaderRead
  <2> QED
    BY <1>0, <1>1, <1>4, <2>3, <2>5, <2>6, PushKeeps
<1> QED
  BY <1>6, <1>7

LEMMA BodyReadKeeps ==
    ASSUME IInv, NEW c \in There, BodyRead(c)
    PROVE  IInv'
<1>0. Known(c) /\ said[c] \in Nat /\ io = Loop /\ done[c] /\ reading[c] = "body"
  BY KnownOf DEF BodyRead
<1>1. PICK a \in Len(taken[c]) .. said[c] :
         /\ InQueue(c, Len(taken[c]), a) /\ Reads(c, a)
         /\ io = c => reading[c] = "nothing"
  BY DEF IInv, InPlace, Placed
<1>2. a \in Nat /\ a <= said[c]
  BY <1>0, <1>1, KnownOf
<1>3. PICK m : m = script[c][a + 1]
  OBVIOUS
<1>4. Begun(c, a, 1 + Len(Body(m)), Body(m))
  BY <1>0, <1>1, <1>3 DEF Reads
<1>5. a < Len(script[c]) /\ Carried(c, a, 1 + Len(Body(m))) /\ forming[c] = Framed(m)
  BY <1>3, <1>4 DEF Begun, Framed
<1>6. Len(Cells(m)) = 1 + Len(Body(m))
  BY <1>0, <1>2, <1>3, <1>5, MessageOf
<1>7. Carried(c, a, Len(Cells(script[c][a + 1])))
  BY <1>3, <1>5, <1>6
<1>8. /\ PushBack(c) /\ done' = [done EXCEPT ![c] = FALSE]
      /\ UNCHANGED <<peerVars, open, forming, manner, main, taken>>
  BY DEF BodyRead
<1> QED
  BY <1>0, <1>1, <1>3, <1>5, <1>7, <1>8, PushKeeps

(* After push_back the next message is begun, with nothing of the last. *)
LEMMA NotifyKeeps ==
    ASSUME IInv, NEW c \in There, Notify(c)
    PROVE  IInv'
<1>0. /\ Known(c) /\ c # Loop /\ said[c] \in Nat /\ There' = There
      /\ script' = script /\ said' = said /\ gone' = gone /\ stream' = stream
      /\ done' = done /\ deq' = deq /\ taken' = taken /\ open' = open /\ manner' = manner
      /\ io = c /\ io' = Loop
  BY KnownOf DEF Notify, There, peerVars
<1>1. PICK a \in Len(taken[c]) .. said[c] :
         /\ InQueue(c, Len(taken[c]), a) /\ Reads(c, a)
         /\ io = c => reading[c] = "nothing"
  BY DEF IInv, InPlace, Placed
<1>2. ~done[c] /\ Carried(c, a, 0)
  BY <1>0, <1>1 DEF Reads
<1>3. NoMessage \in Read
  BY DEF NoMessage, Read, Ids
<1>4. /\ reading' \in [There -> {"header", "body", "nothing"}] /\ reading'[c] = "header"
      /\ forming' \in [There -> Read] /\ forming'[c] = NoMessage
      /\ \A d \in There \ {c} : reading'[d] = reading[d] /\ forming'[d] = forming[d]
  BY <1>3 DEF Notify, IInv, TypeOK
<1>5. main' \in {"begin", "pollEmpty", "test", "asleep", "drain"}
  BY DEF Notify, IInv, TypeOK
<1>6. TypeOK'
  BY <1>0, <1>4, <1>5 DEF IInv, TypeOK
<1>7. ASSUME NEW d \in There \ {c}
      PROVE  InPlace(d)'
  <2>1. SameReader(d) /\ SameStream(d)
    BY <1>0, <1>4 DEF SameReader, SameStream
  <2>2. d # Loop
    BY KnownOf
  <2> QED
    BY <1>0, <2>1, <2>2, PlaceStays
<1>8. InPlace(c)'
  <2>1. Carried(c, a, 0)'
    BY <1>0, <1>2, CarriedFrame
  <2>2. Reads(c, a)'
    BY <1>0, <1>2, <1>4, <2>1 DEF Reads
  <2>3. InQueue(c, Len(taken[c]), a)'
    BY <1>0, <1>1 DEF InQueue, QueuedAt, Framed
  <2>4. Placed(c)'
    BY <1>0, <1>1, <2>2, <2>3 DEF Placed
  <2>5. TakenWhole(c)' /\ said'[c] <= Len(script'[c])
    BY <1>0 DEF IInv, InPlace, TakenWhole, Decoded, Body
  <2> QED
    BY <2>4, <2>5 DEF InPlace
<1> QED
  BY <1>0, <1>6, <1>7, <1>8 DEF IInv

(* A reader that has given up holds nothing the main thread could be given. *)
LEMMA ReadFailsKeeps ==
    ASSUME IInv, NEW c \in There, ReadFails(c)
    PROVE  IInv'
<1>0. /\ Known(c) /\ c # Loop /\ said[c] \in Nat /\ There' = There
      /\ script' = script /\ said' = said /\ gone' = gone /\ stream' = stream
      /\ done' = done /\ deq' = deq /\ taken' = taken /\ forming' = forming
      /\ manner' = manner /\ main' = main /\ io = Loop /\ io' = Loop /\ ~done[c]
  BY KnownOf DEF ReadFails, There, peerVars
<1>1. PICK a \in Len(taken[c]) .. said[c] :
         /\ InQueue(c, Len(taken[c]), a) /\ Reads(c, a)
         /\ io = c => reading[c] = "nothing"
  BY DEF IInv, InPlace, Placed
<1>2. /\ reading' \in [There -> {"header", "body", "nothing"}] /\ reading'[c] = "nothing"
      /\ open' \in [There -> BOOLEAN]
      /\ \A d \in There \ {c} : reading'[d] = reading[d]
  BY DEF ReadFails, IInv, TypeOK
<1>3. TypeOK'
  BY <1>0, <1>2 DEF IInv, TypeOK
<1>4. ASSUME NEW d \in There \ {c}
      PROVE  InPlace(d)'
  <2>1. SameReader(d) /\ SameStream(d)
    BY <1>0, <1>2 DEF SameReader, SameStream
  <2> QED
    BY <1>0, <2>1, PlaceStays
<1>5. InPlace(c)'
  <2>1. Reads(c, a)'
    BY <1>0, <1>2 DEF Reads
  <2>2. InQueue(c, Len(taken[c]), a)'
    BY <1>0, <1>1 DEF InQueue, QueuedAt, Framed
  <2>3. Placed(c)'
    BY <1>0, <1>1, <2>1, <2>2 DEF Placed
  <2>4. TakenWhole(c)' /\ said'[c] <= Len(script'[c])
    BY <1>0 DEF IInv, InPlace, TakenWhole, Decoded, Body
  <2> QED
    BY <2>3, <2>4 DEF InPlace
<1> QED
  BY <1>0, <1>3, <1>4, <1>5 DEF IInv

(* Neither the socket nor where the main thread stands is part of it. *)
LEMMA ElseKeeps ==
    ASSUME IInv, UNCHANGED <<peerVars, reading, done, forming, manner, io, deq, taken>>,
           open' \in [There -> BOOLEAN],
           main' \in {"begin", "pollEmpty", "test", "asleep", "drain"}
    PROVE  IInv'
<1>0. /\ There' = There /\ script' = script /\ said' = said /\ gone' = gone
      /\ stream' = stream
  BY DEF There, peerVars
<1>1. TypeOK'
  BY <1>0 DEF IInv, TypeOK
<1>2. ASSUME NEW d \in There
      PROVE  InPlace(d)'
  BY <1>0, PlaceStays DEF SameReader, SameStream
<1> QED
  BY <1>0, <1>1, <1>2 DEF IInv

-----------------------------------------------------------------------------
(* The main thread. *)

LEMMA TakeKeeps ==
    ASSUME IInv, Take
    PROVE  IInv'
<1>0. /\ There' = There /\ deq # <<>> /\ deq' = Tail(deq)
      /\ script' = script /\ said' = said /\ gone' = gone /\ stream' = stream
      /\ open' = open /\ reading' = reading /\ done' = done /\ forming' = forming
      /\ manner' = manner /\ io' = io /\ main' = main
  BY DEF Take, There, peerVars, readVars
<1>1. PICK S : S = [remote : There, msg : {m \in Read : m.id # "none" /\ m.size = Len(m.body)}]
  OBVIOUS
<1>2. PICK e : e = Head(deq)
  OBVIOUS
<1>3. deq \in Seq(S) /\ e \in S /\ deq' \in Seq(S)
  BY <1>0, <1>1, <1>2, TailFacts DEF IInv, TypeOK
<1>4. PICK c : c = e.remote
  OBVIOUS
<1>5. c \in There
  BY <1>1, <1>3, <1>4
<1>6. PICK x : x = [id |-> e.msg.id, got |-> DecodeBody(e.msg.id, e.msg.body)]
  OBVIOUS
<1>7. taken' = [taken EXCEPT ![c] = Append(taken[c], x)]
  BY <1>2, <1>4, <1>6 DEF Take
<1>8. /\ DOMAIN taken' = There /\ taken'[c] = Append(taken[c], x)
      /\ \A d \in There \ {c} : taken'[d] = taken[d]
  BY <1>5, <1>7 DEF IInv, TypeOK
<1>9. /\ Known(c) /\ said[c] \in Nat /\ Len(taken[c]) \in Nat
  BY <1>5, KnownOf
<1>10. PICK a \in Len(taken[c]) .. said[c] :
          /\ InQueue(c, Len(taken[c]), a) /\ Reads(c, a)
          /\ io = c => reading[c] = "nothing"
  BY <1>5 DEF IInv, InPlace, Placed
<1>11. PICK t, k : t = Len(taken[c]) /\ k = Len(taken[c]) + 1
  OBVIOUS
<1>12. t \in Nat /\ k = t + 1 /\ a \in Nat /\ t <= a /\ a <= said[c]
  BY <1>9, <1>10, <1>11
<1>13. /\ t < a /\ e = [remote |-> c, msg |-> Framed(script[c][t + 1])]
       /\ InQueue(c, t + 1, a)'
  <2>1. InQueue(c, t, a) /\ Head(deq).remote = c
    BY <1>2, <1>4, <1>10, <1>11
  <2> QED
    BY <1>0, <1>2, <1>3, <1>12, <2>1, TakeMine
<1>14. PICK m : m = script[c][k]
  OBVIOUS
<1>15. x = Decoded(m) /\ x.id \in Ids \ {"none"}
  <2>1. e.msg = Framed(m)
    BY <1>12, <1>13, <1>14
  <2>2. x = Decoded(m)
    BY <1>6, <2>1 DEF Framed, Decoded
  <2>3. Sayable(m)
    <3>1. k \in 1 .. Len(script[c])
      BY <1>9, <1>12, <1>13 DEF Known
    <3> QED
      BY <1>9, <1>14, <3>1, ScriptFacts
  <2> QED
    BY <2>2, <2>3 DEF Sayable, Decoded
<1>16. PICK q : q = taken[c]
  OBVIOUS
<1>17. /\ q = [i \in 1 .. t |-> Decoded(script[c][i])] /\ Len(q) = t
  BY <1>5, <1>11, <1>16 DEF IInv, InPlace, TakenWhole
<1>18. /\ Len(taken'[c]) = k /\ taken'[c] = [i \in 1 .. k |-> Decoded(script[c][i])]
  <2>1. PICK U : U = {q[i] : i \in 1 .. t} \cup {x}
    OBVIOUS
  <2>2. q \in Seq(U) /\ x \in U
    <3>1. \A i \in 1 .. t : q[i] \in U
      BY <2>1
    <3> QED
      BY <1>12, <1>17, <2>1, <3>1
  <2>3. PICK r : r = Append(q, x)
    OBVIOUS
  <2>4. /\ r \in Seq(U) /\ Len(r) = k
        /\ \A i \in 1 .. t : r[i] = q[i]
        /\ r[k] = x
    BY <1>12, <1>17, <2>2, <2>3, AppendFacts
  <2>5. \A i \in 1 .. k : r[i] = Decoded(script[c][i])
    <3>1. ASSUME NEW i \in 1 .. k PROVE r[i] = Decoded(script[c][i])
      <4>1. CASE i = k
        BY <1>14, <1>15, <2>4, <4>1
      <4>2. CASE i \in 1 .. t
        BY <1>17, <2>4, <4>2
      <4> QED
        BY <1>12, <4>1, <4>2
    <3> QED
      BY <3>1
  <2>6. r = [i \in 1 .. k |-> Decoded(script[c][i])]
    <3>1. r \in [1 .. k -> U]
      BY <2>4
    <3> QED
      BY <2>5, <3>1
  <2> QED
    BY <1>8, <1>16, <2>3, <2>4, <2>6
<1>19. TypeOK'
  <2>1. ASSUME NEW d \in There, NEW i \in 1 .. Len(taken'[d])
        PROVE  taken'[d][i].id \in Ids \ {"none"}
    <3>1. CASE d # c
      BY <1>8, <2>1, <3>1 DEF IInv, TypeOK
    <3>2. CASE d = c /\ i = k
      BY <1>14, <1>15, <1>18, <2>1, <3>2
    <3>3. CASE d = c /\ i # k
      <4>1. i \in 1 .. t /\ i \in 1 .. k
        BY <1>12, <1>18, <2>1, <3>3
      <4>2. taken'[c][i] = q[i]
        BY <1>17, <1>18, <4>1
      <4> QED
        BY <1>11, <1>16, <3>3, <4>1, <4>2 DEF IInv, TypeOK
    <3> QED
      BY <3>1, <3>2, <3>3
  <2> QED
    BY <1>0, <1>1, <1>3, <1>8, <2>1 DEF IInv, TypeOK
<1>20. ASSUME NEW d \in There \ {c}
       PROVE  InPlace(d)'
  <2>1. SameReader(d) /\ SameStream(d)
    BY <1>0 DEF SameReader, SameStream
  <2>2. \A i, j \in Nat : InQueue(d, i, j) => InQueue(d, i, j)'
    BY <1>0, <1>2, <1>3, <1>4, TakeOther
  <2> QED
    BY <1>0, <1>8, <2>1, <2>2, PlaceFrame
<1>21. InPlace(c)'
  <2>1. SameReader(c) /\ SameStream(c)
    BY <1>0 DEF SameReader, SameStream
  <2>2. Reads(c, a)'
    BY <1>0, <1>9, <1>10, <1>12, <2>1, ReadsFrame
  <2>3. InQueue(c, k, a)' /\ a \in k .. said[c]
    BY <1>12, <1>13
  <2>4. Placed(c)'
    <3>1. InQueue(c, Len(taken[c]), a)'
      BY <1>18, <2>3 DEF InQueue
    <3> QED
      BY <1>0, <1>10, <1>18, <2>2, <2>3, <3>1 DEF Placed
  <2>5. TakenWhole(c)'
    BY <1>0, <1>12, <1>18 DEF TakenWhole, Decoded, Body
  <2>6. said'[c] <= Len(script'[c])
    BY <1>0, <1>9 DEF Known
  <2> QED
    BY <2>4, <2>5, <2>6 DEF InPlace
<1> QED
  BY <1>0, <1>5, <1>19, <1>20, <1>21 DEF IInv

-----------------------------------------------------------------------------
(* The invariant. *)

LEMMA InitIInv == Init => IInv
<1> SUFFICES ASSUME Init PROVE IInv
  OBVIOUS
<1>1. TypeOK
  <2>1. NoMessage \in Read
    BY DEF NoMessage, Read, Ids
  <2>2. \A d \in There : taken[d] = <<>> /\ Len(taken[d]) = 0
    BY DEF Init
  <2> QED
    BY <2>1, <2>2 DEF Init, TypeOK
<1>2. ASSUME NEW c \in There
      PROVE  InPlace(c)
  <2>1. /\ script \in Scripts /\ said[c] = 0 /\ stream[c] = <<>> /\ taken[c] = <<>>
        /\ reading[c] = "header" /\ ~done[c] /\ forming[c] = NoMessage
        /\ deq = <<>> /\ io = Loop
    BY DEF Init
  <2>2. c # Loop /\ Len(script[c]) \in Nat
    BY <2>1, ScriptAssumption DEF There
  <2>3. Len(taken[c]) = 0 /\ Len(deq) = 0 /\ Len(stream[c]) = 0
    BY <2>1
  <2>4. InQueue(c, 0, 0)
    <3>1. PICK h : h = [j \in 0 + 1 .. 0 |-> 1]
      OBVIOUS
    <3>2. h \in [0 + 1 .. 0 -> 1 .. Len(deq)]
      BY <3>1
    <3>3. QueuedAt(c, 0, 0, h)
      BY <2>3 DEF QueuedAt
    <3> QED
      BY <3>2, <3>3 DEF InQueue
  <2>5. Carried(c, 0, 0)
    <3>1. PICK g : g = [j \in 1 .. 1 |-> 0]
      OBVIOUS
    <3>2. g \in [0 + 1 .. said[c] + 1 -> Int] /\ g[0 + 1] = -0 /\ g[said[c] + 1] = 0
      <4>1. 0 + 1 = 1 /\ said[c] + 1 = 1
        BY <2>1
      <4>2. -0 = 0
        <5>1. \A n \in Int : -n = 0 - n
          OBVIOUS
        <5>2. 0 \in Int /\ 0 - 0 = 0
          OBVIOUS
        <5> QED
          BY <5>1, <5>2
      <4>3. g \in [1 .. 1 -> Int] /\ g[1] = 0
        BY <3>1
      <4> QED
        BY <4>1, <4>2, <4>3
    <3>3. Ends(c, g[said[c] + 1])
      BY <2>3, <3>2 DEF Ends
    <3>4. CarriedAt(c, 0, 0, g)
      BY <2>1, <3>2, <3>3 DEF CarriedAt
    <3> QED
      BY <3>2, <3>4 DEF Carried
  <2>6. Reads(c, 0)
    BY <2>1, <2>5 DEF Reads
  <2>7. Placed(c)
    BY <2>1, <2>2, <2>3, <2>4, <2>6 DEF Placed
  <2>8. TakenWhole(c)
    <3>1. [i \in 1 .. 0 |-> Decoded(script[c][i])] = <<>>
      OBVIOUS
    <3> QED
      BY <2>1, <2>3, <3>1 DEF TakenWhole
  <2> QED
    BY <2>1, <2>2, <2>7, <2>8 DEF InPlace
<1> QED
  BY <1>1, <1>2 DEF Init, IInv

LEMMA StepKeepsIInv ==
    ASSUME IInv, [Next]_vars
    PROVE  IInv'
<1>1. CASE UNCHANGED vars
  BY <1>1, ElseKeeps DEF vars, peerVars, readVars, IInv, TypeOK
<1>2. ASSUME NEW c \in There, PeerWrites(c) PROVE IInv'
  BY <1>2, PeerWritesKeeps
<1>3. ASSUME NEW c \in There, PeerLeaves(c) PROVE IInv'
  BY <1>3, PeerLeavesKeeps
<1>4. ASSUME NEW c \in There, SocketCloses(c) PROVE IInv'
  BY <1>4, ElseKeeps DEF SocketCloses, IInv, TypeOK
<1>5. ASSUME NEW c \in There, ReadCompletes(c) PROVE IInv'
  BY <1>5, ReadCompletesKeeps
<1>6. ASSUME NEW c \in There, HeaderRead(c) PROVE IInv'
  BY <1>6, HeaderReadKeeps
<1>7. ASSUME NEW c \in There, BodyRead(c) PROVE IInv'
  BY <1>7, BodyReadKeeps
<1>8. ASSUME NEW c \in There, Notify(c) PROVE IInv'
  BY <1>8, NotifyKeeps
<1>9. ASSUME NEW c \in There, ReadFails(c) PROVE IInv'
  BY <1>9, ReadFailsKeeps
<1>10. CASE Take
  BY <1>10, TakeKeeps
<1>11. ASSUME NEW from, NEW to \in {"begin", "pollEmpty", "test", "asleep", "drain"},
              MainGoes(from, to)
       PROVE  IInv'
  BY <1>11, ElseKeeps DEF MainGoes, readVars, IInv, TypeOK
<1>12. CASE PollConnected \/ PollEmpty \/ WaitBegins
  BY <1>11, <1>12 DEF PollConnected, PollEmpty, WaitBegins
<1>13. CASE WaitTest \/ SpuriousWakeup \/ Timeout \/ Drained
  BY <1>11, <1>13 DEF WaitTest, Woken, SpuriousWakeup, Timeout, Drained
<1> QED
  BY <1>1, <1>2, <1>3, <1>4, <1>5, <1>6, <1>7, <1>8, <1>9, <1>10, <1>12, <1>13
  DEF Next, IoStep, MainStep

-----------------------------------------------------------------------------
(* What the main thread makes of what it takes. *)

LEMMA NameFits ==
    ASSUME NEW file \in Named, Len(file.name) < ByteModulus
    PROVE  file \in NamedFile
<1>1. file \in FileData /\ file.nameSize = Len(file.name) % ByteModulus
  BY DEF Named, SizeByte
<1>2. PICK n : n = Len(file.name)
  OBVIOUS
<1>3. n \in Nat /\ n < ByteModulus /\ ByteModulus \in Nat \ {0}
  BY <1>1, <1>2, WidthAssumption DEF FileData, Bytes
<1>4. n % ByteModulus = n
  BY <1>3
<1> QED
  BY <1>1, <1>2, <1>4 DEF NamedFile, SizeIsTrue

(* A message whose lengths fit means to the one what it meant to the other. *)
LEMMA SaidIsRead ==
    ASSUME NEW m, Sayable(m), Fits(m)
    PROVE  LET d == DecodeBody(m.id, Body(m)) IN
           ReadAs(m, d.payload) /\ d.left.body = <<>>
<1>1. CASE m.id = "RequestReceive"
  <2>1. PICK p : p = m.payload
    OBVIOUS
  <2>2. p \in [type : Byte, code : Bytes, file : Unnamed] /\ FitsByte(p.code)
    BY <1>1, <2>1 DEF Sayable, Payload, Fits, FitsByte, Metadata
  <2>3. /\ p = [type |-> p.type, code |-> p.code, file |-> p.file]
        /\ p.type \in Byte /\ p.code \in Bytes /\ p.file \in Unnamed
    BY <2>2
  <2>4. LET d == PreMetadata(Whole(PreMetadataBytes(p))) IN
        d.payload.type = p.type /\ d.payload.code = p.code /\ d.left.body = <<>>
    BY <2>2, <2>3, RequestIsRead
  <2>5. DecodeBody(m.id, Body(m)) = PreMetadata(Whole(PreMetadataBytes(p)))
    BY <1>1, <2>1 DEF DecodeBody, Body, EncodeBody, Metadata
  <2> QED
    BY <1>1, <2>1, <2>4, <2>5 DEF ReadAs
<1>2. CASE m.id # "RequestReceive"
  <2>1. m.payload \in PayloadOf(m.id)
    <3>1. CASE m.id = "Send"
      <4>1. /\ m.payload \in [type : Byte, code : Bytes, file : Named]
            /\ m.payload.code \in Code /\ m.payload.file \in NamedFile
        BY <3>1, NameFits DEF Sayable, Payload, Fits, Metadata, Code, FitsByte
      <4> QED
        BY <3>1, <4>1 DEF PayloadOf, Metadata
    <3>2. CASE m.id = "Accept"
      <4>1. /\ m.payload \in [type : Byte, maxChunkSize : Word, code : Bytes, file : Named]
            /\ m.payload.code \in Code /\ m.payload.file \in NamedFile
        BY <3>2, NameFits DEF Sayable, Payload, Fits, Metadata, Code, FitsByte
      <4> QED
        BY <3>2, <4>1 DEF PayloadOf, Metadata
    <3>3. CASE m.id = "Receive"
      BY <3>3 DEF Sayable, Payload, Fits, Metadata, Code, FitsByte, PayloadOf
    <3>4. CASE m.id \notin Metadata \cup {"Accept", "Receive"}
      BY <3>4 DEF Sayable, Payload, Metadata, PayloadOf
    <3> QED
      BY <1>2, <3>1, <3>2, <3>3, <3>4 DEF Metadata
  <2>2. DecodeBody(m.id, Body(m)) = [payload |-> m.payload, left |-> Whole(<<>>)]
    BY <2>1, PayloadsRoundTrip DEF Body
  <2> QED
    BY <1>2, <2>2 DEF ReadAs, Whole
<1> QED
  BY <1>1, <1>2

LEMMA IInvTaken == IInv => TakenAsSent
<1> SUFFICES ASSUME IInv, NEW c \in There
             PROVE  /\ Len(taken[c]) <= said[c]
                    /\ \A i \in 1 .. Len(taken[c]) :
                          /\ taken[c][i].id = script[c][i].id
                          /\ taken[c][i].got.left.inside
                          /\ Fits(script[c][i]) =>
                                /\ ReadAs(script[c][i], taken[c][i].got.payload)
                                /\ taken[c][i].got.left.body = <<>>
  BY DEF TakenAsSent
<1>1. Known(c) /\ said[c] \in Nat /\ Len(taken[c]) \in Nat
  BY KnownOf
<1>2. Len(taken[c]) <= said[c]
  <2>1. PICK a \in Len(taken[c]) .. said[c] : TRUE
    BY DEF IInv, InPlace, Placed
  <2> QED
    BY <1>1, <2>1
<1>3. ASSUME NEW i \in 1 .. Len(taken[c])
      PROVE  /\ taken[c][i].id = script[c][i].id
             /\ taken[c][i].got.left.inside
             /\ Fits(script[c][i]) =>
                   /\ ReadAs(script[c][i], taken[c][i].got.payload)
                   /\ taken[c][i].got.left.body = <<>>
  <2>1. PICK m : m = script[c][i]
    OBVIOUS
  <2>2. i \in 1 .. Len(script[c])
    BY <1>1, <1>2, ScriptFacts DEF Known
  <2>3. Sayable(m)
    BY <1>1, <2>1, <2>2, ScriptFacts
  <2>4. taken[c][i] = Decoded(m)
    BY <2>1 DEF IInv, InPlace, TakenWhole
  <2>5. taken[c][i].id = m.id /\ taken[c][i].got = DecodeBody(m.id, Body(m))
    BY <2>4 DEF Decoded
  <2>6. DecodeBody(m.id, Body(m)).left.inside
    BY <2>3, DecodeStaysInside DEF Sayable, Body
  <2>7. Fits(m) => /\ ReadAs(m, DecodeBody(m.id, Body(m)).payload)
                   /\ DecodeBody(m.id, Body(m)).left.body = <<>>
    BY <2>3, SaidIsRead
  <2> QED
    BY <2>1, <2>5, <2>6, <2>7
<1> QED
  BY <1>2, <1>3

-----------------------------------------------------------------------------
(* The theorems. *)

(* readHeader, readBody and addToIncomingMessageQueue keep every message    *)
(* somewhere, once: taken by the main thread, in m_messages_in in the order *)
(* of its connection, in pieces in m_forming_in_message, or on the stream.  *)
THEOREM MessagesInPlace == Spec => []IInv
<1>1. IInv /\ [Next]_vars => IInv'
  BY StepKeepsIInv
<1> QED
  BY <1>1, InitIInv, PTL DEF Spec

(* In particular what is pushed to the queue is a message with an id and a  *)
(* body as long as its header says: m_forming_in_message is reset only      *)
(* after it has been copied.                                                *)
THEOREM TypeCorrect == Spec => []TypeOK
<1>1. IInv => TypeOK
  BY DEF IInv
<1> QED
  BY <1>1, MessagesInPlace, PTL

(* What the main thread takes from a connection is what its peer wrote,     *)
(* from the first message on, none half, none twice, none of another        *)
(* connection's; decoded within the bounds of its body, and to the payload  *)
(* that was encoded if the lengths in it fit their byte.                    *)
THEOREM TakenIsSaid == Spec => []TakenAsSent
  BY MessagesInPlace, IInvTaken, PTL
=============================================================================
