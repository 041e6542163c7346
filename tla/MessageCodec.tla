---------------------------- MODULE MessageCodec ----------------------------
(***************************************************************************)
(* How Net::Message carries a payload: operator<< appends bytes to the end *)
(* of the body, operator>> takes them off the end again, so a payload is   *)
(* read in the opposite order to the one it was written in.  What is       *)
(* variable in length is followed by its length in one byte.               *)
(*                                                                         *)
(* Bytes, words and hashes are short in the checked instance; the proofs   *)
(* take them as they come.                                                 *)
(***************************************************************************)
EXTENDS Integers, Sequences

CONSTANTS
    ByteModulus,    \* 256
    WordLength,     \* sizeof(uint64_t)
    HashLength      \* SHA256_DIGEST_LENGTH

ASSUME WidthAssumption ==
    /\ ByteModulus \in Nat \ {0}
    /\ WordLength \in Nat \ {0}
    /\ HashLength \in Nat \ {0}

Byte == 0 .. (ByteModulus - 1)
Word == [1 .. WordLength -> Byte]
Hash == [1 .. HashLength -> Byte]
Bytes == Seq(Byte)

-----------------------------------------------------------------------------
(* operator<< and operator>>.                                              *)

(* A message that is being taken apart: what is left of its body, and      *)
(* whether every read so far was of bytes that were there.                 *)
Whole(bytes) == [body |-> bytes, inside |-> TRUE]

LastBytes(m, n) == SubSeq(m.body, Len(m.body) - n + 1, Len(m.body))
WithoutLast(m, n) == [m EXCEPT !.body = SubSeq(@, 1, Len(@) - n)]
Zeros(n) == [i \in 1 .. n |-> 0]

(* Into a value of n bytes.  Nobody looks whether so many are left; if not, *)
(* the offset wraps around and what is read (here zeros) means nothing.     *)
Value(m, n) == IF n <= Len(m.body) THEN LastBytes(m, n) ELSE Zeros(n)
AfterValue(m, n) ==
    IF n <= Len(m.body) THEN WithoutLast(m, n) ELSE [m EXCEPT !.inside = FALSE]

(* Into a container that has been resized to n: as many bytes as there are, *)
(* the rest of the container stays zero.                                    *)
Available(m, n) == IF n <= Len(m.body) THEN n ELSE Len(m.body)
Contents(m, n) == LastBytes(m, Available(m, n)) \o Zeros(n - Available(m, n))
AfterContents(m, n) == WithoutLast(m, Available(m, n))

-----------------------------------------------------------------------------
(* The parts of the payloads.                                              *)

(* code_size is a uint8_t assigned from the length of the phrase. *)
SizeByte(s) == Len(s) % ByteModulus

PhraseBytes(code) == code \o <<SizeByte(code)>>

PhraseSize(m) == Value(m, 1)[1]
Phrase(m) == Contents(AfterValue(m, 1), PhraseSize(m))
AfterPhrase(m) == AfterContents(AfterValue(m, 1), PhraseSize(m))

(* FileData: the name, the name's size as the client has it, and the size  *)
(* of the file.  A receiver leaves both numbers uninitialised.             *)
FileBytes(file) == file.name \o <<file.nameSize>> \o file.size

NameSize(m) == Value(AfterValue(m, WordLength), 1)[1]
BeforeName(m) == AfterValue(AfterValue(m, WordLength), 1)
File(m) == [size     |-> Value(m, WordLength),
            nameSize |-> NameSize(m),
            name     |-> Contents(BeforeName(m), NameSize(m))]
AfterFile(m) == AfterContents(BeforeName(m), NameSize(m))

-----------------------------------------------------------------------------
(* encode and decode.  What decode leaves is kept as "left": the payload   *)
(* was the whole message if nothing is, and it was read within bounds.     *)

Metadata == {"Send", "RequestReceive"}

PreMetadataBytes(p) == FileBytes(p.file) \o PhraseBytes(p.code) \o <<p.type>>

(* A mutant: the parts are read in the order they were written in. *)
PreMetadata_Forwards(m) ==
    LET m1 == AfterFile(m)
        m2 == AfterPhrase(m1)
    IN  [payload |-> [type |-> Value(m2, 1)[1], code |-> Phrase(m1), file |-> File(m)],
         left    |-> AfterValue(m2, 1)]

PreMetadata(m) ==
    LET m1 == AfterValue(m, 1)
        m2 == AfterPhrase(m1)
    IN  [payload |-> [type |-> Value(m, 1)[1], code |-> Phrase(m1), file |-> File(m2)],
         left    |-> AfterFile(m2)]

PostMetadataBytes(p) ==
    FileBytes(p.file) \o PhraseBytes(p.code) \o p.maxChunkSize \o <<p.type>>

PostMetadata(m) ==
    LET m1 == AfterValue(m, 1)
        m2 == AfterValue(m1, WordLength)
        m3 == AfterPhrase(m2)
    IN  [payload |-> [type |-> Value(m, 1)[1], maxChunkSize |-> Value(m1, WordLength),
                      code |-> Phrase(m2), file |-> File(m3)],
         left    |-> AfterFile(m3)]

ChunkBytes(p) == p.data \o p.hash

(* The data is all that is left: msg >> hash, resize(msg.size()). *)
Chunk(m) ==
    LET m1 == AfterValue(m, HashLength)
    IN  [payload |-> [hash |-> Value(m, HashLength), data |-> Contents(m1, Len(m1.body))],
         left    |-> AfterContents(m1, Len(m1.body))]

(* The payloads as they are filled in.  A sender's file_name_size is its   *)
(* name's length, in a byte; a receiver leaves it uninitialised, and the   *)
(* name empty.                                                             *)
FileData == [name : Bytes, nameSize : Byte, size : Word]
Named == {file \in FileData : file.nameSize = SizeByte(file.name)}
Unnamed == {file \in FileData : file.name = <<>>}

Payload(id) ==
    CASE id = "Send"           -> [type : Byte, code : Bytes, file : Named]
      [] id = "RequestReceive" -> [type : Byte, code : Bytes, file : Unnamed]
      [] id = "Accept"  -> [type : Byte, maxChunkSize : Word, code : Bytes, file : Named]
      [] id = "Receive" -> [code : Bytes]
      [] id = "Chunk"   -> [data : Bytes, hash : Hash]
      [] OTHER          -> [empty : Byte]

(* Every operator<< leaves header.size the size of the body so far. *)
HeaderSize(body) == Len(body)

EncodeBody(id, p) ==
    CASE id \in Metadata -> PreMetadataBytes(p)
      [] id = "Accept"   -> PostMetadataBytes(p)
      [] id = "Receive"  -> PhraseBytes(p.code)
      [] id = "Chunk"    -> ChunkBytes(p)
      [] OTHER           -> <<p.empty>>

DecodeBody(id, bytes) ==
    LET m == Whole(bytes)
    IN  CASE id \in Metadata -> PreMetadata(m)
          [] id = "Accept"   -> PostMetadata(m)
          [] id = "Receive"  -> [payload |-> [code |-> Phrase(m)], left |-> AfterPhrase(m)]
          [] id = "Chunk"    -> Chunk(m)
          [] OTHER           -> [payload |-> [empty |-> Value(m, 1)[1]],
                                 left    |-> AfterValue(m, 1)]
=============================================================================
