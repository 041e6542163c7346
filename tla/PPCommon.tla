------------------------------ MODULE PPCommon ------------------------------
(***************************************************************************)
(* The vocabulary of filetransmission/ppcommon: the message types of       *)
(* EMessageType and the payloads that control the protocol.  A payload is  *)
(* kept only as far as somebody acts on it: the code phrase, the file      *)
(* described by the metadata, and the body of a chunk (hash and data).     *)
(***************************************************************************)

CONSTANTS
    Phrase,     \* code phrases
    File,       \* what PreMetadata/PostMetadata say of a file
    Body,       \* bodies of Chunk messages: a SHA-256 followed by data
    None        \* "no value": the empty std::optional, nullptr, a missing key

ASSUME NoneAssumption == None \notin Phrase \cup File \cup Body

(* EMessageType.  "Accept" and "Reject" answer both Send and RequestReceive. *)
ServerReply == {"Accept", "Reject", "Success", "Abort"}
Control == {"Send", "RequestReceive", "FinishReceive", "FailedReceive", "Receive"}
Data == {"Chunk", "FinalChunk"}
MessageType == ServerReply \cup Control \cup Data

(* Net::Message: the header's id and what the body carries. *)
Message == [id   : MessageType,
            code : Phrase \cup {None},
            file : File \cup {None},
            body : Body \cup {None}]

(* encode<M>(data): a message of type M and what its payload carries. *)
Encode(id, code, file, body) ==
    [id |-> id, code |-> code, file |-> file, body |-> body]

(* The payload Empty{}: the message says nothing but its type. *)
Signal(id) == Encode(id, None, None, None)

Send(code, file)     == Encode("Send", code, file, None)
RequestReceive(code) == Encode("RequestReceive", code, None, None)
Receive(code)        == Encode("Receive", code, None, None)
Accept(file)         == Encode("Accept", None, file, None)
Chunk(body)          == Encode("Chunk", None, None, body)

(* Every message a peer of the server can put on the wire, in any order and *)
(* well formed; Accept and Reject are the server's alone.                   *)
ClientMessage ==
    {Send(p, f) : p \in Phrase, f \in File}
        \cup {RequestReceive(p) : p \in Phrase}
        \cup {Receive(p) : p \in Phrase}
        \cup {Chunk(b) : b \in Body}
        \cup {Signal(id) : id \in {"Success", "Abort", "FinishReceive",
                                   "FailedReceive", "FinalChunk"}}
=============================================================================
