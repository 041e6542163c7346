--------------------------- MODULE TransferProofs ---------------------------
(***************************************************************************)
(* A transfer, for every set of senders, receivers, phrases and files and  *)
(* under every fault.  The proofs come in layers; the invariant of a layer *)
(* is a theorem that the later ones use before and after a step.           *)
(*   Sending      real clients say what FileServer admits, so Transfer     *)
(*                implements FileServer;                                   *)
(*   ServerSafe   the server's types and tables, carried over from         *)
(*                FileServer by that refinement;                           *)
(*   Kinds        who says what to whom, and the types of the clients;     *)
(*   Offers       the life of a sender's offer: said once, first and       *)
(*                alone, then in the tables, then a session, then gone.    *)
(* TransferRequestProofs and TransferStreamProofs go on from here.         *)
(*                                                                         *)
(* A step of Transfer either leaves the server alone or contains one of    *)
(* the server's actions.  Only ServerReads needs more than a look: what    *)
(* arrives must be a ClientMessage, which is what Sending says.            *)
(***************************************************************************)
EXTENDS Transfer, TLAPS

Label == Over \cup {"new", "hello", "await", "sending", "confirm",
                    "asked", "prompt", "receiving", "flushing"}

(* What is under way to the server is in its language, and a receiver that *)
(* may still have to name its phrase knows it.                             *)
Sending ==
    /\ up \in [Client -> Seq(Server!ClientMessage)]
    /\ pc \in [Client -> Label]
    /\ code \in [Client -> Phrase \cup {None}]
    /\ sent \in [Sender -> Nat]
    /\ \A r \in Receiver : pc[r] \in {"asked", "prompt"} => code[r] \in Phrase

-----------------------------------------------------------------------------
(* The messages the routines send are ClientMessages. *)

LEMMA SignalIsClientMessage ==
    /\ Server!Signal("FinalChunk") \in Server!ClientMessage
    /\ Server!Signal("FinishReceive") \in Server!ClientMessage
    /\ Server!Signal("FailedReceive") \in Server!ClientMessage
  BY DEF Server!ClientMessage

LEMMA PhraseIsClientMessage ==
    ASSUME NEW p \in Phrase
    PROVE  /\ Server!RequestReceive(p) \in Server!ClientMessage
           /\ Server!Receive(p) \in Server!ClientMessage
           /\ \A f \in File : Server!Send(p, f) \in Server!ClientMessage
  BY DEF Server!ClientMessage

LEMMA ChunkIsClientMessage ==
    ASSUME NEW b \in Body
    PROVE  Server!Chunk(b) \in Server!ClientMessage
  BY DEF Server!ClientMessage

LEMMA PartIsBody ==
    ASSUME NEW f \in File, NEW i \in 1 .. Parts[f]
    PROVE  /\ Contents(f)[i] \in Body
  BY DEF Contents, Body

(* A flipped bit leaves a chunk a chunk. *)
LEMMA DamagedBody ==
    ASSUME NEW b \in Body
    PROVE  [b EXCEPT !.sound = FALSE] \in Body
<1>1. PICK f \in File : b \in [file : {f}, part : 1 .. Parts[f], sound : BOOLEAN]
  BY DEF Body
<1>2. [b EXCEPT !.sound = FALSE] \in [file : {f}, part : 1 .. Parts[f], sound : BOOLEAN]
  BY <1>1
<1> QED
  BY <1>2 DEF Body

LEMMA DamagedMessage ==
    ASSUME NEW m \in Server!ClientMessage, m.id = "Chunk"
    PROVE  Damaged(m) \in Server!ClientMessage
<1>1. PICK b \in Body : m = Server!Chunk(b)
  BY DEF Server!ClientMessage, Server!Send, Server!RequestReceive, Server!Receive,
         Server!Signal, Server!Encode
<1>2. m.body = b
  BY <1>1 DEF Server!Chunk, Server!Encode
<1> QED
  BY <1>2, DamagedBody, ChunkIsClientMessage DEF Damaged

-----------------------------------------------------------------------------
(* What the shared pieces of the routines do to up. *)

LEMMA PutType ==
    ASSUME NEW q \in Seq(Server!ClientMessage), NEW c, NEW m \in Server!ClientMessage
    PROVE  Put(q, c, m) \in Seq(Server!ClientMessage)
  BY DEF Put

LEMMA QueueType ==
    ASSUME Sending, NEW c \in Client, NEW m \in Server!ClientMessage, Queue(c, m)
    PROVE  up' \in [Client -> Seq(Server!ClientMessage)]
<1>1. Put(up[c], c, m) \in Seq(Server!ClientMessage)
  BY PutType DEF Sending
<1> QED
  BY <1>1 DEF Queue, Sending

LEMMA PrefixType ==
    ASSUME NEW S, NEW q \in Seq(S), NEW n \in 0 .. Len(q)
    PROVE  SubSeq(q, 1, n) \in Seq(S)
  OBVIOUS

LEMMA LeaveType ==
    ASSUME Sending, NEW c \in Client, NEW result,
           NEW q \in Seq(Server!ClientMessage), Leave(c, result, q)
    PROVE  up' \in [Client -> Seq(Server!ClientMessage)]
  BY PrefixType DEF Leave, Sending

LEMMA LeaveKeeps ==
    ASSUME Sending, NEW c \in Client, NEW result \in Over,
           NEW q \in Seq(Server!ClientMessage), Leave(c, result, q),
           code' = code, sent' = sent
    PROVE  Sending'
<1>1. up' \in [Client -> Seq(Server!ClientMessage)]
  BY LeaveType
<1>2. pc' = [pc EXCEPT ![c] = result] /\ result \in Label
  BY DEF Leave, Go, Label
<1> QED
  BY <1>1, <1>2 DEF Sending, Over

(* A step to another place of the routine that a receiver cannot take      *)
(* without its phrase.                                                     *)
LEMMA GoKeeps ==
    ASSUME Sending, NEW c \in Client, NEW label \in Label \ {"asked", "prompt"},
           Go(c, label), up' \in [Client -> Seq(Server!ClientMessage)],
           code' = code, sent' = sent
    PROVE  Sending'
<1>1. pc' = [pc EXCEPT ![c] = label] /\ label \in Label \ {"asked", "prompt"}
  BY DEF Go
<1>2. Receiver \subseteq Client
  BY DEF Client
<1> QED
  BY <1>1, <1>2 DEF Sending

LEMMA AnswerKeeps ==
    ASSUME Sending, NEW c \in Client, NEW next \in Label, Answer(c, next),
           c \in Receiver => pc[c] = "asked",
           c \in Sender => next = "sending",
           code' = code, sent' = sent
    PROVE  Sending'
<1>1. CASE Head(inbox[c]).id = "Reject"
  <2>1. Leave(c, "failed", up[c])
    BY <1>1 DEF Answer
  <2>2. up[c] \in Seq(Server!ClientMessage) /\ "failed" \in Over
    BY DEF Sending, Over
  <2> QED
    BY <2>1, <2>2, LeaveKeeps
<1>2. CASE Head(inbox[c]).id # "Reject"
  <2>1. up' = up /\ \E label \in {next, pc[c]} : pc' = [pc EXCEPT ![c] = label]
    BY <1>2 DEF Answer, Go
  <2>2. PICK label \in {next, pc[c]} : pc' = [pc EXCEPT ![c] = label]
    BY <2>1
  <2> QED
    BY <2>1, <2>2, ClientsAssumption DEF Sending, Client
<1> QED
  BY <1>1, <1>2

-----------------------------------------------------------------------------
(* Sending is kept by every step: by the sender's, ... *)

LEMMA SenderKeeps ==
    ASSUME Sending, NEW s \in Sender, SenderStep(s)
    PROVE  Sending'
<1>0. s \in Client /\ s \notin Receiver
  BY ClientsAssumption DEF Client
<1>1. CASE Announce(s)
  <2>1. PICK p \in Phrase :
           /\ code' = [code EXCEPT ![s] = p]
           /\ IF link[s]
              THEN /\ Queue(s, Server!Send(p, FileOf[s]))
                   /\ Go(s, "await")
              ELSE Leave(s, "failed", up[s])
    BY <1>1 DEF Announce
  <2>2. Server!Send(p, FileOf[s]) \in Server!ClientMessage
    BY PhraseIsClientMessage, FilesAssumption
  <2>3. sent' = sent /\ code' \in [Client -> Phrase \cup {None}]
    BY <1>0, <1>1, <2>1 DEF Announce, Sending
  <2>4. up' \in [Client -> Seq(Server!ClientMessage)]
    <3>1. CASE link[s]
      BY <1>0, <2>1, <2>2, <3>1, QueueType
    <3>2. CASE ~link[s]
      BY <1>0, <2>1, <3>2, LeaveType DEF Sending
    <3> QED
      BY <3>1, <3>2
  <2>5. PICK label \in Label : pc' = [pc EXCEPT ![s] = label]
    BY <2>1 DEF Leave, Go, Label, Over
  <2>6. \A r \in Receiver : pc'[r] = pc[r] /\ code'[r] = code[r]
    BY <1>0, <2>1, <2>5 DEF Sending, Client
  <2> QED
    BY <1>0, <2>3, <2>4, <2>5, <2>6 DEF Sending
<1>2. CASE AwaitReceiver(s)
  BY <1>0, <1>2, AnswerKeeps DEF AwaitReceiver, Label
<1>3. CASE SendChunk(s)
  <2>0. sent[s] \in Nat /\ FileOf[s] \in File /\ Parts[FileOf[s]] \in Nat
    BY FilesAssumption DEF Sending
  <2>1. sent[s] + 1 \in 1 .. Parts[FileOf[s]] /\ FileOf[s] \in File
    BY <1>3, <2>0 DEF SendChunk
  <2>2. Server!Chunk(Contents(FileOf[s])[sent[s] + 1]) \in Server!ClientMessage
    BY <2>1, PartIsBody, ChunkIsClientMessage
  <2>3. up' \in [Client -> Seq(Server!ClientMessage)]
    BY <1>0, <1>3, <2>2, QueueType DEF SendChunk
  <2> QED
    BY <1>3, <2>3 DEF SendChunk, Sending
<1>4. CASE FinishSending(s)
  BY <1>0, <1>4, SignalIsClientMessage, QueueType, GoKeeps
     DEF FinishSending, EndOfInput, Label
<1>5. CASE StopSending(s)
  <2>1. Put(up[s], s, Server!Signal("FinalChunk")) \in Seq(Server!ClientMessage)
    BY <1>0, PutType, SignalIsClientMessage DEF Sending
  <2> QED
    BY <1>0, <1>5, <2>1, LeaveKeeps DEF StopSending, dataVars, Over
<1>6. CASE Confirm(s)
  <2>1. up[s] \in Seq(Server!ClientMessage)
    BY <1>0 DEF Sending
  <2>2. sent' = sent /\ code' = code
    BY <1>6 DEF Confirm, dataVars
  <2>3. \/ Leave(s, "ok", up[s])
        \/ Leave(s, "failed", up[s])
        \/ pc' = pc /\ up' = up
    BY <1>6 DEF Confirm
  <2>4. CASE Leave(s, "ok", up[s]) \/ Leave(s, "failed", up[s])
    BY <1>0, <2>1, <2>2, <2>4, LeaveKeeps DEF Over
  <2>5. CASE pc' = pc /\ up' = up
    BY <2>2, <2>5 DEF Sending
  <2> QED
    BY <2>3, <2>4, <2>5
<1> QED
  BY <1>1, <1>2, <1>3, <1>4, <1>5, <1>6 DEF SenderStep

(* ... by a receiver taking a message, whatever its disk does, ... *)
LEMMA TakeMessageKeeps ==
    ASSUME Sending, NEW r \in Receiver, NEW written, TakeMessage(r, written)
    PROVE  Sending'
<1>1. r \in Client /\ up[r] \in Seq(Server!ClientMessage)
  BY DEF Client, Sending
<1>2. sent' = sent /\ code' = code
  BY DEF TakeMessage
<1>3. \/ Leave(r, "failed", up[r])
      \/ ReportSuccess(r)
      \/ pc' = pc /\ up' = up
  BY DEF TakeMessage
<1>4. CASE Leave(r, "failed", up[r])
  BY <1>1, <1>2, <1>4, LeaveKeeps DEF Over
<1>5. CASE ReportSuccess(r)
  BY <1>1, <1>2, <1>5, SignalIsClientMessage, QueueType, GoKeeps DEF ReportSuccess, Label
<1>6. CASE pc' = pc /\ up' = up
  BY <1>2, <1>6 DEF Sending
<1> QED
  BY <1>3, <1>4, <1>5, <1>6

(* ... by the receiver's routine, ... *)
LEMMA ReceiverKeeps ==
    ASSUME Sending, NEW r \in Receiver, ReceiverStep(r)
    PROVE  Sending'
<1>0. r \in Client /\ r \notin Sender
  BY ClientsAssumption DEF Client
<1>1. CASE Ask(r)
  <2>1. PICK p \in Phrase : /\ code' = [code EXCEPT ![r] = p]
                            /\ Queue(r, Server!RequestReceive(p))
    BY <1>1 DEF Ask
  <2>2. up' \in [Client -> Seq(Server!ClientMessage)]
    BY <1>0, <2>1, PhraseIsClientMessage, QueueType
  <2>3. pc' = [pc EXCEPT ![r] = "asked"] /\ sent' = sent
    BY <1>1 DEF Ask, Go
  <2>4. \A q \in Receiver :
           \/ q = r /\ code'[q] \in Phrase
           \/ q # r /\ code'[q] = code[q] /\ pc'[q] = pc[q]
    BY <1>0, <2>1, <2>3 DEF Sending, Client
  <2>5. pc' \in [Client -> Label] /\ code' \in [Client -> Phrase \cup {None}]
    BY <2>1, <2>3 DEF Sending, Label
  <2> QED
    BY <2>2, <2>3, <2>4, <2>5 DEF Sending
<1>2. CASE AwaitOffer(r)
  BY <1>0, <1>2, AnswerKeeps DEF AwaitOffer, Label
<1>3. CASE ReceiveMessage(r)
  BY <1>3, TakeMessageKeeps DEF ReceiveMessage
<1>4. CASE Flushed(r)
  BY <1>0, <1>4, GoKeeps DEF Flushed, dataVars, Label, Over, Sending
<1> QED
  BY <1>1, <1>2, <1>3, <1>4 DEF ReceiverStep

LEMMA UnreadKeeps ==
    ASSUME Sending, NEW c \in Client, Unread(c)
    PROVE  up' \in [Client -> Seq(Server!ClientMessage)]
<1>1. up[c] \in Seq(Server!ClientMessage)
  BY DEF Sending
<1>2. up[c] # <<>> => <<Head(up[c])>> \in Seq(Server!ClientMessage)
  BY <1>1
<1>3. <<>> \in Seq(Server!ClientMessage)
  OBVIOUS
<1> DEFINE q == up'[c]
<1>4. q \in Seq(Server!ClientMessage) /\ up' = [up EXCEPT ![c] = q]
  BY <1>2, <1>3 DEF Unread, Sending
<1> QED
  BY <1>4 DEF Sending

(* ... by the network, ... *)
LEMMA NetworkKeeps ==
    ASSUME Sending, NEW c \in Client, NetworkStep(c)
    PROVE  Sending'
<1>1. CASE ServerReads(c)
  <2>1. up' \in [Client -> Seq(Server!ClientMessage)]
    <3>1. up[c] \in Seq(Server!ClientMessage) /\ up[c] # <<>>
      BY <1>1 DEF ServerReads, Sending
    <3>2. Tail(up[c]) \in Seq(Server!ClientMessage)
      BY <3>1
    <3> QED
      BY <1>1, <3>2 DEF ServerReads, Sending
  <2> QED
    BY <1>1, <2>1 DEF ServerReads, dataVars, Sending
<1>2. CASE ServerWrites(c)
  BY <1>2 DEF ServerWrites, dataVars, Sending
<1>3. CASE ServerCloses(c)
  BY <1>3, UnreadKeeps DEF ServerCloses, dataVars, Sending
<1>4. CASE ServerNotices(c)
  BY <1>4 DEF ServerNotices, clientVars, dataVars, Sending
<1>5. CASE ClientNotices(c)
  BY <1>5 DEF ClientNotices, dataVars, Sending
<1> QED
  BY <1>1, <1>2, <1>3, <1>4, <1>5 DEF NetworkStep

(* ... by the user, ... *)
LEMMA UserKeeps ==
    ASSUME Sending, UserStep
    PROVE  Sending'
<1>0. Receiver \subseteq Client
  BY DEF Client
<1>1. ASSUME NEW c \in Client, Start(c)
      PROVE  Sending'
  BY <1>1, GoKeeps DEF Start, dataVars, Label, Sending
<1>2. ASSUME NEW r \in Receiver, Decline(r)
      PROVE  Sending'
  <2>1. up[r] \in Seq(Server!ClientMessage)
    BY <1>0 DEF Sending
  <2> QED
    BY <1>0, <1>2, <2>1, LeaveKeeps DEF Decline, dataVars, Over
<1>3. ASSUME NEW r \in Receiver, Consent(r)
      PROVE  Sending'
  <2>1. Server!Receive(code[r]) \in Server!ClientMessage
    BY <1>3, PhraseIsClientMessage DEF Consent, Sending
  <2>2. up' \in [Client -> Seq(Server!ClientMessage)]
    BY <1>0, <1>3, <2>1, QueueType DEF Consent
  <2> QED
    BY <1>0, <1>3, <2>2, GoKeeps DEF Consent, dataVars, Label
<1> QED
  BY <1>1, <1>2, <1>3 DEF UserStep

(* ... and by every fault. *)
LEMMA FaultKeeps ==
    ASSUME Sending, FaultStep
    PROVE  Sending'
<1>0. Sender \subseteq Client /\ Receiver \subseteq Client
  BY DEF Client
<1>1. ASSUME NEW c \in Client, Crash(c)
      PROVE  Sending'
  <2>1. up[c] \in Seq(Server!ClientMessage)
    BY DEF Sending
  <2> QED
    BY <1>1, <2>1, LeaveKeeps DEF Crash, dataVars, Over
<1>2. ASSUME NEW c \in Client, Reset(c)
      PROVE  Sending'
  BY <1>2, UnreadKeeps DEF Reset, dataVars, Sending
<1>3. ASSUME NEW s \in Sender, Corrupt(s)
      PROVE  Sending'
  <2>1. PICK i \in 1 .. Len(up[s]) :
           /\ up[s][i].id = "Chunk"
           /\ up' = [up EXCEPT ![s][i] = Damaged(@)]
    BY <1>3 DEF Corrupt
  <2>2. up[s] \in Seq(Server!ClientMessage) /\ up[s][i] \in Server!ClientMessage
    BY <1>0, <2>1 DEF Sending
  <2> DEFINE q == [up[s] EXCEPT ![i] = Damaged(up[s][i])]
  <2>3. q \in Seq(Server!ClientMessage)
    BY <2>1, <2>2, DamagedMessage
  <2>4. up' = [up EXCEPT ![s] = q]
    BY <2>1
  <2>5. up' \in [Client -> Seq(Server!ClientMessage)]
    BY <2>3, <2>4 DEF Sending
  <2> QED
    BY <1>3, <2>5 DEF Corrupt, dataVars, Sending
<1>4. ASSUME NEW s \in Sender, FileGone(s)
      PROVE  Sending'
  <2>1. up[s] \in Seq(Server!ClientMessage)
    BY <1>0 DEF Sending
  <2> QED
    BY <1>0, <1>4, <2>1, LeaveKeeps DEF FileGone, dataVars, Over
<1>5. ASSUME NEW s \in Sender, ReadError(s)
      PROVE  Sending'
  BY <1>0, <1>5, SignalIsClientMessage, QueueType, GoKeeps DEF ReadError, EndOfInput, Label
<1>6. ASSUME NEW r \in Receiver, OpenError(r)
      PROVE  Sending'
  <2>1. Server!Receive(code[r]) \in Server!ClientMessage
    BY <1>6, PhraseIsClientMessage DEF OpenError, Sending
  <2>2. Put(up[r], r, Server!Receive(code[r])) \in Seq(Server!ClientMessage)
    BY <1>0, <2>1, PutType DEF Sending
  <2>3. Put(Put(up[r], r, Server!Receive(code[r])), r, Server!Signal("FailedReceive"))
          \in Seq(Server!ClientMessage)
    BY <2>2, PutType, SignalIsClientMessage
  <2> QED
    BY <1>0, <1>6, <2>3, LeaveKeeps DEF OpenError, dataVars, Over
<1>7. ASSUME NEW r \in Receiver, WriteError(r)
      PROVE  Sending'
  BY <1>7, TakeMessageKeeps DEF WriteError
<1> QED
  BY <1>1, <1>2, <1>3, <1>4, <1>5, <1>6, <1>7 DEF FaultStep

(* Sending is an inductive invariant. *)
THEOREM SendingInvariant == Spec => []Sending
<1>1. Init => Sending
  <2> SUFFICES ASSUME Init
               PROVE  Sending
    OBVIOUS
  <2>1. up \in [Client -> Seq(Server!ClientMessage)]
    BY DEF Init
  <2>2. pc = [c \in Client |-> "new"] /\ "new" \in Label
    BY DEF Init, Label
  <2>3. code \in [Client -> Phrase \cup {None}] /\ sent \in [Sender -> Nat]
    BY DEF Init
  <2> QED
    BY <2>1, <2>2, <2>3 DEF Sending, Client
<1>2. Sending /\ [Next]_vars => Sending'
  <2> SUFFICES ASSUME Sending, [Next]_vars
               PROVE  Sending'
    OBVIOUS
  <2>1. CASE ServerHandles
    BY <2>1 DEF ServerHandles, clientVars, dataVars, Sending
  <2>2. CASE UNCHANGED vars
    BY <2>2 DEF vars, clientVars, dataVars, Sending
  <2> QED
    BY <2>1, <2>2, NetworkKeeps, SenderKeeps, ReceiverKeeps, UserKeeps, FaultKeeps DEF Next
<1> QED
  BY <1>1, <1>2, PTL DEF Spec

-----------------------------------------------------------------------------
(* Every step is a step of the server in its open environment, or leaves   *)
(* the server alone.                                                       *)

LEMMA QuietStep ==
    ASSUME UNCHANGED serverVars
    PROVE  [Server!Next]_(Server!vars)
  BY DEF serverVars, Server!vars, Server!storage

LEMMA NetworkImplements ==
    ASSUME Sending, NEW c \in Client, NetworkStep(c)
    PROVE  [Server!Next]_(Server!vars)
<1>1. CASE ServerReads(c)
  <2>1. Head(up[c]) \in Server!ClientMessage
    BY <1>1 DEF ServerReads, Sending
  <2> QED
    BY <1>1, <2>1 DEF ServerReads, Server!Next
<1>2. CASE ServerWrites(c)
  BY <1>2 DEF ServerWrites, Server!Next
<1>3. CASE ServerCloses(c)
  BY <1>3 DEF ServerCloses, Server!Next
<1>4. CASE ServerNotices(c)
  BY <1>4 DEF ServerNotices, Server!Next
<1>5. CASE ClientNotices(c)
  BY <1>5, QuietStep DEF ClientNotices
<1> QED
  BY <1>1, <1>2, <1>3, <1>4, <1>5 DEF NetworkStep

LEMMA RoutineImplements ==
    ASSUME \/ \E s \in Sender : SenderStep(s)
           \/ \E r \in Receiver : ReceiverStep(r)
    PROVE  [Server!Next]_(Server!vars)
  BY QuietStep
     DEF SenderStep, Announce, AwaitReceiver, SendChunk, FinishSending, EndOfInput,
         StopSending, Confirm, ReceiverStep, Ask, AwaitOffer, ReceiveMessage,
         TakeMessage, Flushed

LEMMA UserImplements ==
    ASSUME UserStep
    PROVE  [Server!Next]_(Server!vars)
<1>1. ASSUME NEW c \in Client, Start(c)
      PROVE  [Server!Next]_(Server!vars)
  BY <1>1 DEF Start, Server!Next
<1>2. ASSUME NEW r \in Receiver, Decline(r) \/ Consent(r)
      PROVE  [Server!Next]_(Server!vars)
  BY <1>2, QuietStep DEF Decline, Consent
<1> QED
  BY <1>1, <1>2 DEF UserStep

LEMMA FaultImplements ==
    ASSUME FaultStep
    PROVE  [Server!Next]_(Server!vars)
<1>1. ASSUME NEW c \in Client, Reset(c)
      PROVE  [Server!Next]_(Server!vars)
  BY <1>1 DEF Reset, Server!Next
<1>2. ASSUME NEW c \in Client, Crash(c)
      PROVE  UNCHANGED serverVars
  BY <1>2 DEF Crash
<1>3. ASSUME NEW s \in Sender, Corrupt(s) \/ FileGone(s) \/ ReadError(s)
      PROVE  UNCHANGED serverVars
  BY <1>3 DEF Corrupt, FileGone, ReadError, EndOfInput
<1>4. ASSUME NEW r \in Receiver, OpenError(r) \/ WriteError(r)
      PROVE  UNCHANGED serverVars
  BY <1>4 DEF OpenError, WriteError, TakeMessage
<1> QED
  BY <1>1, <1>2, <1>3, <1>4, QuietStep DEF FaultStep

(* The refinement: with real clients, whatever they do and whatever fails, *)
(* the server runs as FileServer says it may.  All that is proved of       *)
(* FileServer therefore holds in a transfer.                               *)
THEOREM TransferImplementsServer == Spec => ImplementsServer
<1>1. Init => Server!Init
  BY DEF Init
<1>2. Sending /\ [Next]_vars => [Server!Next]_(Server!vars)
  <2> SUFFICES ASSUME Sending, [Next]_vars
               PROVE  [Server!Next]_(Server!vars)
    OBVIOUS
  <2>1. CASE ServerHandles
    BY <2>1 DEF ServerHandles, Server!Next
  <2>2. CASE UNCHANGED vars
    BY <2>2, QuietStep DEF vars
  <2> QED
    BY <2>1, <2>2, NetworkImplements, RoutineImplements, UserImplements,
       FaultImplements DEF Next
<1> QED
  BY <1>1, <1>2, SendingInvariant, PTL DEF Spec, ImplementsServer, Server!Spec

-----------------------------------------------------------------------------
(* FileServer's theorems, for the server inside Transfer.                  *)

Proved == INSTANCE FileServerProofs
            WITH BodySize <- [b \in Body |-> 3], HashLength <- 2,
                 MaxChunkSize <- 1, SizeModulus <- 8

ServerSafe == Server!TypeOK /\ Server!StorageConsistent

(* The two instances say the same, operator by operator. *)
LEMMA SameMessages ==
    Proved!ClientMessage = Server!ClientMessage /\ Proved!Message = Server!Message
  BY DEF Proved!ClientMessage, Server!ClientMessage, Proved!Message, Server!Message,
         Proved!MessageType, Server!MessageType, Proved!ServerReply, Server!ServerReply,
         Proved!Control, Server!Control, Proved!Data, Server!Data,
         Proved!Send, Server!Send, Proved!RequestReceive, Server!RequestReceive,
         Proved!Receive, Server!Receive, Proved!Chunk, Server!Chunk,
         Proved!Signal, Server!Signal, Proved!Encode, Server!Encode

LEMMA SameReplies ==
    /\ \A id : Proved!Signal(id) = Server!Signal(id)
    /\ \A f : Proved!Accept(f) = Server!Accept(f)
  BY DEF Proved!Signal, Server!Signal, Proved!Encode, Server!Encode,
         Proved!Accept, Server!Accept

LEMMA SameTables ==
    /\ \A f, k : Proved!Erase(f, k) = Server!Erase(f, k)
    /\ \A f, v : Proved!KeyOf(f, v) = Server!KeyOf(f, v)
    /\ \A f, k, v : Proved!MapInsert(f, k, v) = Server!MapInsert(f, k, v)
    /\ \A f, k, v : Proved!BimapInsert(f, k, v) = Server!BimapInsert(f, k, v)
  BY Zenon DEF Proved!Erase, Server!Erase, Proved!KeyOf, Server!KeyOf,
               Proved!MapInsert, Server!MapInsert, Proved!BimapInsert, Server!BimapInsert

LEMMA SamePieces ==
    /\ \A c, m : Proved!SendTo(c, m) = Server!SendTo(c, m)
    /\ \A p : Proved!GetSenderByCode(p) = Server!GetSenderByCode(p)
    /\ \A r : Proved!GetSenderByReceiver(r) = Server!GetSenderByReceiver(r)
    /\ \A c : Proved!IsConnected(c) <=> Server!IsConnected(c)
    /\ \A b : Proved!DataSize(b) = Server!DataSize(b)
  BY SameTables
     DEF Proved!SendTo, Server!SendTo, Proved!IsConnected, Server!IsConnected,
         Proved!GetSenderByCode, Server!GetSenderByCode,
         Proved!GetSenderByReceiver, Server!GetSenderByReceiver,
         Proved!DataSize, Server!DataSize

LEMMA SameRemovals ==
    ASSUME NEW s
    PROVE  /\ Proved!RemovePendingSender(s) <=> Server!RemovePendingSender(s)
           /\ Proved!RemoveSession(s) <=> Server!RemoveSession(s)
           /\ \A r : Proved!AddSession(s, r) <=> Server!AddSession(s, r)
  BY SameTables, SamePieces
     DEF Proved!RemovePendingSender, Server!RemovePendingSender,
         Proved!RemoveSession, Server!RemoveSession,
         Proved!AddSession, Server!AddSession

LEMMA SameAbrupt ==
    ASSUME NEW s
    PROVE  Proved!RemoveSessionAbruptly(s) <=> Server!RemoveSessionAbruptly(s)
  BY SameRemovals, SameReplies, SamePieces
     DEF Proved!RemoveSessionAbruptly, Server!RemoveSessionAbruptly

LEMMA SameSendEstablishment ==
    ASSUME NEW c, NEW m
    PROVE  Proved!OnSendEstablishment(c, m) <=> Server!OnSendEstablishment(c, m)
  BY SameTables, SameRemovals, SameReplies, SamePieces
     DEF Proved!OnSendEstablishment, Server!OnSendEstablishment

LEMMA SameReceiveEstablishment ==
    ASSUME NEW c, NEW m
    PROVE  Proved!OnReceiveEstablishment(c, m) <=> Server!OnReceiveEstablishment(c, m)
  BY SameReplies, SamePieces
     DEF Proved!OnReceiveEstablishment, Server!OnReceiveEstablishment,
         Proved!storage, Server!storage

LEMMA SameEstablishTransmission ==
    ASSUME NEW c, NEW m
    PROVE  Proved!EstablishTransmissionSession(c, m)
             <=> Server!EstablishTransmissionSession(c, m)
  BY SameAbrupt, SameRemovals, SameReplies, SamePieces
     DEF Proved!EstablishTransmissionSession, Server!EstablishTransmissionSession,
         Proved!storage, Server!storage

LEMMA SameEnds ==
    ASSUME NEW c
    PROVE  /\ Proved!FinishSession(c) <=> Server!FinishSession(c)
           /\ Proved!FailSession(c) <=> Server!FailSession(c)
  BY SameAbrupt, SameRemovals, SameReplies, SamePieces
     DEF Proved!FinishSession, Server!FinishSession, Proved!FailSession,
         Server!FailSession, Proved!storage, Server!storage

LEMMA SameSessionedMessage ==
    ASSUME NEW c, NEW m
    PROVE  Proved!OnSessionedMessage(c, m) <=> Server!OnSessionedMessage(c, m)
  BY SameAbrupt, SamePieces
     DEF Proved!OnSessionedMessage, Server!OnSessionedMessage,
         Proved!storage, Server!storage

LEMMA SameUpdate == Proved!Update <=> Server!Update
<1>1. ASSUME NEW c, NEW m
      PROVE  Proved!OnMessage(c, m) <=> Server!OnMessage(c, m)
  BY SameSendEstablishment, SameReceiveEstablishment, SameEstablishTransmission,
     SameEnds, SameSessionedMessage
     DEF Proved!OnMessage, Server!OnMessage, Proved!storage, Server!storage
<1> QED
  BY <1>1 DEF Proved!Update, Server!Update

LEMMA SameNetwork ==
    ASSUME NEW c
    PROVE  /\ Proved!Connect(c) <=> Server!Connect(c)
           /\ \A m : Proved!Arrive(c, m) <=> Server!Arrive(c, m)
           /\ Proved!WriteDone(c) <=> Server!WriteDone(c)
           /\ Proved!CloseFlushed(c) <=> Server!CloseFlushed(c)
           /\ Proved!ConnectionLost(c) <=> Server!ConnectionLost(c)
  BY DEF Proved!Connect, Server!Connect, Proved!Arrive, Server!Arrive,
         Proved!WriteDone, Server!WriteDone, Proved!CloseFlushed, Server!CloseFlushed,
         Proved!ConnectionLost, Server!ConnectionLost, Proved!Close, Server!Close,
         Proved!IsConnected, Server!IsConnected, Proved!Room, Server!Room,
         Proved!storage, Server!storage

LEMMA SameStep == [Server!Next]_(Server!vars) => [Proved!Next]_(Proved!vars)
<1>1. Server!Next => Proved!Next
  BY SameUpdate, SameNetwork, SameMessages DEF Proved!Next, Server!Next
<1>2. (UNCHANGED Server!vars) => UNCHANGED Proved!vars
  BY DEF Proved!vars, Server!vars, Proved!storage, Server!storage
<1>3. [Server!Next]_(Server!vars) => (Server!Next \/ UNCHANGED Server!vars)
  OBVIOUS
<1>4. (Proved!Next \/ UNCHANGED Proved!vars) => [Proved!Next]_(Proved!vars)
  OBVIOUS
<1> QED
  BY <1>1, <1>2, <1>3, <1>4

LEMMA SameSafe == Proved!TypeOK /\ Proved!StorageConsistent => ServerSafe
<1>1. Proved!TypeOK => Server!TypeOK
  BY SameMessages DEF Proved!TypeOK, Server!TypeOK
<1>2. Proved!StorageConsistent => Server!StorageConsistent
  BY DEF Proved!StorageConsistent, Server!StorageConsistent,
         Proved!PhrasesDistinct, Server!PhrasesDistinct,
         Proved!ReceiversDistinct, Server!ReceiversDistinct,
         Proved!PhraseHasContext, Server!PhraseHasContext,
         Proved!PairHasSession, Server!PairHasSession,
         Proved!SessionHasOffer, Server!SessionHasOffer
<1> QED
  BY <1>1, <1>2 DEF ServerSafe

(* FileServer's assumptions hold of the values Transfer gives. *)
LEMMA ServerConstants ==
    /\ None \notin Client
    /\ None \notin Phrase \cup File \cup Body
    /\ [b \in Body |-> 3] \in [Body -> 0 .. (8 - 1)]
    /\ 2 \in Nat \ {0} /\ 1 \in Nat /\ 8 \in Nat /\ 2 + 1 < 8
    /\ MaxIncoming \in Nat /\ MaxOut \in Nat
  BY ClientsAssumption, NoneAssumption, BoundAssumption DEF Client

(* With real clients the tables of ClientStorage keep their types and      *)
(* agree: FileServer's theorems, through the refinement.                   *)
THEOREM ServerStaysSafe == Spec => []ServerSafe
<1>1. Server!Init => Proved!Init
  BY DEF Proved!Init, Server!Init
<1>2. [Server!Next]_(Server!vars) => [Proved!Next]_(Proved!vars)
  BY SameStep
<1>3. Proved!Spec => []Proved!TypeOK
  BY ServerConstants, Proved!TypeCorrect
<1>4. Proved!Spec => []Proved!StorageConsistent
  BY ServerConstants, Proved!StorageStaysConsistent
<1> QED
  BY <1>1, <1>2, <1>3, <1>4, SameSafe, TransferImplementsServer, PTL
     DEF ImplementsServer, Server!Spec, Proved!Spec

-----------------------------------------------------------------------------
(* Who says what to whom.                                                  *)

SenderMessage == {m \in Server!ClientMessage : m.id \in {"Send", "Chunk", "FinalChunk"}}

ReceiverMessage ==
    {m \in Server!ClientMessage :
        m.id \in {"RequestReceive", "Receive", "FinishReceive", "FailedReceive"}}

Speech(c) == IF c \in Sender THEN SenderMessage ELSE ReceiverMessage

Heard == {e \in [remote : Client, msg : Server!ClientMessage] : e.msg \in Speech(e.remote)}

(* What the server tells a sender, and what a receiver: an Accept names a  *)
(* file there, and a chunk is a chunk of somebody's file.                  *)
SenderAnswer == {m \in Server!Message : m.id \in {"Accept", "Success"}}

ReceiverAnswer ==
    {m \in Server!Message :
        /\ m.id \in {"Accept", "Reject", "Abort", "Chunk", "FinalChunk"}
        /\ m.id = "Accept" => m.file \in File
        /\ m.id = "Chunk" => m.body \in Body}

Answers(c) == IF c \in Sender THEN SenderAnswer ELSE ReceiverAnswer

(* Offers and sessions belong to senders, and lead to receivers. *)
SendersOffer ==
    /\ \A r \in Receiver : /\ phrase[r] = None /\ context[r] = None
                           /\ receiverOf[r] = None /\ sink[r] = None
    /\ \A s \in Sender : /\ receiverOf[s] \in Receiver \cup {None}
                         /\ sink[s] \in Receiver \cup {None}

ClientTypes ==
    /\ link \in [Client -> BOOLEAN]
    /\ ready \in [Sender -> BOOLEAN]
    /\ ended \in [Sender -> BOOLEAN]
    /\ shown \in [Receiver -> File \cup {None}]
    /\ got \in [Receiver -> Seq(Body)]
    /\ diskBad \in [Receiver -> BOOLEAN]
    /\ faults \in 0 .. MaxFaults
    /\ inbox \in [Client -> Seq(Server!Message)]

Kinds ==
    /\ \A c \in Client : up[c] \in Seq(Speech(c))
    /\ incoming \in Seq(Heard)
    /\ \A c \in Client : inbox[c] \in Seq(Answers(c))
    /\ \A c \in Client : out[c] \in Seq(Answers(c))
    /\ SendersOffer

(* The invariants a layer may use of the states before and after a step. *)
Known == Sending /\ ServerSafe /\ ClientTypes /\ Kinds

-----------------------------------------------------------------------------
(* What one handler does, case by case, in terms of the clients' roles; e  *)
(* is what was taken off the queue.                                        *)

Withdrawn(s) ==
    /\ phrase' = [phrase EXCEPT ![s] = None]
    /\ context' = [context EXCEPT ![s] = None]
    /\ receiverOf' = [receiverOf EXCEPT ![s] = None]
    /\ sink' = [sink EXCEPT ![s] = None]
    /\ closing' = IF conn[s] = "open" THEN closing \cup {s} ELSE closing

Ignored(e) ==
    /\ sink[e.remote] = None
    /\ e.msg.id \in {"Chunk", "FinalChunk", "FinishReceive", "FailedReceive"}
    /\ e.remote \in Receiver => \A s \in Client : receiverOf[s] # e.remote
    /\ UNCHANGED <<closing, out, phrase, context, receiverOf, sink>>

Offered(e) ==
    /\ e.remote \in Sender /\ e.msg.id = "Send"
    /\ sink[e.remote] = None
    /\ \E p \in {None, e.msg.code} : phrase' = [phrase EXCEPT ![e.remote] = p]
    /\ context' = [context EXCEPT ![e.remote] = e.msg.file]
    /\ UNCHANGED <<closing, out, receiverOf, sink>>

Answered(e) ==
    /\ e.remote \in Receiver /\ e.msg.id = "RequestReceive"
    /\ \E a \in ReceiverAnswer :
          /\ a.id \in {"Accept", "Reject"}
          /\ a.id = "Accept" =>
                \E s \in Sender : phrase[s] = e.msg.code /\ a.file = context[s]
          /\ out' = Server!SendTo(e.remote, a)
    /\ UNCHANGED <<closing, phrase, context, receiverOf, sink>>

Joined(e, s) ==
    /\ e.remote \in Receiver /\ e.msg.id = "Receive"
    /\ phrase[s] = e.msg.code /\ context[s] # None
    /\ Server!AddSession(s, e.remote)
    /\ out' = Server!SendTo(s, Server!Accept(context[s]))
    /\ UNCHANGED <<closing, phrase, context>>

Refusal(e) ==
    /\ e.remote \in Receiver /\ e.msg.id = "Receive"
    /\ out' = Server!SendTo(e.remote, Server!Signal("Abort"))
    /\ UNCHANGED <<closing, phrase, context, receiverOf, sink>>

Completed(e, s) ==
    /\ e.remote \in Receiver /\ e.msg.id = "FinishReceive"
    /\ receiverOf[s] = e.remote /\ sink[s] # None
    /\ out' = Server!SendTo(s, Server!Signal("Success"))
    /\ Withdrawn(s)

BrokenOff(e, s) ==
    /\ \/ e.remote \in Receiver /\ e.msg.id = "FailedReceive" /\ receiverOf[s] = e.remote
       \/ e.remote = s
    /\ sink[s] \in Receiver
    /\ out' = Server!SendTo(sink[s], Server!Signal("Abort"))
    /\ Withdrawn(s)

Relayed(e) ==
    /\ e.remote \in Sender /\ e.msg.id \in {"Chunk", "FinalChunk"}
    /\ sink[e.remote] \in Receiver
    /\ out' = Server!SendTo(sink[e.remote], e.msg)
    /\ UNCHANGED <<closing, phrase, context, receiverOf, sink>>

Handled(e) ==
    \/ Ignored(e) \/ Offered(e) \/ Answered(e) \/ Refusal(e) \/ Relayed(e)
    \/ \E s \in Sender : Joined(e, s) \/ Completed(e, s) \/ BrokenOff(e, s)

-----------------------------------------------------------------------------
LEMMA HeadTail ==
    ASSUME NEW S, NEW q \in Seq(S), q # <<>>
    PROVE  /\ Head(q) \in S /\ Tail(q) \in Seq(S)
           /\ Len(q) \in Nat \ {0} /\ Len(Tail(q)) = Len(q) - 1
           /\ Head(q) = q[1]
           /\ \A i \in 1 .. Len(Tail(q)) : Tail(q)[i] = q[i + 1]
  OBVIOUS

LEMMA TailOfOne ==
    ASSUME NEW S, NEW q \in Seq(S), Len(q) = 1
    PROVE  Tail(q) = <<>>
<1>1. Tail(q) \in Seq(S) /\ Len(Tail(q)) = 0
  <2>1. q # <<>>
    OBVIOUS
  <2> QED
    BY <2>1
<1>2. \A t \in Seq(S) : Len(t) = 0 => t = <<>>
  OBVIOUS
<1> QED
  BY <1>1, <1>2

LEMMA HeadHeard ==
    ASSUME Kinds, incoming # <<>>
    PROVE  /\ Head(incoming) \in Heard
           /\ Tail(incoming) \in Seq(Heard)
  BY HeadTail DEF Kinds

LEMMA KeyOfTable ==
    ASSUME NEW f, NEW v
    PROVE  /\ Server!KeyOf(f, v) \in Client \cup {None}
           /\ Server!KeyOf(f, v) # None =>
                 Server!KeyOf(f, v) \in Client /\ f[Server!KeyOf(f, v)] = v
           /\ Server!KeyOf(f, v) = None => \A k \in Client : f[k] # v
  BY ServerConstants DEF Server!KeyOf

(* Only a sender is found by a phrase, and only a sender by its receiver.  *)
LEMMA FoundIsSender ==
    ASSUME Known, NEW v, v # None
    PROVE  /\ Server!GetSenderByCode(v) # None =>
                 /\ Server!GetSenderByCode(v) \in Sender
                 /\ phrase[Server!GetSenderByCode(v)] = v
           /\ Server!GetSenderByReceiver(v) # None =>
                 /\ Server!GetSenderByReceiver(v) \in Sender
                 /\ receiverOf[Server!GetSenderByReceiver(v)] = v
           /\ Server!GetSenderByReceiver(v) = None => \A k \in Client : receiverOf[k] # v
  BY KeyOfTable
     DEF Server!GetSenderByCode, Server!GetSenderByReceiver, Known, Kinds, SendersOffer, Client

LEMMA RemovalWithdraws ==
    ASSUME NEW s, Server!RemovePendingSender(s), Server!RemoveSession(s)
    PROVE  Withdrawn(s)
  BY DEF Server!RemovePendingSender, Server!RemoveSession, Server!Erase,
         Server!IsConnected, Withdrawn

(* What a message carries, by its type. *)
LEMMA Payload ==
    ASSUME NEW m \in Server!ClientMessage
    PROVE  /\ m \in Server!Message
           /\ m.id = "Send" => m.code \in Phrase /\ m.file \in File
           /\ m.id \in {"RequestReceive", "Receive"} => m.code \in Phrase
           /\ m.id = "Chunk" => m.body \in Body
  BY DEF Server!ClientMessage, Server!Message, Server!MessageType, Server!ServerReply,
         Server!Control, Server!Data, Server!Send, Server!RequestReceive, Server!Receive,
         Server!Chunk, Server!Signal, Server!Encode

LEMMA Roles ==
    ASSUME NEW e \in Heard
    PROVE  /\ e.remote \in Client /\ e.msg \in Server!ClientMessage
           /\ e.remote \in Sender <=> e.remote \notin Receiver
           /\ e.remote \in Sender => e.msg.id \in {"Send", "Chunk", "FinalChunk"}
           /\ e.remote \in Receiver =>
                 e.msg.id \in {"RequestReceive", "Receive", "FinishReceive", "FailedReceive"}
  BY ClientsAssumption DEF Heard, Client, Speech, SenderMessage, ReceiverMessage

LEMMA HandlesSession ==
    ASSUME Known, NEW e \in Heard, sink[e.remote] # None,
           Server!OnSessionedMessage(e.remote, e.msg)
    PROVE  Handled(e)
<1> DEFINE s == e.remote
<1>1. s \in Sender /\ sink[s] \in Receiver
  BY Roles DEF Known, Kinds, SendersOffer
<1>2. CASE Server!RemoveSessionAbruptly(s)
  <2>1. BrokenOff(e, s)
    BY <1>1, <1>2, RemovalWithdraws, ServerConstants
       DEF Server!RemoveSessionAbruptly, BrokenOff
  <2> QED
    BY <1>1, <2>1 DEF Handled
<1>3. CASE /\ e.msg.id \in {"Chunk", "FinalChunk"}
           /\ out' = Server!SendTo(sink[s], e.msg)
           /\ UNCHANGED <<closing, Server!storage>>
  <2>1. Relayed(e)
    BY <1>1, <1>3 DEF Relayed, Server!storage
  <2> QED
    BY <2>1 DEF Handled
<1> QED
  BY <1>2, <1>3 DEF Server!OnSessionedMessage

LEMMA HandlesSend ==
    ASSUME Known, NEW e \in Heard, sink[e.remote] = None, e.msg.id = "Send",
           Server!OnSendEstablishment(e.remote, e.msg)
    PROVE  Handled(e)
<1>1. e.remote \in Sender /\ e.remote \in Client /\ e.msg.code \in Phrase
  BY Roles, Payload
<1>2. context' = [context EXCEPT ![e.remote] = e.msg.file]
  BY <1>1 DEF Server!OnSendEstablishment, Server!MapInsert, Server!Erase,
              Known, ServerSafe, Server!TypeOK
<1>3. \E p \in {None, e.msg.code} : phrase' = [phrase EXCEPT ![e.remote] = p]
  BY <1>1 DEF Server!OnSendEstablishment, Server!BimapInsert, Server!MapInsert,
              Server!Erase, Known, ServerSafe, Server!TypeOK
<1>4. Offered(e)
  BY <1>1, <1>2, <1>3 DEF Server!OnSendEstablishment, Offered
<1> QED
  BY <1>4 DEF Handled

LEMMA HandlesRequest ==
    ASSUME Known, NEW e \in Heard, e.msg.id = "RequestReceive",
           Server!OnReceiveEstablishment(e.remote, e.msg)
    PROVE  Handled(e)
<1> DEFINE s == Server!GetSenderByCode(e.msg.code)
           reply == IF s # None /\ context[s] # None
                    THEN Server!Accept(context[s]) ELSE Server!Signal("Reject")
<1>1. e.remote \in Receiver /\ e.msg.code \in Phrase /\ e.msg.code # None
  BY Roles, Payload, NoneAssumption
<1>2. s # None => s \in Sender /\ phrase[s] = e.msg.code
  BY <1>1, FoundIsSender
<1>3. s # None /\ context[s] # None => context[s] \in File
  BY <1>2 DEF Known, ServerSafe, Server!TypeOK, Client
<1>4. reply \in ReceiverAnswer /\ reply.id \in {"Accept", "Reject"}
  BY <1>3 DEF ReceiverAnswer, Server!Message, Server!MessageType, Server!ServerReply,
              Server!Accept, Server!Signal, Server!Encode
<1>5. reply.id = "Accept" => \E t \in Sender : phrase[t] = e.msg.code /\ reply.file = context[t]
  BY <1>2 DEF Server!Accept, Server!Signal, Server!Encode
<1>6. /\ out' = Server!SendTo(e.remote, reply)
      /\ UNCHANGED <<closing, phrase, context, receiverOf, sink>>
  BY DEF Server!OnReceiveEstablishment, Server!storage
<1>7. Answered(e)
  BY <1>1, <1>4, <1>5, <1>6 DEF Answered
<1> QED
  BY <1>7 DEF Handled

LEMMA HandlesReceive ==
    ASSUME Known, NEW e \in Heard, e.msg.id = "Receive",
           Server!EstablishTransmissionSession(e.remote, e.msg)
    PROVE  Handled(e)
<1> DEFINE s == Server!GetSenderByCode(e.msg.code)
<1>1. e.remote \in Receiver /\ e.msg.code \in Phrase /\ e.msg.code # None
  BY Roles, Payload, NoneAssumption
<1>2. s # None => s \in Sender /\ phrase[s] = e.msg.code
  BY <1>1, FoundIsSender
<1>3. CASE s = None
  <2>1. Refusal(e)
    BY <1>1, <1>3 DEF Server!EstablishTransmissionSession, Refusal, Server!storage
  <2> QED
    BY <2>1 DEF Handled
<1>4. CASE s # None
  <2>1. s \in Sender /\ s \in Client /\ phrase[s] # None
    BY <1>1, <1>2, <1>4 DEF Client
  <2>2. context[s] # None
    BY <2>1 DEF Known, ServerSafe, Server!StorageConsistent, Server!PhraseHasContext
  <2>3. Joined(e, s)
    BY <1>1, <1>2, <1>4, <2>2 DEF Server!EstablishTransmissionSession, Joined
  <2> QED
    BY <2>1, <2>3 DEF Handled
<1> QED
  BY <1>3, <1>4

LEMMA HandlesFinish ==
    ASSUME Known, NEW e \in Heard, sink[e.remote] = None, e.msg.id = "FinishReceive",
           Server!FinishSession(e.remote)
    PROVE  Handled(e)
<1> DEFINE s == Server!GetSenderByReceiver(e.remote)
<1>1. e.remote \in Receiver /\ e.remote # None
  BY Roles, ServerConstants
<1>2. CASE s = None
  <2>1. Ignored(e)
    BY <1>1, <1>2, FoundIsSender DEF Server!FinishSession, Ignored, Server!storage
  <2> QED
    BY <2>1 DEF Handled
<1>3. CASE s # None
  <2>1. s \in Sender /\ s \in Client /\ receiverOf[s] = e.remote
    BY <1>1, <1>3, FoundIsSender DEF Client
  <2>2. sink[s] # None
    BY <1>1, <2>1 DEF Known, ServerSafe, Server!StorageConsistent, Server!PairHasSession
  <2>3. Withdrawn(s) /\ out' = Server!SendTo(s, Server!Signal("Success"))
    BY <1>3, RemovalWithdraws DEF Server!FinishSession
  <2>4. Completed(e, s)
    BY <1>1, <2>1, <2>2, <2>3 DEF Completed
  <2> QED
    BY <2>1, <2>4 DEF Handled
<1> QED
  BY <1>2, <1>3

LEMMA HandlesFailure ==
    ASSUME Known, NEW e \in Heard, sink[e.remote] = None, e.msg.id = "FailedReceive",
           Server!FailSession(e.remote)
    PROVE  Handled(e)
<1> DEFINE s == Server!GetSenderByReceiver(e.remote)
<1>1. e.remote \in Receiver /\ e.remote # None
  BY Roles, ServerConstants
<1>2. CASE s = None
  <2>1. Ignored(e)
    BY <1>1, <1>2, FoundIsSender DEF Server!FailSession, Ignored, Server!storage
  <2> QED
    BY <2>1 DEF Handled
<1>3. CASE s # None
  <2>1. s \in Sender /\ s \in Client /\ receiverOf[s] = e.remote
    BY <1>1, <1>3, FoundIsSender DEF Client
  <2>2. sink[s] # None
    BY <1>1, <2>1 DEF Known, ServerSafe, Server!StorageConsistent, Server!PairHasSession
  <2>3. sink[s] \in Receiver
    BY <2>1, <2>2 DEF Known, Kinds, SendersOffer
  <2>4. Withdrawn(s) /\ out' = Server!SendTo(sink[s], Server!Signal("Abort"))
    BY <1>3, <2>2, RemovalWithdraws DEF Server!FailSession, Server!RemoveSessionAbruptly
  <2>5. BrokenOff(e, s)
    BY <1>1, <2>1, <2>3, <2>4 DEF BrokenOff
  <2> QED
    BY <2>1, <2>5 DEF Handled
<1> QED
  BY <1>2, <1>3

(* Every step of the main thread is one of the cases. *)
LEMMA HandlerCases ==
    ASSUME Known, Server!Update
    PROVE  /\ Head(incoming) \in Heard
           /\ incoming' = Tail(incoming)
           /\ conn' = conn
           /\ Handled(Head(incoming))
<1> DEFINE e == Head(incoming)
<1>1. incoming # <<>> /\ incoming' = Tail(incoming) /\ conn' = conn
      /\ Server!OnMessage(e.remote, e.msg)
  BY DEF Server!Update
<1>2. e \in Heard
  BY <1>1, HeadHeard DEF Known
<1>3. Handled(e)
  <2>1. CASE sink[e.remote] # None
    BY <1>1, <1>2, <2>1, HandlesSession DEF Server!OnMessage
  <2>2. CASE sink[e.remote] = None
    <3>1. e.msg.id \in {"Send", "RequestReceive", "Receive", "FinishReceive",
                        "FailedReceive", "Chunk", "FinalChunk"}
      BY <1>2, Roles
    <3>2. CASE e.msg.id = "Send"
      BY <1>1, <1>2, <2>2, <3>2, HandlesSend DEF Server!OnMessage
    <3>3. CASE e.msg.id = "RequestReceive"
      BY <1>1, <1>2, <2>2, <3>3, HandlesRequest DEF Server!OnMessage
    <3>4. CASE e.msg.id = "Receive"
      BY <1>1, <1>2, <2>2, <3>4, HandlesReceive DEF Server!OnMessage
    <3>5. CASE e.msg.id = "FinishReceive"
      BY <1>1, <1>2, <2>2, <3>5, HandlesFinish DEF Server!OnMessage
    <3>6. CASE e.msg.id = "FailedReceive"
      BY <1>1, <1>2, <2>2, <3>6, HandlesFailure DEF Server!OnMessage
    <3>7. CASE e.msg.id \in {"Chunk", "FinalChunk"}
      <4>1. e.remote \notin Receiver
        BY <1>2, <3>7, Roles
      <4>2. Ignored(e)
        BY <1>1, <2>2, <3>7, <4>1 DEF Server!OnMessage, Ignored, Server!storage
      <4> QED
        BY <4>2 DEF Handled
    <3> QED
      BY <3>1, <3>2, <3>3, <3>4, <3>5, <3>6, <3>7
  <2> QED
    BY <2>1, <2>2
<1> QED
  BY <1>1, <1>2, <1>3

-----------------------------------------------------------------------------
(* Kinds and ClientTypes are kept by the routines: a step of c's routine   *)
(* changes c's queues alone, and within c's languages.                     *)

Spoken(c) ==
    /\ UNCHANGED serverVars
    /\ \E q \in Seq(Speech(c)) : up' = [up EXCEPT ![c] = q]
    /\ \E b \in Seq(Answers(c)) : inbox' = [inbox EXCEPT ![c] = b]

LEMMA AnswersAreMessages ==
    ASSUME NEW c
    PROVE  Answers(c) \subseteq Server!Message
  BY DEF Answers, SenderAnswer, ReceiverAnswer

LEMMA SpokenKinds ==
    ASSUME Known, NEW c \in Client, Spoken(c)
    PROVE  Kinds' /\ inbox' \in [Client -> Seq(Server!Message)]
<1>1. PICK q \in Seq(Speech(c)) : up' = [up EXCEPT ![c] = q]
  BY DEF Spoken
<1>2. PICK b \in Seq(Answers(c)) : inbox' = [inbox EXCEPT ![c] = b]
  BY DEF Spoken
<1>3. UNCHANGED <<incoming, out, phrase, context, receiverOf, sink>>
  BY DEF Spoken, serverVars
<1>4. b \in Seq(Server!Message)
  BY AnswersAreMessages
<1>5. \A d \in Client : up'[d] \in Seq(Speech(d)) /\ inbox'[d] \in Seq(Answers(d))
  BY <1>1, <1>2 DEF Known, Kinds, Sending, ClientTypes
<1> QED
  BY <1>2, <1>3, <1>4, <1>5 DEF Known, Kinds, SendersOffer, ClientTypes

LEMMA LeaveSpoken ==
    ASSUME Known, NEW c \in Client, NEW result, NEW q \in Seq(Speech(c)),
           Leave(c, result, q), UNCHANGED serverVars
    PROVE  Spoken(c)
<1>1. PICK n \in 0 .. Len(q) : up' = [up EXCEPT ![c] = SubSeq(q, 1, n)]
  BY DEF Leave
<1>2. SubSeq(q, 1, n) \in Seq(Speech(c))
  BY <1>1
<1>3. <<>> \in Seq(Answers(c)) /\ inbox' = [inbox EXCEPT ![c] = <<>>]
  BY DEF Leave
<1> QED
  BY <1>1, <1>2, <1>3 DEF Spoken

LEMMA PutSpoken ==
    ASSUME NEW c, NEW q \in Seq(Speech(c)), NEW m \in Speech(c)
    PROVE  Put(q, c, m) \in Seq(Speech(c))
  BY DEF Put

(* What is left of an inbox. *)
LEMMA RestOfInbox ==
    ASSUME Known, NEW c \in Client
    PROVE  /\ inbox[c] \in Seq(Answers(c)) /\ <<>> \in Seq(Answers(c))
           /\ inbox[c] # <<>> =>
                 Head(inbox[c]) \in Answers(c) /\ Tail(inbox[c]) \in Seq(Answers(c))
           /\ inbox = [inbox EXCEPT ![c] = inbox[c]]
<1>1. inbox[c] \in Seq(Answers(c)) /\ inbox \in [Client -> Seq(Server!Message)]
  BY DEF Known, Kinds, ClientTypes
<1> QED
  BY <1>1, HeadTail

LEMMA QueueSpoken ==
    ASSUME Known, NEW c \in Client, NEW m \in Speech(c), Queue(c, m),
           UNCHANGED serverVars,
           NEW b \in {inbox[c], Tail(inbox[c]), <<>>}, inbox' = [inbox EXCEPT ![c] = b],
           b = Tail(inbox[c]) => inbox[c] # <<>> \/ b = <<>>
    PROVE  Spoken(c)
<1>1. up[c] \in Seq(Speech(c))
  BY DEF Known, Kinds
<1>2. Put(up[c], c, m) \in Seq(Speech(c))
  BY <1>1, PutSpoken
<1>3. up' = [up EXCEPT ![c] = Put(up[c], c, m)]
  BY DEF Queue
<1>4. b \in Seq(Answers(c))
  BY RestOfInbox
<1> QED
  BY <1>2, <1>3, <1>4 DEF Spoken

LEMMA TakeSpoken ==
    ASSUME Known, NEW c \in Client, up' = up, UNCHANGED serverVars,
           NEW b \in {inbox[c], Tail(inbox[c]), <<>>}, inbox' = [inbox EXCEPT ![c] = b],
           b = Tail(inbox[c]) => inbox[c] # <<>> \/ b = <<>>
    PROVE  Spoken(c)
<1>1. up[c] \in Seq(Speech(c)) /\ up' = [up EXCEPT ![c] = up[c]]
  BY DEF Known, Kinds, Sending
<1>2. b \in Seq(Answers(c))
  BY RestOfInbox
<1> QED
  BY <1>1, <1>2 DEF Spoken

LEMMA AnswerSpoken ==
    ASSUME Known, NEW c \in Client, NEW next, Answer(c, next), UNCHANGED serverVars
    PROVE  Spoken(c)
<1>1. CASE Leave(c, "failed", up[c])
  BY <1>1, LeaveSpoken DEF Known, Kinds
<1>2. CASE inbox' = [inbox EXCEPT ![c] = Tail(inbox[c])] /\ up' = up
  <2>1. inbox[c] # <<>>
    BY DEF Answer
  <2> QED
    BY <1>2, <2>1, TakeSpoken
<1> QED
  BY <1>1, <1>2 DEF Answer

LEMMA SenderSpeech ==
    ASSUME NEW s \in Sender
    PROVE  /\ \A p \in Phrase : Server!Send(p, FileOf[s]) \in Speech(s)
           /\ \A b \in Body : Server!Chunk(b) \in Speech(s)
           /\ Server!Signal("FinalChunk") \in Speech(s)
<1>1. FileOf[s] \in File
  BY FilesAssumption
<1> QED
  BY <1>1, PhraseIsClientMessage, ChunkIsClientMessage, SignalIsClientMessage
     DEF Speech, SenderMessage, Server!Send, Server!Chunk, Server!Signal, Server!Encode

LEMMA ReceiverSpeech ==
    ASSUME NEW r \in Receiver
    PROVE  /\ \A p \in Phrase : /\ Server!RequestReceive(p) \in Speech(r)
                                /\ Server!Receive(p) \in Speech(r)
           /\ Server!Signal("FinishReceive") \in Speech(r)
           /\ Server!Signal("FailedReceive") \in Speech(r)
  BY ClientsAssumption, PhraseIsClientMessage, SignalIsClientMessage
     DEF Speech, ReceiverMessage, Server!RequestReceive, Server!Receive, Server!Signal,
         Server!Encode

(* The next chunk of a file is a chunk. *)
LEMMA NextChunk ==
    ASSUME Known, NEW s \in Sender, sent[s] < Parts[FileOf[s]]
    PROVE  Contents(FileOf[s])[sent[s] + 1] \in Body
<1>1. sent[s] \in Nat /\ FileOf[s] \in File /\ Parts[FileOf[s]] \in Nat
  BY FilesAssumption DEF Known, Sending
<1>2. sent[s] + 1 \in 1 .. Parts[FileOf[s]]
  BY <1>1
<1> QED
  BY <1>1, <1>2, PartIsBody

LEMMA SenderSpeaks ==
    ASSUME Known, NEW s \in Sender,
           SenderStep(s) \/ Crash(s) \/ FileGone(s) \/ ReadError(s)
    PROVE  Spoken(s)
<1>0. s \in Client /\ up[s] \in Seq(Speech(s))
  BY DEF Client, Known, Kinds
<1>1. CASE Announce(s)
  <2>1. PICK p \in Phrase :
            IF link[s]
            THEN /\ Queue(s, Server!Send(p, FileOf[s]))
                 /\ UNCHANGED <<link, inbox>>
            ELSE Leave(s, "failed", up[s])
    BY <1>1 DEF Announce
  <2>2. UNCHANGED serverVars
    BY <1>1 DEF Announce
  <2>3. CASE link[s]
    <3>1. inbox' = [inbox EXCEPT ![s] = inbox[s]]
      BY <1>0, <2>1, <2>3, RestOfInbox
    <3> QED
      BY <1>0, <2>1, <2>2, <2>3, <3>1, QueueSpoken, SenderSpeech
  <2>4. CASE ~link[s]
    BY <1>0, <2>1, <2>2, <2>4, LeaveSpoken
  <2> QED
    BY <2>3, <2>4
<1>2. CASE AwaitReceiver(s)
  BY <1>0, <1>2, AnswerSpoken DEF AwaitReceiver
<1>3. CASE SendChunk(s)
  <2>1. Server!Chunk(Contents(FileOf[s])[sent[s] + 1]) \in Speech(s)
    BY <1>3, NextChunk, SenderSpeech DEF SendChunk
  <2> QED
    BY <1>0, <1>3, <2>1, QueueSpoken DEF SendChunk
<1>4. CASE EndOfInput(s)
  <2>1. \E b \in {inbox[s], <<>>} : inbox' = [inbox EXCEPT ![s] = b]
    BY <1>0, <1>4, RestOfInbox DEF EndOfInput
  <2>2. Queue(s, Server!Signal("FinalChunk")) /\ Server!Signal("FinalChunk") \in Speech(s)
        /\ UNCHANGED serverVars
    BY <1>4, SenderSpeech DEF EndOfInput
  <2>3. Tail(<<>>) = <<>>
    OBVIOUS
  <2> QED
    BY <1>0, <2>1, <2>2, <2>3, QueueSpoken
<1>5. CASE StopSending(s)
  <2>1. Put(up[s], s, Server!Signal("FinalChunk")) \in Seq(Speech(s))
    BY <1>0, PutSpoken, SenderSpeech
  <2> QED
    BY <1>0, <1>5, <2>1, LeaveSpoken DEF StopSending
<1>6. CASE Confirm(s)
  <2>1. UNCHANGED serverVars /\ inbox[s] # <<>>
    BY <1>6 DEF Confirm
  <2>2. \/ Leave(s, "ok", up[s])
        \/ Leave(s, "failed", up[s])
        \/ inbox' = [inbox EXCEPT ![s] = Tail(inbox[s])] /\ up' = up
    BY <1>6 DEF Confirm
  <2> QED
    BY <1>0, <2>1, <2>2, LeaveSpoken, TakeSpoken
<1>7. CASE Crash(s) \/ FileGone(s)
  BY <1>0, <1>7, LeaveSpoken DEF Crash, FileGone
<1> QED
  BY <1>1, <1>2, <1>3, <1>4, <1>5, <1>6, <1>7 DEF SenderStep, FinishSending, ReadError

LEMMA TakeMessageSpeaks ==
    ASSUME Known, NEW r \in Receiver, NEW written, TakeMessage(r, written)
    PROVE  Spoken(r)
<1>0. r \in Client /\ up[r] \in Seq(Speech(r)) /\ inbox[r] # <<>> /\ UNCHANGED serverVars
  BY DEF TakeMessage, Client, Known, Kinds
<1>1. \/ Leave(r, "failed", up[r])
      \/ /\ inbox' = [inbox EXCEPT ![r] = Tail(inbox[r])]
         /\ ReportSuccess(r) \/ up' = up
  BY DEF TakeMessage
<1> QED
  BY <1>0, <1>1, LeaveSpoken, TakeSpoken, QueueSpoken, ReceiverSpeech DEF ReportSuccess

LEMMA ReceiverSpeaks ==
    ASSUME Known, NEW r \in Receiver,
           \/ ReceiverStep(r) \/ Decline(r) \/ Consent(r)
           \/ Crash(r) \/ OpenError(r) \/ WriteError(r)
    PROVE  Spoken(r)
<1>0. r \in Client /\ up[r] \in Seq(Speech(r))
  BY DEF Client, Known, Kinds
<1>1. CASE Ask(r)
  <2>1. PICK p \in Phrase : Queue(r, Server!RequestReceive(p))
    BY <1>1 DEF Ask
  <2>2. UNCHANGED serverVars /\ inbox' = [inbox EXCEPT ![r] = inbox[r]]
    BY <1>0, <1>1, RestOfInbox DEF Ask
  <2> QED
    BY <1>0, <2>1, <2>2, QueueSpoken, ReceiverSpeech
<1>2. CASE AwaitOffer(r)
  BY <1>0, <1>2, AnswerSpoken DEF AwaitOffer
<1>3. CASE ReceiveMessage(r) \/ WriteError(r)
  BY <1>3, TakeMessageSpeaks DEF ReceiveMessage, WriteError
<1>4. CASE Flushed(r)
  <2>1. up' = up /\ inbox' = [inbox EXCEPT ![r] = <<>>] /\ UNCHANGED serverVars
    BY <1>4 DEF Flushed
  <2>2. Tail(<<>>) = <<>>
    OBVIOUS
  <2> QED
    BY <1>0, <2>1, <2>2, TakeSpoken
<1>5. CASE Decline(r) \/ Crash(r)
  BY <1>0, <1>5, LeaveSpoken DEF Decline, Crash
<1>6. ASSUME pc[r] = "prompt"
      PROVE  Server!Receive(code[r]) \in Speech(r)
  BY <1>6, ReceiverSpeech DEF Known, Sending
<1>7. CASE Consent(r)
  <2>1. inbox' = [inbox EXCEPT ![r] = inbox[r]] /\ UNCHANGED serverVars
        /\ Queue(r, Server!Receive(code[r])) /\ Server!Receive(code[r]) \in Speech(r)
    BY <1>0, <1>6, <1>7, RestOfInbox DEF Consent
  <2> QED
    BY <1>0, <2>1, QueueSpoken
<1>8. CASE OpenError(r)
  <2>1. Put(Put(up[r], r, Server!Receive(code[r])), r, Server!Signal("FailedReceive"))
          \in Seq(Speech(r))
    BY <1>0, <1>6, <1>8, PutSpoken, ReceiverSpeech DEF OpenError
  <2> QED
    BY <1>0, <1>8, <2>1, LeaveSpoken DEF OpenError
<1> QED
  BY <1>1, <1>2, <1>3, <1>4, <1>5, <1>7, <1>8 DEF ReceiverStep

-----------------------------------------------------------------------------
(* The types of what the clients know. *)
DataTypes ==
    /\ link \in [Client -> BOOLEAN]
    /\ ready \in [Sender -> BOOLEAN]
    /\ ended \in [Sender -> BOOLEAN]
    /\ shown \in [Receiver -> File \cup {None}]
    /\ got \in [Receiver -> Seq(Body)]
    /\ diskBad \in [Receiver -> BOOLEAN]
    /\ faults \in 0 .. MaxFaults

LEMMA FaultCounts ==
    ASSUME Known, Fault
    PROVE  faults' \in 0 .. MaxFaults
  BY BoundAssumption DEF Known, ClientTypes, Fault

LEMMA RoutineLink ==
    ASSUME Known, NEW c \in Client,
           link' = link \/ link' = [link EXCEPT ![c] = FALSE]
    PROVE  link' \in [Client -> BOOLEAN]
  BY DEF Known, ClientTypes

LEMMA LeaveLink ==
    ASSUME NEW c, NEW result, NEW q, Leave(c, result, q)
    PROVE  link' = [link EXCEPT ![c] = FALSE]
  BY DEF Leave

LEMMA SenderData ==
    ASSUME Known, NEW s \in Sender,
           SenderStep(s) \/ FileGone(s) \/ ReadError(s)
    PROVE  DataTypes'
<1>0. s \in Client
  BY DEF Client
<1>1. link' = link \/ link' = [link EXCEPT ![s] = FALSE]
  BY LeaveLink DEF SenderStep, Announce, AwaitReceiver, Answer, SendChunk, FinishSending,
     EndOfInput, StopSending, Confirm, FileGone, ReadError
<1>2. link' \in [Client -> BOOLEAN]
  BY <1>0, <1>1, RoutineLink
<1>3. ready' \in [Sender -> BOOLEAN] /\ ended' \in [Sender -> BOOLEAN]
  BY DEF Known, ClientTypes, SenderStep, Announce, AwaitReceiver, SendChunk, FinishSending,
     EndOfInput, StopSending, Confirm, FileGone, ReadError, dataVars
<1>4. UNCHANGED <<shown, got, diskBad>>
  BY DEF SenderStep, Announce, AwaitReceiver, SendChunk, FinishSending,
     EndOfInput, StopSending, Confirm, FileGone, ReadError, dataVars
<1>5. faults' \in 0 .. MaxFaults
  <2>1. Fault \/ UNCHANGED faults
    BY DEF SenderStep, Announce, AwaitReceiver, SendChunk, FinishSending,
       EndOfInput, StopSending, Confirm, FileGone, ReadError
  <2> QED
    BY <2>1, FaultCounts DEF Known, ClientTypes
<1> QED
  BY <1>2, <1>3, <1>4, <1>5 DEF DataTypes, Known, ClientTypes

LEMMA TakeMessageData ==
    ASSUME Known, NEW r \in Receiver, NEW written \in BOOLEAN, TakeMessage(r, written)
    PROVE  /\ link' = link \/ link' = [link EXCEPT ![r] = FALSE]
           /\ got' \in [Receiver -> Seq(Body)]
           /\ diskBad' \in [Receiver -> BOOLEAN]
           /\ UNCHANGED <<ready, ended, shown>>
<1> DEFINE m == Head(inbox[r])
<1>1. m \in ReceiverAnswer
  <2>1. r \in Client /\ r \notin Sender
    BY ClientsAssumption DEF Client
  <2>2. inbox[r] \in Seq(ReceiverAnswer) /\ inbox[r] # <<>>
    BY <2>1 DEF Known, Kinds, TakeMessage, Answers
  <2> QED
    BY <2>2, HeadTail
<1>2. link' = link \/ link' = [link EXCEPT ![r] = FALSE]
  BY LeaveLink DEF TakeMessage, ReportSuccess
<1>3. diskBad' \in [Receiver -> BOOLEAN]
  <2>1. \/ diskBad' = diskBad
        \/ diskBad' = [diskBad EXCEPT ![r] = diskBad[r] \/ (m.id = "Chunk" /\ ~written)]
    BY DEF TakeMessage
  <2>2. (m.id = "Chunk") \in BOOLEAN
    OBVIOUS
  <2> QED
    BY <2>1, <2>2 DEF Known, ClientTypes
<1>4. got' \in [Receiver -> Seq(Body)]
  <2>1. got' = got \/ (m.id = "Chunk" /\ got' = [got EXCEPT ![r] = Append(got[r], m.body)])
    BY DEF TakeMessage
  <2>2. m.id = "Chunk" => m.body \in Body
    BY <1>1 DEF ReceiverAnswer
  <2>3. got \in [Receiver -> Seq(Body)]
    BY DEF Known, ClientTypes
  <2>4. m.id = "Chunk" => Append(got[r], m.body) \in Seq(Body)
    BY <2>2, <2>3
  <2> QED
    BY <2>1, <2>3, <2>4
<1> QED
  BY <1>2, <1>3, <1>4 DEF TakeMessage

LEMMA OfferedFile ==
    ASSUME Known, NEW r \in Receiver, inbox[r] # <<>>
    PROVE  Head(inbox[r]).file \in File \cup {None}
<1>1. r \in Client
  BY DEF Client
<1>2. Head(inbox[r]) \in Server!Message
  BY <1>1, RestOfInbox, AnswersAreMessages
<1> QED
  BY <1>2 DEF Server!Message

LEMMA ReceiverData ==
    ASSUME Known, NEW r \in Receiver,
           ReceiverStep(r) \/ Decline(r) \/ Consent(r) \/ OpenError(r) \/ WriteError(r)
    PROVE  DataTypes'
<1>0. r \in Client
  BY DEF Client
<1>1. CASE ReceiveMessage(r) \/ WriteError(r)
  <2>1. PICK written \in BOOLEAN : TakeMessage(r, written)
    BY <1>1 DEF ReceiveMessage, WriteError
  <2>2. faults' \in 0 .. MaxFaults
    BY <1>1, FaultCounts DEF ReceiveMessage, WriteError, Known, ClientTypes
  <2>3. link' \in [Client -> BOOLEAN]
    BY <1>0, <2>1, TakeMessageData, RoutineLink
  <2> QED
    BY <2>1, <2>2, <2>3, TakeMessageData DEF DataTypes, Known, ClientTypes
<1>2. CASE Ask(r) \/ AwaitOffer(r) \/ Flushed(r) \/ Decline(r) \/ Consent(r) \/ OpenError(r)
  <2>1. link' = link \/ link' = [link EXCEPT ![r] = FALSE]
    BY <1>2, LeaveLink DEF Ask, AwaitOffer, Answer, Flushed, Decline, Consent, OpenError
  <2>2. link' \in [Client -> BOOLEAN]
    BY <1>0, <2>1, RoutineLink
  <2>3. shown' \in [Receiver -> File \cup {None}]
    <3>1. shown' = shown \/ (inbox[r] # <<>> /\ shown' = [shown EXCEPT ![r] = Head(inbox[r]).file])
      BY <1>2 DEF Ask, AwaitOffer, Answer, Flushed, Decline, Consent, OpenError, dataVars
    <3> QED
      BY <3>1, OfferedFile DEF Known, ClientTypes
  <2>4. UNCHANGED <<ready, ended, got, diskBad>>
    BY <1>2 DEF Ask, AwaitOffer, Flushed, Decline, Consent, OpenError, dataVars
  <2>5. faults' \in 0 .. MaxFaults
    <3>1. Fault \/ UNCHANGED faults
      BY <1>2 DEF Ask, AwaitOffer, Flushed, Decline, Consent, OpenError
    <3> QED
      BY <3>1, FaultCounts DEF Known, ClientTypes
  <2> QED
    BY <2>2, <2>3, <2>4, <2>5 DEF DataTypes, Known, ClientTypes
<1> QED
  BY <1>1, <1>2 DEF ReceiverStep

-----------------------------------------------------------------------------
(* Kinds and ClientTypes are kept by the network and by the main thread.   *)

LEMMA StartKeeps ==
    ASSUME Known, NEW c \in Client, Start(c)
    PROVE  Kinds' /\ ClientTypes'
<1>1. UNCHANGED <<incoming, out, phrase, context, receiverOf, sink, up, inbox>>
  BY DEF Start, Server!Connect, Server!storage
<1>2. link' \in [Client -> BOOLEAN] /\ UNCHANGED <<dataVars, faults>>
  BY DEF Start, Known, ClientTypes
<1> QED
  BY <1>1, <1>2 DEF Known, Kinds, SendersOffer, ClientTypes, dataVars

LEMMA UnreadKinds ==
    ASSUME Known, NEW c \in Client, Unread(c)
    PROVE  \A d \in Client : up'[d] \in Seq(Speech(d))
<1>1. up[c] \in Seq(Speech(c))
  BY DEF Known, Kinds
<1>2. up[c] # <<>> => <<Head(up[c])>> \in Seq(Speech(c))
  BY <1>1
<1>3. <<>> \in Seq(Speech(c))
  OBVIOUS
<1>4. \E q \in Seq(Speech(c)) : up' = [up EXCEPT ![c] = q]
  BY <1>2, <1>3 DEF Unread
<1> QED
  BY <1>4 DEF Known, Kinds, Sending

LEMMA CloseKinds ==
    ASSUME Known, NEW c \in Client, Server!Close(c)
    PROVE  /\ \A d \in Client : out'[d] \in Seq(Answers(d))
           /\ UNCHANGED <<incoming, phrase, context, receiverOf, sink>>
<1>1. out' = [out EXCEPT ![c] = <<>>] /\ <<>> \in Seq(Answers(c))
  BY DEF Server!Close
<1> QED
  BY <1>1 DEF Server!Close, Server!storage, Known, Kinds, ServerSafe, Server!TypeOK

LEMMA ReadsKinds ==
    ASSUME Known, NEW c \in Client, ServerReads(c)
    PROVE  Kinds'
<1>1. up[c] \in Seq(Speech(c)) /\ up[c] # <<>> /\ up[c] \in Seq(Server!ClientMessage)
  BY DEF Known, Kinds, Sending, ServerReads
<1>2. Head(up[c]) \in Speech(c) /\ Head(up[c]) \in Server!ClientMessage
      /\ Tail(up[c]) \in Seq(Speech(c))
  BY <1>1, HeadTail
<1>3. [remote |-> c, msg |-> Head(up[c])] \in Heard
  BY <1>2 DEF Heard
<1>4. incoming' \in Seq(Heard)
  BY <1>3 DEF ServerReads, Server!Arrive, Known, Kinds
<1>5. \A d \in Client : up'[d] \in Seq(Speech(d))
  BY <1>2 DEF ServerReads, Known, Kinds, Sending
<1>6. UNCHANGED <<out, inbox, phrase, context, receiverOf, sink>>
  BY DEF ServerReads, Server!Arrive, Server!storage
<1> QED
  BY <1>4, <1>5, <1>6 DEF Known, Kinds, SendersOffer

LEMMA WritesKinds ==
    ASSUME Known, NEW c \in Client, ServerWrites(c)
    PROVE  Kinds' /\ inbox' \in [Client -> Seq(Server!Message)]
<1>1. out[c] \in Seq(Answers(c)) /\ out[c] # <<>>
  BY DEF Known, Kinds, ServerWrites, Server!WriteDone
<1>2. Head(out[c]) \in Answers(c) /\ Tail(out[c]) \in Seq(Answers(c))
  BY <1>1, HeadTail
<1>3. \A d \in Client : out'[d] \in Seq(Answers(d))
  BY <1>2 DEF ServerWrites, Server!WriteDone, Known, Kinds, ServerSafe, Server!TypeOK
<1>4. inbox' = inbox \/ inbox' = [inbox EXCEPT ![c] = Append(inbox[c], Head(out[c]))]
  BY DEF ServerWrites
<1>5. Append(inbox[c], Head(out[c])) \in Seq(Answers(c))
  BY <1>2 DEF Known, Kinds
<1>6. Append(inbox[c], Head(out[c])) \in Seq(Server!Message)
  BY <1>5, AnswersAreMessages
<1>7. \A d \in Client : inbox'[d] \in Seq(Answers(d))
  BY <1>4, <1>5 DEF Known, Kinds, ClientTypes
<1>8. UNCHANGED <<up, incoming, phrase, context, receiverOf, sink>>
  BY DEF ServerWrites, Server!WriteDone, Server!storage
<1> QED
  BY <1>3, <1>4, <1>6, <1>7, <1>8 DEF Known, Kinds, SendersOffer, ClientTypes

LEMMA NetworkKinds ==
    ASSUME Known, NEW c \in Client, NetworkStep(c) \/ Reset(c)
    PROVE  Kinds' /\ ClientTypes'
<1>1. CASE ServerReads(c)
  BY <1>1, ReadsKinds DEF ServerReads, dataVars, Known, ClientTypes
<1>2. CASE ServerWrites(c)
  BY <1>2, WritesKinds DEF ServerWrites, dataVars, Known, ClientTypes
<1>3. CASE ServerCloses(c) \/ Reset(c)
  <2>1. Server!Close(c) /\ Unread(c) /\ UNCHANGED <<inbox, dataVars>>
    BY <1>3 DEF ServerCloses, Reset, Server!CloseFlushed, Server!ConnectionLost
  <2>2. Kinds'
    BY <2>1, UnreadKinds, CloseKinds DEF Known, Kinds, SendersOffer
  <2>3. link' = link \/ link' = [link EXCEPT ![c] = FALSE]
    BY <1>3 DEF ServerCloses, Reset
  <2>4. faults' \in 0 .. MaxFaults
    BY <1>3, FaultCounts DEF ServerCloses, Reset, Known, ClientTypes
  <2> QED
    BY <2>1, <2>2, <2>3, <2>4, RoutineLink DEF dataVars, Known, ClientTypes
<1>4. CASE ServerNotices(c)
  <2>1. Server!Close(c) /\ UNCHANGED <<clientVars, faults>>
    BY <1>4 DEF ServerNotices, Server!ConnectionLost
  <2> QED
    BY <2>1, CloseKinds DEF clientVars, dataVars, Known, Kinds, SendersOffer, ClientTypes
<1>5. CASE ClientNotices(c)
  BY <1>5, RoutineLink
     DEF ClientNotices, serverVars, dataVars, Known, Kinds, SendersOffer, ClientTypes
<1> QED
  BY <1>1, <1>2, <1>3, <1>4, <1>5 DEF NetworkStep

LEMMA CorruptKinds ==
    ASSUME Known, NEW s \in Sender, Corrupt(s)
    PROVE  Kinds' /\ ClientTypes'
<1>0. s \in Client /\ up[s] \in Seq(Speech(s)) /\ up[s] \in Seq(Server!ClientMessage)
  BY DEF Client, Known, Kinds, Sending
<1>1. PICK i \in 1 .. Len(up[s]) :
         /\ up[s][i].id = "Chunk"
         /\ up' = [up EXCEPT ![s] = [up[s] EXCEPT ![i] = Damaged(up[s][i])]]
  BY DEF Corrupt
<1>2. Damaged(up[s][i]) \in Server!ClientMessage
  BY <1>0, <1>1, DamagedMessage
<1>3. Damaged(up[s][i]) \in Speech(s)
  BY <1>2 DEF Damaged, Speech, SenderMessage, Server!Chunk, Server!Encode
<1>4. [up[s] EXCEPT ![i] = Damaged(up[s][i])] \in Seq(Speech(s))
  BY <1>0, <1>1, <1>3
<1>5. \A d \in Client : up'[d] \in Seq(Speech(d))
  BY <1>1, <1>4 DEF Known, Kinds, Sending
<1>6. faults' \in 0 .. MaxFaults
  BY FaultCounts DEF Corrupt
<1> QED
  BY <1>5, <1>6 DEF Corrupt, serverVars, dataVars, Known, Kinds, SendersOffer, ClientTypes

(* What the server says to one client keeps out in its languages. *)
LEMMA SendToKinds ==
    ASSUME Known, NEW c \in Client, NEW m \in Answers(c), out' = Server!SendTo(c, m)
    PROVE  \A d \in Client : out'[d] \in Seq(Answers(d))
<1>1. Append(out[c], m) \in Seq(Answers(c))
  BY DEF Known, Kinds
<1>2. out' = out \/ out' = [out EXCEPT ![c] = Append(out[c], m)]
  BY DEF Server!SendTo
<1> QED
  BY <1>1, <1>2 DEF Known, Kinds, ServerSafe, Server!TypeOK

LEMMA WithdrawnOffer ==
    ASSUME Known, NEW s \in Sender, Withdrawn(s)
    PROVE  SendersOffer'
  BY ServerConstants, ClientsAssumption
     DEF Withdrawn, Known, Kinds, SendersOffer, ServerSafe, Server!TypeOK, Client

LEMMA JoinedOffer ==
    ASSUME Known, NEW s \in Sender, NEW r \in Receiver, Server!AddSession(s, r),
           UNCHANGED <<phrase, context>>
    PROVE  SendersOffer'
<1>1. \E v \in {receiverOf[s], r} : receiverOf' = [receiverOf EXCEPT ![s] = v]
  BY DEF Server!AddSession, Server!BimapInsert, Server!MapInsert, Known, ServerSafe,
         Server!TypeOK, Client
<1>2. \E v \in {sink[s], r} : sink' = [sink EXCEPT ![s] = v]
  BY DEF Server!AddSession, Server!MapInsert, Known, ServerSafe, Server!TypeOK, Client
<1> QED
  BY <1>1, <1>2, ClientsAssumption
     DEF Known, Kinds, SendersOffer, ServerSafe, Server!TypeOK, Client

LEMMA ServerAnswers ==
    /\ \A s \in Sender : /\ \A f \in File : Server!Accept(f) \in Answers(s)
                         /\ Server!Signal("Success") \in Answers(s)
    /\ \A r \in Receiver : /\ Server!Signal("Abort") \in Answers(r)
                           /\ \A m \in SenderMessage :
                                 m.id \in {"Chunk", "FinalChunk"} => m \in Answers(r)
                           /\ ReceiverAnswer \subseteq Answers(r)
<1>1. ASSUME NEW r \in Receiver PROVE Answers(r) = ReceiverAnswer
  BY ClientsAssumption DEF Answers
<1>2. ASSUME NEW m \in SenderMessage, m.id \in {"Chunk", "FinalChunk"}
      PROVE  m \in ReceiverAnswer
  BY <1>2, Payload DEF SenderMessage, ReceiverAnswer
<1>3. Server!Signal("Abort") \in ReceiverAnswer
  BY DEF ReceiverAnswer, Server!Message, Server!MessageType, Server!ServerReply,
         Server!Signal, Server!Encode
<1>4. ASSUME NEW s \in Sender
      PROVE  /\ \A f \in File : Server!Accept(f) \in Answers(s)
             /\ Server!Signal("Success") \in Answers(s)
  BY DEF Answers, SenderAnswer, Server!Message, Server!MessageType, Server!ServerReply,
         Server!Signal, Server!Accept, Server!Encode
<1> QED
  BY <1>1, <1>2, <1>3, <1>4

LEMMA HandlerKinds ==
    ASSUME Known, ServerHandles
    PROVE  Kinds' /\ ClientTypes'
<1> DEFINE e == Head(incoming)
<1>1. /\ e \in Heard /\ incoming' = Tail(incoming) /\ incoming # <<>>
      /\ Handled(e)
  BY HandlerCases DEF ServerHandles, Server!Update
<1>2. Tail(incoming) \in Seq(Heard)
  BY <1>1, HeadHeard DEF Known
<1>3. Sender \subseteq Client /\ Receiver \subseteq Client
  BY DEF Client
<1>4. (\A d \in Client : out'[d] \in Seq(Answers(d))) /\ SendersOffer'
  <2>0. (\A d \in Client : out[d] \in Seq(Answers(d))) /\ SendersOffer
    BY DEF Known, Kinds
  <2>1. CASE Ignored(e)
    BY <2>0, <2>1 DEF Ignored, SendersOffer
  <2>2. CASE Offered(e)
    <3>1. UNCHANGED <<out, receiverOf, sink>> /\ e.remote \in Sender
      BY <2>2 DEF Offered
    <3>2. \A r \in Receiver : phrase'[r] = phrase[r] /\ context'[r] = context[r]
      BY <1>3, <2>2, ClientsAssumption DEF Offered, Known, ServerSafe, Server!TypeOK
    <3> QED
      BY <2>0, <3>1, <3>2 DEF SendersOffer
  <2>3. CASE Answered(e)
    BY <1>3, <2>0, <2>3, SendToKinds, ServerAnswers DEF Answered, SendersOffer
  <2>4. CASE Refusal(e)
    BY <1>3, <2>0, <2>4, SendToKinds, ServerAnswers DEF Refusal, SendersOffer
  <2>5. CASE Relayed(e)
    <3>1. e.msg \in SenderMessage
      BY <1>1, <2>5 DEF Relayed, Heard, Speech
    <3>2. e.msg \in Answers(sink[e.remote])
      BY <2>5, <3>1, ServerAnswers DEF Relayed
    <3> QED
      BY <1>3, <2>0, <2>5, <3>2, SendToKinds DEF Relayed, SendersOffer
  <2>6. ASSUME NEW s \in Sender, Joined(e, s)
        PROVE  (\A d \in Client : out'[d] \in Seq(Answers(d))) /\ SendersOffer'
    <3>1. context[s] \in File
      BY <1>3, <2>6 DEF Joined, Known, ServerSafe, Server!TypeOK
    <3> QED
      BY <1>3, <2>6, <3>1, SendToKinds, ServerAnswers, JoinedOffer DEF Joined
  <2>7. ASSUME NEW s \in Sender, Completed(e, s)
        PROVE  (\A d \in Client : out'[d] \in Seq(Answers(d))) /\ SendersOffer'
    BY <1>3, <2>7, SendToKinds, ServerAnswers, WithdrawnOffer DEF Completed
  <2>8. ASSUME NEW s \in Sender, BrokenOff(e, s)
        PROVE  (\A d \in Client : out'[d] \in Seq(Answers(d))) /\ SendersOffer'
    BY <1>3, <2>8, SendToKinds, ServerAnswers, WithdrawnOffer DEF BrokenOff
  <2> QED
    BY <1>1, <2>1, <2>2, <2>3, <2>4, <2>5, <2>6, <2>7, <2>8 DEF Handled
<1> QED
  BY <1>1, <1>2, <1>4 DEF ServerHandles, clientVars, dataVars, Known, Kinds, ClientTypes

LEMMA InitKinds == Init => Kinds /\ ClientTypes
<1> SUFFICES ASSUME Init
             PROVE  Kinds /\ ClientTypes
  OBVIOUS
<1>1. Sender \subseteq Client /\ Receiver \subseteq Client
  BY DEF Client
<1>2. Kinds
  BY <1>1 DEF Init, Server!Init, Kinds, SendersOffer
<1>3. ClientTypes
  BY BoundAssumption DEF Init, ClientTypes
<1> QED
  BY <1>2, <1>3

LEMMA RoutineKinds ==
    ASSUME Known, NEW c \in Client, Spoken(c), DataTypes'
    PROVE  Kinds' /\ ClientTypes'
  BY SpokenKinds DEF DataTypes, ClientTypes

LEMMA CrashData ==
    ASSUME Known, NEW c \in Client, Crash(c)
    PROVE  DataTypes'
  BY RoutineLink, LeaveLink, FaultCounts DEF Crash, dataVars, DataTypes, Known, ClientTypes

LEMMA StepKinds ==
    ASSUME Known, [Next]_vars
    PROVE  Kinds' /\ ClientTypes'
<1>0. Sender \subseteq Client /\ Receiver \subseteq Client /\ Client = Sender \cup Receiver
  BY DEF Client
<1>1. CASE ServerHandles
  BY <1>1, HandlerKinds
<1>2. ASSUME NEW c \in Client, NetworkStep(c) \/ Reset(c)
      PROVE  Kinds' /\ ClientTypes'
  BY <1>2, NetworkKinds
<1>3. ASSUME NEW s \in Sender, SenderStep(s) \/ FileGone(s) \/ ReadError(s)
      PROVE  Kinds' /\ ClientTypes'
  BY <1>0, <1>3, SenderSpeaks, SenderData, RoutineKinds
<1>4. ASSUME NEW r \in Receiver,
             ReceiverStep(r) \/ Decline(r) \/ Consent(r) \/ OpenError(r) \/ WriteError(r)
      PROVE  Kinds' /\ ClientTypes'
  BY <1>0, <1>4, ReceiverSpeaks, ReceiverData, RoutineKinds
<1>5. ASSUME NEW c \in Client, Crash(c)
      PROVE  Kinds' /\ ClientTypes'
  BY <1>0, <1>5, SenderSpeaks, ReceiverSpeaks, CrashData, RoutineKinds
<1>6. ASSUME NEW c \in Client, Start(c)
      PROVE  Kinds' /\ ClientTypes'
  BY <1>6, StartKeeps
<1>7. ASSUME NEW s \in Sender, Corrupt(s)
      PROVE  Kinds' /\ ClientTypes'
  BY <1>7, CorruptKinds
<1>8. CASE UNCHANGED vars
  BY <1>8 DEF vars, serverVars, clientVars, dataVars, Known, Kinds, SendersOffer, ClientTypes
<1> QED
  BY <1>1, <1>2, <1>3, <1>4, <1>5, <1>6, <1>7, <1>8 DEF Next, UserStep, FaultStep

(* The clients and the server each speak their part: a sender announces    *)
(* and sends chunks, a receiver asks, accepts and reports, only senders    *)
(* are in the tables and only receivers are sinks.                         *)
THEOREM KindsInvariant == Spec => []Known
<1>1. Init => Kinds /\ ClientTypes
  BY InitKinds
<1>2. Sending /\ ServerSafe /\ (Kinds /\ ClientTypes) /\ [Next]_vars => (Kinds /\ ClientTypes)'
  BY StepKinds DEF Known
<1>3. Sending /\ ServerSafe /\ (Kinds /\ ClientTypes) => Known
  BY DEF Known
<1> QED
  BY <1>1, <1>2, <1>3, SendingInvariant, ServerStaysSafe, PTL DEF Spec

(* Types: what the routines keep and what is under way between them and    *)
(* the server, for any number of clients, files and faults.                *)
THEOREM TypeCorrect == Spec => []TypeOK
<1>1. Known => TypeOK
  <2> SUFFICES ASSUME Known
               PROVE  TypeOK
    OBVIOUS
  <2>1. up \in [Client -> Seq(Server!Message)]
    <3>1. Server!ClientMessage \subseteq Server!Message
      BY Payload
    <3>2. ASSUME NEW c \in Client PROVE up[c] \in Seq(Server!Message)
      BY <3>1 DEF Known, Sending
    <3> QED
      BY <3>2 DEF Known, Sending
  <2> QED
    BY <2>1 DEF Known, Sending, ServerSafe, ClientTypes, TypeOK, Label
<1> QED
  BY <1>1, KindsInvariant, PTL

-----------------------------------------------------------------------------
(* Steps are local.                                                        *)

(* Nothing that c's routine and c's network keep of c changes. *)
SameClient(c) ==
    /\ pc'[c] = pc[c] /\ link'[c] = link[c] /\ up'[c] = up[c] /\ inbox'[c] = inbox[c]
    /\ code'[c] = code[c]
    /\ c \in Sender => ready'[c] = ready[c] /\ sent'[c] = sent[c] /\ ended'[c] = ended[c]
    /\ c \in Receiver => shown'[c] = shown[c] /\ got'[c] = got[c] /\ diskBad'[c] = diskBad[c]

(* Nothing that the server keeps of c changes. *)
SameTablesOf(c) ==
    /\ conn'[c] = conn[c] /\ out'[c] = out[c]
    /\ c \in closing' <=> c \in closing
    /\ phrase'[c] = phrase[c] /\ context'[c] = context[c]
    /\ receiverOf'[c] = receiverOf[c] /\ sink'[c] = sink[c]

(* No message of c is added to those that wait for the main thread. *)
NoNews(c) ==
    \E k \in {0, 1} : \A i \in 1 .. Len(incoming') :
        incoming'[i].remote = c =>
            i + k \in 1 .. Len(incoming) /\ incoming'[i] = incoming[i + k]

Others(c) == \A d \in Client \ {c} : SameClient(d)

LEMMA LeaveOthers ==
    ASSUME Known, NEW c \in Client, NEW result, NEW q, Leave(c, result, q)
    PROVE  \A d \in Client \ {c} :
              /\ pc'[d] = pc[d] /\ link'[d] = link[d]
              /\ up'[d] = up[d] /\ inbox'[d] = inbox[d]
  BY DEF Leave, Go, Known, Sending, ClientTypes

LEMMA QueueOthers ==
    ASSUME Known, NEW c \in Client, NEW m, Queue(c, m)
    PROVE  \A d \in Client \ {c} : up'[d] = up[d]
  BY DEF Queue, Known, Sending

LEMMA GoOthers ==
    ASSUME Known, NEW c \in Client, NEW label, Go(c, label)
    PROVE  \A d \in Client \ {c} : pc'[d] = pc[d]
  BY DEF Go, Known, Sending

LEMMA AnswerOthers ==
    ASSUME Known, NEW c \in Client, NEW next, Answer(c, next)
    PROVE  \A d \in Client \ {c} :
              /\ pc'[d] = pc[d] /\ link'[d] = link[d]
              /\ up'[d] = up[d] /\ inbox'[d] = inbox[d]
  BY LeaveOthers, GoOthers DEF Answer, Known, ClientTypes

LEMMA SenderOthers ==
    ASSUME Known, NEW s \in Sender,
           SenderStep(s) \/ FileGone(s) \/ ReadError(s)
    PROVE  Others(s)
<1>0. s \in Client /\ s \notin Receiver
  BY ClientsAssumption DEF Client
<1>1. CASE Announce(s)
  <2>1. \A d \in Client \ {s} : code'[d] = code[d]
    BY <1>1 DEF Announce, Known, Sending
  <2>2. \A d \in Client \ {s} :
              /\ pc'[d] = pc[d] /\ link'[d] = link[d]
              /\ up'[d] = up[d] /\ inbox'[d] = inbox[d]
    BY <1>0, <1>1, LeaveOthers, QueueOthers, GoOthers DEF Announce
  <2>3. UNCHANGED <<ready, sent, ended, shown, got, diskBad>>
    BY <1>1 DEF Announce
  <2> QED
    BY <2>1, <2>2, <2>3 DEF Others, SameClient
<1>2. CASE AwaitReceiver(s)
  <2>1. \A d \in Sender \ {s} : ready'[d] = ready[d]
    BY <1>2 DEF AwaitReceiver, Known, ClientTypes
  <2>2. UNCHANGED <<code, sent, ended, shown, got, diskBad>>
    BY <1>2 DEF AwaitReceiver
  <2> QED
    BY <1>0, <1>2, <2>1, <2>2, AnswerOthers DEF AwaitReceiver, Others, SameClient
<1>3. CASE SendChunk(s)
  <2>1. \A d \in Sender \ {s} : sent'[d] = sent[d]
    BY <1>3 DEF SendChunk, Known, Sending
  <2>2. \A d \in Client \ {s} : inbox'[d] = inbox[d] /\ up'[d] = up[d]
    BY <1>0, <1>3, QueueOthers DEF SendChunk, Known, ClientTypes
  <2> QED
    BY <1>0, <1>3, <2>1, <2>2 DEF SendChunk, Others, SameClient
<1>4. CASE EndOfInput(s)
  <2>1. \A d \in Sender \ {s} : ended'[d] = ended[d]
    BY <1>4 DEF EndOfInput, Known, ClientTypes
  <2>2. \A d \in Client \ {s} : inbox'[d] = inbox[d] /\ up'[d] = up[d] /\ pc'[d] = pc[d]
    BY <1>0, <1>4, QueueOthers, GoOthers DEF EndOfInput, Known, ClientTypes
  <2> QED
    BY <1>0, <1>4, <2>1, <2>2 DEF EndOfInput, Others, SameClient
<1>5. CASE StopSending(s) \/ FileGone(s)
  BY <1>0, <1>5, LeaveOthers DEF StopSending, FileGone, dataVars, Others, SameClient
<1>6. CASE Confirm(s)
  <2>1. \A d \in Client \ {s} :
              /\ pc'[d] = pc[d] /\ link'[d] = link[d]
              /\ up'[d] = up[d] /\ inbox'[d] = inbox[d]
    BY <1>0, <1>6, LeaveOthers DEF Confirm, Known, ClientTypes
  <2> QED
    BY <1>6, <2>1 DEF Confirm, dataVars, Others, SameClient
<1> QED
  BY <1>1, <1>2, <1>3, <1>4, <1>5, <1>6 DEF SenderStep, FinishSending, ReadError

LEMMA TakeMessageOthers ==
    ASSUME Known, NEW r \in Receiver, NEW written, TakeMessage(r, written)
    PROVE  Others(r)
<1>0. r \in Client /\ r \notin Sender
  BY ClientsAssumption DEF Client
<1>1. \A d \in Receiver \ {r} : got'[d] = got[d] /\ diskBad'[d] = diskBad[d]
  BY DEF TakeMessage, Known, ClientTypes
<1>2. \A d \in Client \ {r} :
              /\ pc'[d] = pc[d] /\ link'[d] = link[d]
              /\ up'[d] = up[d] /\ inbox'[d] = inbox[d]
  <2>1. \/ Leave(r, "failed", up[r])
        \/ /\ inbox' = [inbox EXCEPT ![r] = Tail(inbox[r])]
           /\ ReportSuccess(r) \/ UNCHANGED <<pc, link, up>>
    BY DEF TakeMessage
  <2>2. CASE Leave(r, "failed", up[r])
    BY <1>0, <2>2, LeaveOthers
  <2>3. CASE inbox' = [inbox EXCEPT ![r] = Tail(inbox[r])] /\ ReportSuccess(r)
    BY <1>0, <2>3, QueueOthers, GoOthers DEF ReportSuccess, Known, ClientTypes
  <2>4. CASE inbox' = [inbox EXCEPT ![r] = Tail(inbox[r])] /\ UNCHANGED <<pc, link, up>>
    BY <1>0, <2>4 DEF Known, ClientTypes
  <2> QED
    BY <2>1, <2>2, <2>3, <2>4
<1> QED
  BY <1>1, <1>2 DEF TakeMessage, Others, SameClient

LEMMA ReceiverOthers ==
    ASSUME Known, NEW r \in Receiver,
           ReceiverStep(r) \/ Decline(r) \/ Consent(r) \/ OpenError(r) \/ WriteError(r)
    PROVE  Others(r)
<1>0. r \in Client /\ r \notin Sender
  BY ClientsAssumption DEF Client
<1>1. CASE Ask(r)
  <2>1. \A d \in Client \ {r} : code'[d] = code[d] /\ up'[d] = up[d] /\ pc'[d] = pc[d]
    BY <1>0, <1>1, QueueOthers, GoOthers DEF Ask, Known, Sending
  <2> QED
    BY <1>1, <2>1 DEF Ask, Others, SameClient
<1>2. CASE AwaitOffer(r)
  <2>1. \A d \in Receiver \ {r} : shown'[d] = shown[d]
    BY <1>2 DEF AwaitOffer, Known, ClientTypes
  <2>2. UNCHANGED <<code, ready, sent, ended, got, diskBad>>
    BY <1>2 DEF AwaitOffer
  <2> QED
    BY <1>0, <1>2, <2>1, <2>2, AnswerOthers DEF AwaitOffer, Others, SameClient
<1>3. CASE ReceiveMessage(r) \/ WriteError(r)
  BY <1>3, TakeMessageOthers DEF ReceiveMessage, WriteError
<1>4. CASE Flushed(r)
  <2>1. \A d \in Client \ {r} : link'[d] = link[d] /\ inbox'[d] = inbox[d] /\ pc'[d] = pc[d]
    BY <1>0, <1>4, GoOthers DEF Flushed, Known, ClientTypes
  <2> QED
    BY <1>4, <2>1 DEF Flushed, dataVars, Others, SameClient
<1>5. CASE Decline(r) \/ OpenError(r)
  BY <1>0, <1>5, LeaveOthers DEF Decline, OpenError, dataVars, Others, SameClient
<1>6. CASE Consent(r)
  BY <1>0, <1>6, QueueOthers, GoOthers DEF Consent, dataVars, Others, SameClient
<1> QED
  BY <1>1, <1>2, <1>3, <1>4, <1>5, <1>6 DEF ReceiverStep

LEMMA CrashOthers ==
    ASSUME Known, NEW c \in Client, Crash(c)
    PROVE  Others(c)
  BY LeaveOthers DEF Crash, dataVars, Others, SameClient

(* A step that leaves the queue, or takes its head off, brings no news. *)
LEMMA QuietQueue ==
    ASSUME Known, NEW c, incoming' = incoming
    PROVE  NoNews(c)
<1>1. incoming \in Seq(Heard)
  BY DEF Known, Kinds
<1>2. \A i \in 1 .. Len(incoming') : i + 0 \in 1 .. Len(incoming) /\ incoming'[i] = incoming[i + 0]
  BY <1>1
<1> QED
  BY <1>2 DEF NoNews

LEMMA TakenQueue ==
    ASSUME Known, NEW c, incoming # <<>>, incoming' = Tail(incoming)
    PROVE  NoNews(c)
<1>1. incoming \in Seq(Heard)
  BY DEF Known, Kinds
<1>2. \A i \in 1 .. Len(incoming') : i + 1 \in 1 .. Len(incoming) /\ incoming'[i] = incoming[i + 1]
  BY <1>1
<1> QED
  BY <1>2 DEF NoNews

LEMMA ArrivedQueue ==
    ASSUME Known, NEW c, NEW d, c # d, NEW m,
           incoming' = Append(incoming, [remote |-> d, msg |-> m])
    PROVE  NoNews(c)
<1>1. incoming \in Seq(Heard)
  BY DEF Known, Kinds
<1>2. Len(incoming') = Len(incoming) + 1 /\ Len(incoming) \in Nat
      /\ (\A i \in 1 .. Len(incoming) : incoming'[i] = incoming[i])
      /\ incoming'[Len(incoming) + 1].remote = d
  BY <1>1
<1>3. \A i \in 1 .. Len(incoming') : incoming'[i].remote = c =>
          i + 0 \in 1 .. Len(incoming) /\ incoming'[i] = incoming[i + 0]
  BY <1>2
<1> QED
  BY <1>3 DEF NoNews

Elsewhere(c) == \A d \in Client \ {c} : SameClient(d) /\ SameTablesOf(d) /\ NoNews(d)

LEMMA RoutineElsewhere ==
    ASSUME Known, NEW c \in Client, Others(c), UNCHANGED serverVars
    PROVE  Elsewhere(c)
<1>1. \A d : SameTablesOf(d)
  BY DEF serverVars, SameTablesOf
<1>2. \A d : NoNews(d)
  BY QuietQueue DEF serverVars
<1> QED
  BY <1>1, <1>2 DEF Elsewhere, Others

LEMMA CloseElsewhere ==
    ASSUME Known, NEW c \in Client, Server!Close(c)
    PROVE  \A d \in Client \ {c} : SameTablesOf(d) /\ NoNews(d)
<1>1. \A d : NoNews(d)
  BY QuietQueue DEF Server!Close
<1>2. \A d \in Client \ {c} : SameTablesOf(d)
  BY DEF Server!Close, Server!storage, SameTablesOf, Known, ServerSafe, Server!TypeOK
<1> QED
  BY <1>1, <1>2

LEMMA UnreadOthers ==
    ASSUME Known, NEW c \in Client, Unread(c)
    PROVE  \A d \in Client \ {c} : up'[d] = up[d]
  BY DEF Unread, Known, Sending

LEMMA NetworkElsewhere ==
    ASSUME Known, NEW c \in Client, NetworkStep(c) \/ Reset(c) \/ Start(c)
    PROVE  Elsewhere(c)
<1>1. CASE ServerReads(c)
  <2>1. incoming' = Append(incoming, [remote |-> c, msg |-> Head(up[c])])
    BY <1>1 DEF ServerReads, Server!Arrive
  <2>2. \A d \in Client \ {c} : NoNews(d)
    BY <2>1, ArrivedQueue
  <2>3. \A d \in Client : SameTablesOf(d)
    BY <1>1 DEF ServerReads, Server!Arrive, Server!storage, SameTablesOf
  <2>4. \A d \in Client \ {c} : SameClient(d)
    BY <1>1 DEF ServerReads, SameClient, dataVars, Known, Sending
  <2> QED
    BY <2>2, <2>3, <2>4 DEF Elsewhere
<1>2. CASE ServerWrites(c)
  <2>1. \A d : NoNews(d)
    BY <1>2, QuietQueue DEF ServerWrites, Server!WriteDone
  <2>2. \A d \in Client \ {c} : SameTablesOf(d)
    BY <1>2 DEF ServerWrites, Server!WriteDone, Server!storage, SameTablesOf,
                Known, ServerSafe, Server!TypeOK
  <2>3. \A d \in Client \ {c} : SameClient(d)
    BY <1>2 DEF ServerWrites, SameClient, dataVars, Known, ClientTypes
  <2> QED
    BY <2>1, <2>2, <2>3 DEF Elsewhere
<1>3. CASE ServerCloses(c)
  <2>1. \A d \in Client \ {c} : SameClient(d)
    BY <1>3, UnreadOthers DEF ServerCloses, SameClient, dataVars
  <2> QED
    BY <1>3, <2>1, CloseElsewhere DEF ServerCloses, Server!CloseFlushed, Elsewhere
<1>4. CASE ServerNotices(c)
  <2>1. \A d : SameClient(d)
    BY <1>4 DEF ServerNotices, SameClient, clientVars, dataVars
  <2> QED
    BY <1>4, <2>1, CloseElsewhere DEF ServerNotices, Server!ConnectionLost, Elsewhere
<1>5. CASE ClientNotices(c)
  <2>1. Others(c)
    BY <1>5 DEF ClientNotices, Others, SameClient, dataVars, Known, ClientTypes
  <2> QED
    BY <1>5, <2>1, RoutineElsewhere DEF ClientNotices
<1>6. CASE Reset(c)
  <2>1. \A d \in Client \ {c} : SameClient(d)
    BY <1>6, UnreadOthers DEF Reset, SameClient, dataVars, Known, ClientTypes
  <2> QED
    BY <1>6, <2>1, CloseElsewhere DEF Reset, Server!ConnectionLost, Elsewhere
<1>7. CASE Start(c)
  <2>1. \A d : NoNews(d)
    BY <1>7, QuietQueue DEF Start, Server!Connect
  <2>2. \A d \in Client \ {c} : SameTablesOf(d)
    BY <1>7 DEF Start, Server!Connect, Server!storage, SameTablesOf,
                Known, ServerSafe, Server!TypeOK
  <2>3. \A d \in Client \ {c} : SameClient(d)
    BY <1>7, GoOthers DEF Start, SameClient, dataVars, Known, ClientTypes
  <2> QED
    BY <2>1, <2>2, <2>3 DEF Elsewhere
<1> QED
  BY <1>1, <1>2, <1>3, <1>4, <1>5, <1>6, <1>7 DEF NetworkStep

LEMMA CorruptElsewhere ==
    ASSUME Known, NEW s \in Sender, Corrupt(s)
    PROVE  Elsewhere(s)
<1>1. Others(s)
  BY DEF Corrupt, Others, SameClient, dataVars, Known, Sending
<1> QED
  BY <1>1, RoutineElsewhere DEF Corrupt, Client

LEMMA HandlerElsewhere ==
    ASSUME Known, ServerHandles
    PROVE  /\ \A c : SameClient(c) /\ NoNews(c)
           /\ conn' = conn
           /\ Head(incoming) \in Heard /\ Head(incoming) = incoming[1] /\ Len(incoming) >= 1
           /\ Handled(Head(incoming))
<1>1. incoming # <<>> /\ incoming \in Seq(Heard)
  BY DEF ServerHandles, Server!Update, Known, Kinds
<1>2. \A c : SameClient(c)
  BY DEF ServerHandles, clientVars, dataVars, SameClient
<1>3. \A c : NoNews(c)
  BY <1>1, HandlerCases, TakenQueue DEF ServerHandles
<1> QED
  BY <1>1, <1>2, <1>3, HandlerCases, HeadTail DEF ServerHandles

-----------------------------------------------------------------------------
(* The life of a sender's offer.                                           *)

NoneHeard(c) == \A i \in 1 .. Len(incoming) : incoming[i].remote # c

(* Nothing of c is on its way to a handler, or back. *)
Quiet(c) == up[c] = <<>> /\ NoneHeard(c)
Untold(c) == inbox[c] = <<>> /\ out[c] = <<>>

Unoffered(s) == phrase[s] = None /\ sink[s] = None /\ s \notin closing

(* Before the sender announces, the server has nothing of it. *)
Fresh(s) == pc[s] \in {"new", "hello"} => Quiet(s) /\ Untold(s) /\ Unoffered(s)

(* The Send is said once: while it is under way it is all there is of s.   *)
SaidOnce(s) ==
    \A i \in 1 .. Len(up[s]) : up[s][i].id = "Send" =>
        /\ Len(up[s]) = 1 /\ NoneHeard(s) /\ Untold(s) /\ Unoffered(s)
        /\ pc[s] \in {"await", "failed"}

HeardOnce(s) ==
    \A i \in 1 .. Len(incoming) : incoming[i].remote = s /\ incoming[i].msg.id = "Send" =>
        /\ \A j \in 1 .. Len(incoming) : incoming[j].remote = s => j = i
        /\ up[s] = <<>> /\ Untold(s) /\ Unoffered(s)
        /\ pc[s] \in {"await", "failed"}

(* An offer waits: the sender says nothing and is told nothing. *)
Waiting(s) ==
    phrase[s] # None /\ sink[s] = None =>
        /\ Quiet(s) /\ Untold(s) /\ s \notin closing
        /\ pc[s] \in {"await", "failed"}

Linked(s) == sink[s] # None => s \notin closing /\ pc[s] \notin {"new", "hello"}

(* The first thing a waiting sender hears is Accept, and it is told as     *)
(* soon as there is a session.                                             *)
Awaiting(s) ==
    pc[s] = "await" =>
        /\ inbox[s] # <<>> => inbox[s][1].id = "Accept"
        /\ link[s] /\ inbox[s] = <<>> /\ out[s] # <<>> => out[s][1].id = "Accept"
        /\ link[s] /\ conn[s] = "open" /\ Untold(s) => sink[s] = None

Begun(s) == pc[s] \in {"sending", "confirm", "ok"} => ready[s]

Offer(s) ==
    /\ Fresh(s) /\ SaidOnce(s) /\ HeardOnce(s) /\ Waiting(s)
    /\ Linked(s) /\ Awaiting(s) /\ Begun(s)

Offers == \A s \in Sender : Offer(s)

LEMMA NoNewsNone ==
    ASSUME NEW c, NoNews(c), NoneHeard(c)
    PROVE  NoneHeard(c)'
  BY DEF NoNews, NoneHeard

(* What is not touched stays. *)
LEMMA OfferFrame ==
    ASSUME Known, NEW s \in Sender, Offer(s), SameClient(s), SameTablesOf(s), NoNews(s)
    PROVE  Offer(s)'
<1>1. /\ pc'[s] = pc[s] /\ link'[s] = link[s] /\ up'[s] = up[s] /\ inbox'[s] = inbox[s]
      /\ ready'[s] = ready[s] /\ conn'[s] = conn[s] /\ out'[s] = out[s]
      /\ s \in closing' <=> s \in closing
      /\ phrase'[s] = phrase[s] /\ sink'[s] = sink[s]
  BY DEF SameClient, SameTablesOf
<1>2. NoneHeard(s) => NoneHeard(s)'
  BY NoNewsNone
<1>3. HeardOnce(s)'
  <2>1. HeardOnce(s)
    BY DEF Offer
  <2>2. PICK k \in {0, 1} : \A i \in 1 .. Len(incoming') : incoming'[i].remote = s =>
            i + k \in 1 .. Len(incoming) /\ incoming'[i] = incoming[i + k]
    BY DEF NoNews
  <2> SUFFICES ASSUME NEW i \in 1 .. Len(incoming'), incoming'[i].remote = s,
                      incoming'[i].msg.id = "Send"
               PROVE  /\ \A j \in 1 .. Len(incoming') : incoming'[j].remote = s => j = i
                      /\ up'[s] = <<>> /\ Untold(s)' /\ Unoffered(s)'
                      /\ pc'[s] \in {"await", "failed"}
    BY DEF HeardOnce
  <2>3. /\ i + k \in 1 .. Len(incoming) /\ incoming'[i] = incoming[i + k]
    BY <2>2
  <2>4. /\ \A j \in 1 .. Len(incoming) : incoming[j].remote = s => j = i + k
        /\ up[s] = <<>> /\ Untold(s) /\ Unoffered(s) /\ pc[s] \in {"await", "failed"}
    BY <2>1, <2>3 DEF HeardOnce
  <2>5. \A j \in 1 .. Len(incoming') : incoming'[j].remote = s => j = i
    BY <2>2, <2>4
  <2> QED
    BY <1>1, <2>4, <2>5 DEF Untold, Unoffered
<1> QED
  BY <1>1, <1>2, <1>3
     DEF Offer, Fresh, SaidOnce, Waiting, Linked, Awaiting, Begun, Quiet, Untold, Unoffered

-----------------------------------------------------------------------------
(* A sender's own steps. *)

NoSendIn(q) == \A i \in 1 .. Len(q) : q[i].id # "Send"

LEMMA UpType ==
    ASSUME Known, NEW c \in Client
    PROVE  /\ up[c] \in Seq(Server!ClientMessage) /\ Len(up[c]) \in Nat
           /\ inbox[c] \in Seq(Server!Message) /\ out[c] \in Seq(Server!Message)
           /\ incoming \in Seq(Heard)
  BY DEF Known, Sending, ClientTypes, ServerSafe, Server!TypeOK, Kinds

LEMMA NoSendPut ==
    ASSUME NEW S, NEW q \in Seq(S), NoSendIn(q), NEW c, NEW m \in S, m.id # "Send"
    PROVE  NoSendIn(Put(q, c, m)) /\ Put(q, c, m) \in Seq(S)
  BY DEF Put, NoSendIn

LEMMA NoSendPrefix ==
    ASSUME NEW S, NEW q \in Seq(S), NoSendIn(q), NEW n \in 0 .. Len(q)
    PROVE  NoSendIn(SubSeq(q, 1, n))
  BY DEF NoSendIn

(* The routine is past its wait: the Send has long been heard. *)
LEMMA PastWaiting ==
    ASSUME Known, NEW s \in Sender, Offer(s), pc[s] \in {"sending", "confirm"}
    PROVE  /\ NoSendIn(up[s])
           /\ \A i \in 1 .. Len(incoming) : incoming[i].remote = s => incoming[i].msg.id # "Send"
           /\ phrase[s] # None => sink[s] # None
  BY DEF Offer, SaidOnce, HeardOnce, Waiting, NoSendIn

LEMMA WorkKeepsOffer ==
    ASSUME Known, NEW s \in Sender, Offer(s), UNCHANGED serverVars,
           pc[s] \in {"sending", "confirm"}, pc'[s] \in {"sending", "confirm", "ok", "failed"},
           ready'[s] = ready[s], NoSendIn(up'[s])
    PROVE  Offer(s)'
<1>1. UNCHANGED <<incoming, out, conn, closing, phrase, sink>>
  BY DEF serverVars
<1>2. Begun(s)'
  BY DEF Offer, Begun
<1> QED
  BY <1>1, <1>2, PastWaiting
     DEF Offer, Fresh, SaidOnce, HeardOnce, Waiting, Linked, Awaiting, NoSendIn

LEMMA LeaveFacts ==
    ASSUME Known, NEW c \in Client, NEW result, NEW q, Leave(c, result, q)
    PROVE  /\ pc'[c] = result /\ link'[c] = FALSE /\ inbox'[c] = <<>>
           /\ \E n \in 0 .. Len(q) : up'[c] = SubSeq(q, 1, n)
  BY DEF Leave, Go, Known, Sending, ClientTypes

(* As it is when a routine gives up. *)
LEMMA FailFacts ==
    ASSUME Known, NEW c \in Client, Leave(c, "failed", up[c])
    PROVE  /\ pc'[c] = "failed" /\ link'[c] = FALSE /\ inbox'[c] = <<>>
           /\ \E n \in 0 .. Len(up[c]) : up'[c] = SubSeq(up[c], 1, n)
  BY DEF Leave, Go, Known, Sending, ClientTypes

LEMMA FailureKeepsOffer ==
    ASSUME Known, NEW s \in Sender, Offer(s), UNCHANGED serverVars,
           Leave(s, "failed", up[s]), ready'[s] = ready[s]
    PROVE  Offer(s)'
<1>0. s \in Client
  BY DEF Client
<1>1. UNCHANGED <<incoming, out, conn, closing, phrase, sink>>
  BY DEF serverVars
<1>2. /\ pc'[s] = "failed" /\ link'[s] = FALSE /\ inbox'[s] = <<>>
      /\ \E n \in 0 .. Len(up[s]) : up'[s] = SubSeq(up[s], 1, n)
  BY <1>0, FailFacts
<1>3. PICK n \in 0 .. Len(up[s]) : up'[s] = SubSeq(up[s], 1, n)
  BY <1>2
<1>4. /\ Len(up'[s]) = n /\ \A i \in 1 .. n : up'[s][i] = up[s][i]
      /\ up[s] = <<>> => up'[s] = <<>>
  BY <1>0, <1>3, UpType
<1>5. Untold(s) => Untold(s)'
  BY <1>1, <1>2 DEF Untold
<1>6. SaidOnce(s)'
  <2> SUFFICES ASSUME NEW i \in 1 .. Len(up'[s]), up'[s][i].id = "Send"
               PROVE  /\ Len(up'[s]) = 1 /\ NoneHeard(s)' /\ Untold(s)' /\ Unoffered(s)'
                      /\ pc'[s] \in {"await", "failed"}
    BY DEF SaidOnce
  <2>1. i \in 1 .. Len(up[s]) /\ up[s][i].id = "Send" /\ i <= n
    BY <1>0, <1>4, UpType
  <2>2. Len(up[s]) = 1 /\ NoneHeard(s) /\ Untold(s) /\ Unoffered(s)
    BY <2>1 DEF Offer, SaidOnce
  <2>3. Len(up'[s]) = 1
    BY <1>4, <2>1, <2>2
  <2> QED
    BY <1>1, <1>2, <1>5, <2>2, <2>3 DEF NoneHeard, Unoffered
<1>7. HeardOnce(s)'
  BY <1>1, <1>2, <1>4, <1>5 DEF Offer, HeardOnce, Unoffered
<1>8. Waiting(s)'
  BY <1>1, <1>2, <1>4, <1>5 DEF Offer, Waiting, Quiet, NoneHeard
<1> QED
  BY <1>1, <1>2, <1>6, <1>7, <1>8 DEF Offer, Fresh, Linked, Awaiting, Begun

LEMMA AnnounceKeepsOffer ==
    ASSUME Known, NEW s \in Sender, Offer(s), Announce(s)
    PROVE  Offer(s)'
<1>0. s \in Client /\ UNCHANGED serverVars /\ ready'[s] = ready[s]
  BY DEF Client, Announce
<1>1. UNCHANGED <<incoming, out, conn, closing, phrase, sink>>
  BY <1>0 DEF serverVars
<1>2. Quiet(s) /\ Untold(s) /\ Unoffered(s)
  BY DEF Announce, Offer, Fresh
<1>3. CASE ~link[s]
  BY <1>0, <1>3, FailureKeepsOffer DEF Announce
<1>4. CASE link[s]
  <2>1. PICK p \in Phrase : Queue(s, Server!Send(p, FileOf[s])) /\ Go(s, "await")
                            /\ UNCHANGED <<link, inbox>>
    BY <1>4 DEF Announce
  <2>2. pc'[s] = "await" /\ inbox' = inbox
    BY <1>0, <2>1 DEF Go, Known, Sending
  <2>3. up'[s] = <<Server!Send(p, FileOf[s])>> \/ up'[s] = <<>>
    BY <1>0, <1>2, <2>1 DEF Queue, Put, Quiet, Known, Sending
  <2>4. \A m : Len(<<m>>) = 1
    OBVIOUS
  <2>5. \A i \in 1 .. Len(up'[s]) : Len(up'[s]) = 1
    <3>1. CASE up'[s] = <<Server!Send(p, FileOf[s])>>
      <4>1. PICK m : m = Server!Send(p, FileOf[s])
        OBVIOUS
      <4>2. Len(up'[s]) = 1
        BY <2>4, <3>1, <4>1
      <4> QED
        BY <4>2
    <3>2. CASE up'[s] = <<>>
      BY <3>2
    <3> QED
      BY <2>3, <3>1, <3>2
  <2> QED
    BY <1>1, <1>2, <2>2, <2>5
       DEF Offer, Fresh, SaidOnce, HeardOnce, Waiting, Linked, Awaiting, Begun,
           Quiet, NoneHeard, Untold, Unoffered
<1> QED
  BY <1>3, <1>4

LEMMA AwaitKeepsOffer ==
    ASSUME Known, NEW s \in Sender, Offer(s), AwaitReceiver(s)
    PROVE  Offer(s)' /\ pc'[s] = "sending"
<1>0. s \in Client /\ UNCHANGED serverVars
  BY DEF Client, AwaitReceiver
<1>1. UNCHANGED <<incoming, out, conn, closing, phrase, sink>>
  BY <1>0 DEF serverVars
<1>2. inbox[s] # <<>> /\ Head(inbox[s]).id = "Accept" /\ pc[s] = "await"
  <2>1. inbox[s] # <<>> /\ pc[s] = "await"
    BY DEF AwaitReceiver, Answer
  <2> QED
    BY <1>0, <2>1, HeadTail, UpType DEF Offer, Awaiting
<1>3. up' = up /\ pc'[s] = "sending" /\ ready'[s] = TRUE
  BY <1>0, <1>2 DEF AwaitReceiver, Answer, Go, Known, Sending, ClientTypes
<1>4. ~Untold(s)
  BY <1>2 DEF Untold
<1> QED
  BY <1>1, <1>3, <1>4
     DEF Offer, Fresh, SaidOnce, HeardOnce, Waiting, Linked, Awaiting, Begun

LEMMA SenderKeepsOffer ==
    ASSUME Known, NEW s \in Sender, Offer(s),
           SenderStep(s) \/ Crash(s) \/ FileGone(s) \/ ReadError(s)
    PROVE  Offer(s)'
<1>0. s \in Client /\ up[s] \in Seq(Server!ClientMessage)
  BY UpType DEF Client
<1>1. CASE Announce(s)
  BY <1>1, AnnounceKeepsOffer
<1>2. CASE AwaitReceiver(s)
  BY <1>2, AwaitKeepsOffer
<1>3. CASE SendChunk(s)
  <2>1. Server!Chunk(Contents(FileOf[s])[sent[s] + 1]) \in Server!ClientMessage
    BY <1>3, NextChunk, ChunkIsClientMessage DEF SendChunk
  <2>2. Server!Chunk(Contents(FileOf[s])[sent[s] + 1]).id # "Send"
    BY DEF Server!Chunk, Server!Encode
  <2>3. up'[s] = Put(up[s], s, Server!Chunk(Contents(FileOf[s])[sent[s] + 1]))
    BY <1>0, <1>3 DEF SendChunk, Queue, Known, Sending
  <2>4. NoSendIn(up'[s])
    BY <1>0, <1>3, <2>1, <2>2, <2>3, NoSendPut, PastWaiting DEF SendChunk
  <2> QED
    BY <1>3, <2>4, WorkKeepsOffer DEF SendChunk
<1>4. Server!Signal("FinalChunk") \in Server!ClientMessage
      /\ Server!Signal("FinalChunk").id # "Send"
  BY SignalIsClientMessage DEF Server!Signal, Server!Encode
<1>5. CASE EndOfInput(s)
  <2>1. up'[s] = Put(up[s], s, Server!Signal("FinalChunk")) /\ pc'[s] = "confirm"
    BY <1>0, <1>5 DEF EndOfInput, Queue, Go, Known, Sending
  <2>2. NoSendIn(up'[s])
    BY <1>0, <1>4, <1>5, <2>1, NoSendPut, PastWaiting DEF EndOfInput
  <2> QED
    BY <1>5, <2>1, <2>2, WorkKeepsOffer DEF EndOfInput
<1>6. CASE StopSending(s)
  <2> DEFINE q == Put(up[s], s, Server!Signal("FinalChunk"))
  <2>1. Leave(s, "failed", q) /\ pc[s] = "sending" /\ ready' = ready /\ UNCHANGED serverVars
    BY <1>6 DEF StopSending, dataVars
  <2>2. pc'[s] = "failed" /\ \E n \in 0 .. Len(q) : up'[s] = SubSeq(q, 1, n)
    BY <1>0, <2>1, LeaveFacts
  <2>3. NoSendIn(q) /\ q \in Seq(Server!ClientMessage)
    BY <1>0, <1>4, <2>1, NoSendPut, PastWaiting
  <2>4. NoSendIn(up'[s])
    BY <2>2, <2>3, NoSendPrefix
  <2> QED
    BY <2>1, <2>2, <2>4, WorkKeepsOffer
<1>7. CASE Confirm(s)
  <2>1. pc[s] = "confirm" /\ ready' = ready /\ UNCHANGED serverVars
    BY <1>7 DEF Confirm, dataVars
  <2>2. \/ Leave(s, "ok", up[s])
        \/ Leave(s, "failed", up[s])
        \/ UNCHANGED <<pc, up>>
    BY <1>7 DEF Confirm
  <2>3. NoSendIn(up'[s]) /\ pc'[s] \in {"ok", "failed", "confirm"}
    <3>1. NoSendIn(up[s])
      BY <2>1, PastWaiting
    <3> QED
      BY <1>0, <2>1, <2>2, <3>1, LeaveFacts, NoSendPrefix
  <2> QED
    BY <2>1, <2>3, WorkKeepsOffer
<1>8. CASE Crash(s) \/ FileGone(s)
  BY <1>8, FailureKeepsOffer DEF Crash, FileGone, dataVars
<1> QED
  BY <1>1, <1>2, <1>3, <1>5, <1>6, <1>7, <1>8 DEF SenderStep, FinishSending, ReadError

-----------------------------------------------------------------------------
(* The network's steps for a sender. *)

LEMMA ReadsKeepOffer ==
    ASSUME Known, NEW s \in Sender, Offer(s), ServerReads(s)
    PROVE  Offer(s)'
<1>0. /\ s \in Client /\ up[s] \in Seq(Server!ClientMessage) /\ incoming \in Seq(Heard)
  BY UpType DEF Client
<1>1. /\ up[s] # <<>> /\ up'[s] = Tail(up[s])
      /\ incoming' = Append(incoming, [remote |-> s, msg |-> Head(up[s])])
      /\ UNCHANGED <<conn, closing, out, phrase, sink, pc, link, inbox, ready>>
  BY <1>0 DEF ServerReads, Server!Arrive, Server!storage, dataVars, Known, Sending
<1>2. /\ Len(up[s]) \in Nat \ {0} /\ Len(Tail(up[s])) = Len(up[s]) - 1
      /\ Head(up[s]) = up[s][1]
      /\ \A i \in 1 .. Len(Tail(up[s])) : Tail(up[s])[i] = up[s][i + 1]
  BY <1>0, <1>1, HeadTail
<1>3. SaidOnce(s)'
  BY <1>1, <1>2 DEF Offer, SaidOnce
<1>4. HeardOnce(s)'
  <2>1. /\ Len(incoming') = Len(incoming) + 1 /\ Len(incoming) \in Nat
        /\ \A i \in 1 .. Len(incoming) : incoming'[i] = incoming[i]
        /\ incoming'[Len(incoming) + 1].msg = up[s][1]
    BY <1>0, <1>1, <1>2
  <2> SUFFICES ASSUME NEW i \in 1 .. Len(incoming'), incoming'[i].remote = s,
                      incoming'[i].msg.id = "Send"
               PROVE  /\ \A j \in 1 .. Len(incoming') : incoming'[j].remote = s => j = i
                      /\ up'[s] = <<>> /\ Untold(s)' /\ Unoffered(s)'
                      /\ pc'[s] \in {"await", "failed"}
    BY DEF HeardOnce
  <2>2. i = Len(incoming) + 1 /\ up[s][1].id = "Send"
    BY <1>1, <2>1 DEF Offer, HeardOnce
  <2>3. Len(up[s]) = 1 /\ NoneHeard(s) /\ Untold(s) /\ Unoffered(s) /\ pc[s] \in {"await", "failed"}
    BY <1>2, <2>2 DEF Offer, SaidOnce
  <2>4. \A j \in 1 .. Len(incoming') : incoming'[j].remote = s => j = i
    BY <2>1, <2>2, <2>3 DEF NoneHeard
  <2>5. up'[s] = <<>>
    BY <1>0, <1>1, <2>3, TailOfOne
  <2> QED
    BY <1>1, <2>3, <2>4, <2>5 DEF Untold, Unoffered
<1> QED
  BY <1>1, <1>3, <1>4
     DEF Offer, Fresh, Waiting, Linked, Awaiting, Begun, Quiet, Untold

LEMMA WritesKeepOffer ==
    ASSUME Known, NEW s \in Sender, Offer(s), ServerWrites(s)
    PROVE  Offer(s)'
<1>0. /\ s \in Client /\ out[s] \in Seq(Server!Message) /\ inbox[s] \in Seq(Server!Message)
  BY UpType DEF Client
<1>1. /\ out[s] # <<>> /\ ~Untold(s)
      /\ UNCHANGED <<conn, closing, incoming, phrase, sink, pc, link, up, ready>>
  BY DEF ServerWrites, Server!WriteDone, Server!storage, dataVars, Untold
<1>2. inbox'[s] = IF link[s] THEN Append(inbox[s], Head(out[s])) ELSE inbox[s]
  BY <1>0 DEF ServerWrites, Known, ClientTypes
<1>3. Awaiting(s)'
  <2>1. CASE link[s] /\ inbox[s] = <<>>
    <3>1. inbox'[s] # <<>> /\ inbox'[s][1] = out[s][1]
      BY <1>0, <1>1, <1>2, <2>1
    <3> QED
      BY <1>1, <2>1, <3>1 DEF Offer, Awaiting, Untold
  <2>2. CASE link[s] /\ inbox[s] # <<>>
    <3>1. inbox'[s] # <<>> /\ inbox'[s][1] = inbox[s][1]
      BY <1>0, <1>1, <1>2, <2>2
    <3> QED
      BY <1>1, <2>2, <3>1 DEF Offer, Awaiting, Untold
  <2>3. CASE ~link[s]
    BY <1>1, <1>2, <2>3 DEF Offer, Awaiting
  <2> QED
    BY <2>1, <2>2, <2>3
<1> QED
  BY <1>1, <1>3
     DEF Offer, Fresh, SaidOnce, HeardOnce, Waiting, Linked, Begun

(* The server's end closes: what was not read is lost, and what was not    *)
(* written.                                                                *)
LEMMA CloseKeepsOffer ==
    ASSUME Known, NEW s \in Sender, Offer(s), Server!Close(s),
           up'[s] \in {up[s], <<>>} \/ (up[s] # <<>> /\ up'[s] = <<Head(up[s])>>),
           UNCHANGED <<pc, inbox, ready>>
    PROVE  Offer(s)'
<1>0. s \in Client /\ up[s] \in Seq(Server!ClientMessage)
  BY UpType DEF Client
<1>1. /\ conn'[s] = "closed" /\ out'[s] = <<>> /\ s \notin closing'
      /\ UNCHANGED <<incoming, phrase, sink>>
  BY <1>0 DEF Server!Close, Server!storage, Known, ServerSafe, Server!TypeOK
<1>2. /\ up[s] = <<>> => up'[s] = <<>>
      /\ \A i \in 1 .. Len(up'[s]) : i \in 1 .. Len(up[s]) /\ up'[s][i] = up[s][i]
      /\ Len(up[s]) = 1 => \A i \in 1 .. Len(up'[s]) : Len(up'[s]) = 1
  <2>1. CASE up'[s] = up[s]
    BY <2>1
  <2>2. CASE up'[s] = <<>>
    BY <2>2
  <2>3. CASE up[s] # <<>> /\ up'[s] = <<Head(up[s])>>
    <3>1. PICK m : m = Head(up[s])
      OBVIOUS
    <3>2. m = up[s][1] /\ 1 \in 1 .. Len(up[s])
      BY <1>0, <2>3, <3>1, HeadTail
    <3>3. up'[s] = <<m>> /\ Len(<<m>>) = 1 /\ <<m>>[1] = m
      BY <2>3, <3>1
    <3> QED
      BY <2>3, <3>2, <3>3
  <2> QED
    BY <2>1, <2>2, <2>3
<1>3. Untold(s) => Untold(s)'
  BY <1>1 DEF Untold
<1>4. SaidOnce(s)'
  BY <1>1, <1>2, <1>3 DEF Offer, SaidOnce, NoneHeard, Unoffered
<1>5. HeardOnce(s)'
  BY <1>1, <1>2, <1>3 DEF Offer, HeardOnce, Unoffered
<1> QED
  BY <1>1, <1>2, <1>3, <1>4, <1>5
     DEF Offer, Fresh, Waiting, Linked, Awaiting, Begun, Quiet, NoneHeard, Unoffered

LEMMA UnreadFacts ==
    ASSUME Known, NEW c \in Client, Unread(c)
    PROVE  up'[c] \in {up[c], <<>>} \/ (up[c] # <<>> /\ up'[c] = <<Head(up[c])>>)
  BY DEF Unread, Known, Sending

LEMMA NetworkKeepsOffer ==
    ASSUME Known, NEW s \in Sender, Offer(s), NetworkStep(s) \/ Reset(s) \/ Start(s)
    PROVE  Offer(s)'
<1>0. s \in Client
  BY DEF Client
<1>1. CASE ServerReads(s)
  BY <1>1, ReadsKeepOffer
<1>2. CASE ServerWrites(s)
  BY <1>2, WritesKeepOffer
<1>3. CASE ServerCloses(s) \/ Reset(s)
  BY <1>0, <1>3, CloseKeepsOffer, UnreadFacts
     DEF ServerCloses, Reset, Server!CloseFlushed, Server!ConnectionLost, dataVars
<1>4. CASE ServerNotices(s)
  BY <1>4, CloseKeepsOffer DEF ServerNotices, Server!ConnectionLost, clientVars, dataVars
<1>5. CASE ClientNotices(s)
  <2>1. UNCHANGED <<conn, closing, incoming, out, phrase, sink, pc, up, inbox, ready>>
        /\ link'[s] = FALSE
    BY <1>0, <1>5 DEF ClientNotices, serverVars, dataVars, Known, ClientTypes
  <2> QED
    BY <2>1 DEF Offer, Fresh, SaidOnce, HeardOnce, Waiting, Linked, Awaiting, Begun,
                Quiet, NoneHeard, Untold, Unoffered
<1>6. CASE Start(s)
  <2>1. /\ pc[s] = "new" /\ pc'[s] = "hello"
        /\ UNCHANGED <<closing, incoming, out, phrase, sink, up, inbox, ready>>
    BY <1>0, <1>6 DEF Start, Server!Connect, Server!storage, Go, dataVars, Known, Sending
  <2> QED
    BY <2>1 DEF Offer, Fresh, SaidOnce, HeardOnce, Waiting, Linked, Awaiting, Begun,
                Quiet, NoneHeard, Untold, Unoffered
<1> QED
  BY <1>1, <1>2, <1>3, <1>4, <1>5, <1>6 DEF NetworkStep

LEMMA CorruptKeepsOffer ==
    ASSUME Known, NEW s \in Sender, Offer(s), Corrupt(s)
    PROVE  Offer(s)'
<1>0. s \in Client /\ up[s] \in Seq(Server!ClientMessage)
  BY UpType DEF Client
<1>1. PICK i \in 1 .. Len(up[s]) :
         /\ up[s][i].id = "Chunk"
         /\ up'[s] = [up[s] EXCEPT ![i] = Damaged(up[s][i])]
  BY <1>0 DEF Corrupt, Known, Sending
<1>2. Damaged(up[s][i]).id = "Chunk"
  BY DEF Damaged, Server!Chunk, Server!Encode
<1>3. Len(up'[s]) = Len(up[s]) /\ \A j \in 1 .. Len(up[s]) : up'[s][j].id = up[s][j].id
  BY <1>0, <1>1, <1>2
<1>4. up[s] # <<>>
  BY <1>0, <1>1
<1>5. UNCHANGED <<conn, closing, incoming, out, phrase, sink, pc, link, inbox, ready>>
  BY DEF Corrupt, serverVars, dataVars
<1> QED
  BY <1>3, <1>4, <1>5
     DEF Offer, Fresh, SaidOnce, HeardOnce, Waiting, Linked, Awaiting, Begun,
         Quiet, NoneHeard, Untold, Unoffered

-----------------------------------------------------------------------------
(* The main thread's steps for a sender. *)

LEMMA SendToFacts ==
    ASSUME Known, NEW c \in Client, NEW m, out' = Server!SendTo(c, m)
    PROVE  /\ \A d \in Client \ {c} : out'[d] = out[d]
           /\ conn[c] = "open" => out'[c] = Append(out[c], m)
           /\ conn[c] # "open" => out'[c] = out[c]
  BY DEF Server!SendTo, Server!IsConnected, Known, ServerSafe, Server!TypeOK

LEMMA WithdrawnFacts ==
    ASSUME Known, NEW s \in Client, Withdrawn(s)
    PROVE  /\ phrase'[s] = None /\ context'[s] = None
           /\ receiverOf'[s] = None /\ sink'[s] = None
           /\ \A d \in Client \ {s} :
                 /\ phrase'[d] = phrase[d] /\ context'[d] = context[d]
                 /\ receiverOf'[d] = receiverOf[d] /\ sink'[d] = sink[d]
                 /\ d \in closing' <=> d \in closing
  BY DEF Withdrawn, Known, ServerSafe, Server!TypeOK

LEMMA JoinedFacts ==
    ASSUME Known, NEW e, NEW s \in Client, Joined(e, s)
    PROVE  /\ sink'[s] = IF sink[s] = None THEN e.remote ELSE sink[s]
           /\ receiverOf'[s] \in {receiverOf[s], e.remote}
           /\ \A d \in Client \ {s} : receiverOf'[d] = receiverOf[d] /\ sink'[d] = sink[d]
           /\ UNCHANGED <<closing, phrase, context>>
  BY DEF Joined, Server!AddSession, Server!MapInsert, Server!BimapInsert,
         Known, ServerSafe, Server!TypeOK

(* Whose tables a case touches. *)
LEMMA HandledElsewhere ==
    ASSUME Known, ServerHandles, NEW e, e = Head(incoming)
    PROVE  /\ Ignored(e) => \A d \in Client : SameTablesOf(d)
           /\ Offered(e) => \A d \in Client \ {e.remote} : SameTablesOf(d)
           /\ Answered(e) \/ Refusal(e) => \A d \in Client \ {e.remote} : SameTablesOf(d)
           /\ Relayed(e) => \A d \in Client \ {sink[e.remote]} : SameTablesOf(d)
           /\ \A s \in Sender : /\ Joined(e, s) \/ Completed(e, s) =>
                                      \A d \in Client \ {s} : SameTablesOf(d)
                                /\ BrokenOff(e, s) =>
                                      \A d \in Client \ {s, sink[s]} : SameTablesOf(d)
<1>0. conn' = conn /\ e.remote \in Client /\ Sender \subseteq Client /\ Receiver \subseteq Client
  BY HandlerElsewhere, Roles DEF Client
<1>1. Ignored(e) => \A d \in Client : SameTablesOf(d)
  BY <1>0 DEF Ignored, SameTablesOf
<1>2. Offered(e) => \A d \in Client \ {e.remote} : SameTablesOf(d)
  BY <1>0 DEF Offered, SameTablesOf, Known, ServerSafe, Server!TypeOK
<1>3. Answered(e) \/ Refusal(e) => \A d \in Client \ {e.remote} : SameTablesOf(d)
  BY <1>0, SendToFacts DEF Answered, Refusal, SameTablesOf
<1>4. Relayed(e) => \A d \in Client \ {sink[e.remote]} : SameTablesOf(d)
  BY <1>0, SendToFacts DEF Relayed, SameTablesOf
<1>5. ASSUME NEW s \in Sender
      PROVE  /\ Joined(e, s) => \A d \in Client \ {s} : SameTablesOf(d)
             /\ Completed(e, s) => \A d \in Client \ {s} : SameTablesOf(d)
             /\ BrokenOff(e, s) => \A d \in Client \ {s, sink[s]} : SameTablesOf(d)
  <2>1. ASSUME Joined(e, s) PROVE \A d \in Client \ {s} : SameTablesOf(d)
    <3>1. out' = Server!SendTo(s, Server!Accept(context[s]))
      BY <2>1 DEF Joined
    <3> QED
      BY <1>0, <2>1, <3>1, SendToFacts, JoinedFacts DEF SameTablesOf
  <2>2. ASSUME Completed(e, s) PROVE \A d \in Client \ {s} : SameTablesOf(d)
    <3>1. out' = Server!SendTo(s, Server!Signal("Success")) /\ Withdrawn(s)
      BY <2>2 DEF Completed
    <3> QED
      BY <1>0, <3>1, SendToFacts, WithdrawnFacts DEF SameTablesOf
  <2>3. ASSUME BrokenOff(e, s) PROVE \A d \in Client \ {s, sink[s]} : SameTablesOf(d)
    <3>1. out' = Server!SendTo(sink[s], Server!Signal("Abort")) /\ Withdrawn(s)
          /\ sink[s] \in Client
      BY <1>0, <2>3 DEF BrokenOff
    <3> QED
      BY <1>0, <3>1, SendToFacts, WithdrawnFacts DEF SameTablesOf
  <2> QED
    BY <2>1, <2>2, <2>3
<1> QED
  BY <1>1, <1>2, <1>3, <1>4, <1>5

(* While there is a session no Send is under way, and so none is after it. *)
LEMMA SessionSilencesSend ==
    ASSUME Known, NEW s \in Sender, Offer(s), sink[s] # None, SameClient(s), NoNews(s)
    PROVE  SaidOnce(s)' /\ HeardOnce(s)' /\ pc'[s] \notin {"new", "hello"}
<1>1. NoSendIn(up[s]) /\ up'[s] = up[s] /\ pc'[s] = pc[s]
  BY DEF Offer, SaidOnce, NoSendIn, Unoffered, SameClient
<1>2. \A i \in 1 .. Len(incoming') : incoming'[i].remote = s => incoming'[i].msg.id # "Send"
  <2>1. \A i \in 1 .. Len(incoming) : incoming[i].remote = s => incoming[i].msg.id # "Send"
    BY DEF Offer, HeardOnce, Unoffered
  <2> QED
    BY <2>1 DEF NoNews
<1> QED
  BY <1>1, <1>2 DEF Offer, Linked, SaidOnce, HeardOnce, NoSendIn

LEMMA OfferedKeepsOffer ==
    ASSUME Known, ServerHandles, NEW e, e = Head(incoming), Offered(e), Offer(e.remote)
    PROVE  Offer(e.remote)'
<1> DEFINE s == e.remote
<1>0. /\ s \in Sender /\ s \in Client /\ e.msg.id = "Send" /\ e = incoming[1]
      /\ 1 \in 1 .. Len(incoming) /\ incoming \in Seq(Heard) /\ incoming' = Tail(incoming)
      /\ SameClient(s)
  BY HandlerElsewhere, UpType DEF Offered, Client, ServerHandles, Server!Update
<1>1. /\ \A j \in 1 .. Len(incoming) : incoming[j].remote = s => j = 1
      /\ up[s] = <<>> /\ Untold(s) /\ Unoffered(s)
      /\ pc[s] \in {"await", "failed"}
  BY <1>0 DEF Offer, HeardOnce
<1>2. NoneHeard(s)'
  BY <1>0, <1>1 DEF NoneHeard
<1>3. UNCHANGED <<closing, out, sink>> /\ conn' = conn
  BY HandlerElsewhere DEF Offered
<1>4. /\ up'[s] = <<>> /\ pc'[s] = pc[s] /\ link'[s] = link[s]
      /\ inbox'[s] = inbox[s] /\ ready'[s] = ready[s]
  BY <1>0, <1>1 DEF SameClient
<1>5. Untold(s)' /\ s \notin closing' /\ sink'[s] = None
  BY <1>1, <1>3, <1>4 DEF Untold, Unoffered
<1>6. SaidOnce(s)' /\ HeardOnce(s)'
  BY <1>2, <1>4 DEF SaidOnce, HeardOnce, NoneHeard
<1> QED
  BY <1>0, <1>1, <1>2, <1>3, <1>4, <1>5, <1>6
     DEF Offer, Fresh, Waiting, Linked, Awaiting, Begun, Quiet, NoneHeard

LEMMA JoinedKeepsOffer ==
    ASSUME Known, ServerHandles, NEW e, e = Head(incoming), NEW s \in Sender,
           Joined(e, s), Offer(s)
    PROVE  Offer(s)'
<1>0. /\ s \in Client /\ e.remote \in Receiver /\ SameClient(s) /\ NoNews(s) /\ conn' = conn
      /\ out[s] \in Seq(Server!Message) /\ inbox[s] \in Seq(Server!Message)
  BY HandlerElsewhere, UpType DEF Joined, Client
<1>1. phrase[s] # None /\ e.remote # None
  <2>1. e \in Heard /\ e.msg.code \in Phrase
    BY HandlerElsewhere, Roles, Payload DEF Joined
  <2> QED
    BY <2>1, <1>0, NoneAssumption, ClientsAssumption DEF Joined
<1>2. /\ sink'[s] # None /\ UNCHANGED <<closing, phrase>>
  BY <1>0, <1>1, JoinedFacts
<1>3. PICK m : m = Server!Accept(context[s])
  OBVIOUS
<1>4. m.id = "Accept"
  BY <1>3 DEF Server!Accept, Server!Encode
<1>5. /\ conn[s] = "open" => out'[s] = Append(out[s], m)
      /\ conn[s] # "open" => out'[s] = out[s]
  BY <1>0, <1>3, SendToFacts DEF Joined
<1>6. SaidOnce(s)' /\ HeardOnce(s)' /\ pc'[s] \notin {"new", "hello"}
  <2>1. CASE sink[s] # None
    BY <1>0, <2>1, SessionSilencesSend
  <2>2. CASE sink[s] = None
    <3>1. Quiet(s) /\ pc[s] \in {"await", "failed"}
      BY <1>1, <2>2 DEF Offer, Waiting
    <3>2. NoneHeard(s)' /\ up'[s] = <<>> /\ pc'[s] = pc[s]
      BY <1>0, <3>1, NoNewsNone DEF Quiet, SameClient
    <3> QED
      BY <3>1, <3>2 DEF SaidOnce, HeardOnce, NoneHeard
  <2> QED
    BY <2>1, <2>2
<1>7. Awaiting(s)'
  <2> SUFFICES ASSUME pc[s] = "await"
               PROVE  Awaiting(s)'
    BY <1>0 DEF Awaiting, SameClient
  <2>1. link'[s] = link[s] /\ inbox'[s] = inbox[s] /\ pc'[s] = pc[s]
    BY <1>0 DEF SameClient
  <2>2. CASE conn[s] = "open"
    <3>1. out'[s] # <<>> /\ out'[s][1] = IF out[s] = <<>> THEN m ELSE out[s][1]
      BY <1>0, <1>5, <2>2
    <3> QED
      BY <1>4, <2>1, <2>2, <3>1 DEF Offer, Awaiting, Untold
  <2>3. CASE conn[s] # "open"
    BY <1>0, <1>5, <2>1, <2>3 DEF Offer, Awaiting
  <2> QED
    BY <2>2, <2>3
<1>8. s \notin closing
  BY <1>1 DEF Offer, Waiting, Linked
<1> QED
  BY <1>0, <1>2, <1>6, <1>7, <1>8
     DEF Offer, Fresh, Waiting, Linked, Begun, SameClient

LEMMA WithdrawnKeepsOffer ==
    ASSUME Known, ServerHandles, NEW e, e = Head(incoming), NEW s \in Sender,
           Completed(e, s) \/ BrokenOff(e, s), Offer(s)
    PROVE  Offer(s)'
<1>0. /\ s \in Client /\ SameClient(s) /\ NoNews(s) /\ conn' = conn
      /\ out[s] \in Seq(Server!Message) /\ inbox[s] \in Seq(Server!Message)
  BY HandlerElsewhere, UpType DEF Client
<1>1. sink[s] # None /\ Withdrawn(s)
  BY ClientsAssumption DEF Completed, BrokenOff
<1>2. SaidOnce(s)' /\ HeardOnce(s)' /\ pc'[s] \notin {"new", "hello"}
  BY <1>0, <1>1, SessionSilencesSend
<1>3. phrase'[s] = None /\ sink'[s] = None
  BY <1>0, <1>1, WithdrawnFacts
<1>4. out'[s] = out[s] \/ (conn[s] = "open" /\ \E m : out'[s] = Append(out[s], m))
  <2>1. CASE Completed(e, s)
    BY <1>0, <2>1, SendToFacts DEF Completed
  <2>2. CASE BrokenOff(e, s)
    <3>1. sink[s] \in Client /\ s # sink[s]
      BY <2>2, ClientsAssumption DEF BrokenOff, Client
    <3> QED
      BY <1>0, <2>2, <3>1, SendToFacts DEF BrokenOff
  <2> QED
    BY <2>1, <2>2
<1>5. Awaiting(s)'
  <2> SUFFICES ASSUME pc[s] = "await"
               PROVE  Awaiting(s)'
    BY <1>0 DEF Awaiting, SameClient
  <2>1. link'[s] = link[s] /\ inbox'[s] = inbox[s] /\ pc'[s] = pc[s]
    BY <1>0 DEF SameClient
  <2>2. CASE out'[s] = out[s]
    BY <1>3, <2>1, <2>2 DEF Offer, Awaiting
  <2>3. CASE conn[s] = "open" /\ out[s] # <<>> /\ \E m : out'[s] = Append(out[s], m)
    <3>1. out'[s][1] = out[s][1]
      BY <1>0, <2>3
    <3> QED
      BY <1>3, <2>1, <2>3, <3>1 DEF Offer, Awaiting
  <2>4. CASE conn[s] = "open" /\ out[s] = <<>>
    <3>1. ~(link[s] /\ inbox[s] = <<>>)
      BY <1>1, <2>4 DEF Offer, Awaiting, Untold
    <3> QED
      BY <1>3, <2>1, <3>1 DEF Offer, Awaiting
  <2> QED
    BY <1>4, <2>2, <2>3, <2>4
<1> QED
  BY <1>0, <1>2, <1>3, <1>5 DEF Offer, Fresh, Waiting, Linked, Begun, SameClient

LEMMA HandlerKeepsOffers ==
    ASSUME Known, ServerHandles, Offers
    PROVE  Offers'
<1> SUFFICES ASSUME NEW s \in Sender
             PROVE  Offer(s)'
  BY DEF Offers
<1>0. s \in Client /\ s \notin Receiver /\ Offer(s)
  BY ClientsAssumption DEF Offers, Client
<1>1. PICK e : e = Head(incoming)
  OBVIOUS
<1>2. Handled(e) /\ SameClient(s) /\ NoNews(s)
  BY <1>1, HandlerElsewhere
<1>3. ASSUME SameTablesOf(s) PROVE Offer(s)'
  BY <1>0, <1>2, <1>3, OfferFrame
<1>4. CASE Ignored(e) \/ Answered(e) \/ Refusal(e) \/ Relayed(e)
  <2>1. SameTablesOf(s)
    BY <1>0, <1>1, <1>4, HandledElsewhere DEF Answered, Refusal, Relayed
  <2> QED
    BY <1>3, <2>1
<1>5. CASE Offered(e)
  <2>1. CASE s = e.remote
    BY <1>0, <1>1, <1>5, <2>1, OfferedKeepsOffer
  <2>2. CASE s # e.remote
    BY <1>0, <1>1, <1>3, <1>5, <2>2, HandledElsewhere
  <2> QED
    BY <2>1, <2>2
<1>6. ASSUME NEW t \in Sender, Joined(e, t) \/ Completed(e, t) \/ BrokenOff(e, t)
      PROVE  Offer(s)'
  <2>1. CASE s = t
    BY <1>0, <1>1, <1>6, <2>1, JoinedKeepsOffer, WithdrawnKeepsOffer
  <2>2. CASE s # t
    <3>1. BrokenOff(e, t) => s # sink[t]
      BY <1>0 DEF BrokenOff
    <3>2. SameTablesOf(s)
      BY <1>0, <1>1, <1>6, <2>2, <3>1, HandledElsewhere
    <3> QED
      BY <1>3, <3>2
  <2> QED
    BY <2>1, <2>2
<1> QED
  BY <1>2, <1>4, <1>5, <1>6 DEF Handled

-----------------------------------------------------------------------------
LEMMA OffersFrame ==
    ASSUME Known, Offers, NEW c \in Client, Elsewhere(c), c \in Sender => Offer(c)'
    PROVE  Offers'
<1> SUFFICES ASSUME NEW s \in Sender
             PROVE  Offer(s)'
  BY DEF Offers
<1>1. CASE s = c
  BY <1>1
<1>2. CASE s # c
  <2>1. s \in Client \ {c}
    BY <1>2 DEF Client
  <2>2. SameClient(s) /\ SameTablesOf(s) /\ NoNews(s)
    BY <2>1 DEF Elsewhere
  <2> QED
    BY <2>2, OfferFrame DEF Offers
<1> QED
  BY <1>1, <1>2

LEMMA StepKeepsOffers ==
    ASSUME Known, Offers, [Next]_vars
    PROVE  Offers'
<1>0. Sender \subseteq Client /\ Receiver \subseteq Client /\ Client = Sender \cup Receiver
      /\ Sender \cap Receiver = {}
  BY ClientsAssumption DEF Client
<1>1. CASE ServerHandles
  BY <1>1, HandlerKeepsOffers
<1>2. ASSUME NEW c \in Client, NetworkStep(c) \/ Reset(c) \/ Start(c)
      PROVE  Offers'
  BY <1>2, NetworkElsewhere, NetworkKeepsOffer, OffersFrame DEF Offers
<1>3. ASSUME NEW s \in Sender, SenderStep(s) \/ Crash(s) \/ FileGone(s) \/ ReadError(s)
      PROVE  Offers'
  <2>1. Others(s) /\ UNCHANGED serverVars
    BY <1>0, <1>3, SenderOthers, CrashOthers, SenderSpeaks DEF Spoken
  <2> QED
    BY <1>0, <1>3, <2>1, RoutineElsewhere, SenderKeepsOffer, OffersFrame DEF Offers
<1>4. ASSUME NEW r \in Receiver,
             \/ ReceiverStep(r) \/ Decline(r) \/ Consent(r) \/ Crash(r)
             \/ OpenError(r) \/ WriteError(r)
      PROVE  Offers'
  <2>1. Others(r) /\ UNCHANGED serverVars
    BY <1>0, <1>4, ReceiverOthers, CrashOthers, ReceiverSpeaks DEF Spoken
  <2> QED
    BY <1>0, <2>1, RoutineElsewhere, OffersFrame
<1>5. ASSUME NEW s \in Sender, Corrupt(s)
      PROVE  Offers'
  BY <1>0, <1>5, CorruptElsewhere, CorruptKeepsOffer, OffersFrame DEF Offers
<1>6. CASE UNCHANGED vars
  <2>1. ASSUME NEW s \in Sender PROVE SameClient(s) /\ SameTablesOf(s) /\ NoNews(s)
    BY <1>6, QuietQueue
       DEF vars, serverVars, clientVars, dataVars, SameClient, SameTablesOf
  <2> QED
    BY <2>1, OfferFrame DEF Offers
<1> QED
  BY <1>0, <1>1, <1>2, <1>3, <1>4, <1>5, <1>6 DEF Next, UserStep, FaultStep

(* A sender's Send is heard at most once, first and before anything else   *)
(* of it; until a receiver joins, nothing goes either way.                 *)
THEOREM OffersInvariant == Spec => []Offers
<1>1. Init => Offers
  <2> SUFFICES ASSUME Init, NEW s \in Sender
               PROVE  Offer(s)
    BY DEF Offers
  <2>1. s \in Client
    BY DEF Client
  <2>2. /\ pc[s] = "new" /\ up[s] = <<>> /\ inbox[s] = <<>> /\ out[s] = <<>>
        /\ incoming = <<>> /\ closing = {} /\ phrase[s] = None /\ sink[s] = None
    BY <2>1 DEF Init, Server!Init
  <2> QED
    BY <2>2 DEF Offer, Fresh, SaidOnce, HeardOnce, Waiting, Linked, Awaiting, Begun,
                Quiet, NoneHeard, Untold, Unoffered
<1>2. Known /\ Offers /\ [Next]_vars => Offers'
  BY StepKeepsOffers
<1> QED
  BY <1>1, <1>2, KindsInvariant, PTL DEF Spec

(* disconnectAfterFlush is never asked for a connection that has a session *)
(* left, nor does a session come to one that is about to close.            *)
THEOREM SessionsAvoidClosing == Spec => []NoSessionOnClosing
<1>1. Offers => NoSessionOnClosing
  BY DEF Offers, Offer, Linked, NoSessionOnClosing
<1> QED
  BY <1>1, OffersInvariant, PTL

(* Whatever comes late or is lost, a sender's mainLoop starts only after   *)
(* an Accept: out_chunksize is assigned.                                   *)
THEOREM StartsInitialised == Spec => []SenderStartsInitialised
<1>1. Offers => SenderStartsInitialised
  BY DEF Offers, Offer, Begun, SenderStartsInitialised
<1> QED
  BY <1>1, OffersInvariant, PTL
=============================================================================
