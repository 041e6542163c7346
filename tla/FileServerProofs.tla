-------------------------- MODULE FileServerProofs --------------------------
(***************************************************************************)
(* Theorems about FileServer for every set of clients, phrases, files and  *)
(* bodies and every value of the limits.                                   *)
(*                                                                         *)
(* IInv, the inductive invariant, is the types and StorageConsistent.  The *)
(* parts of StorageConsistent need one another: the pair that FinishReceive*)
(* finds is known to have a session, that session to have a phrase, and    *)
(* the phrase a context, only because every handler keeps all of them.     *)
(***************************************************************************)
EXTENDS FileServer, TLAPS

IInv == TypeOK /\ StorageConsistent

Table(S) == [Client -> S \cup {None}]

-----------------------------------------------------------------------------
(* Messages.  What a client sends is a message, and what the server says of *)
(* its own accord (a signal, an Accept) is one too.                         *)
LEMMA ClientMessageType == ClientMessage \subseteq Message
  BY DEF ClientMessage, Message, MessageType, ServerReply, Control, Data,
         Send, RequestReceive, Receive, Chunk, Signal, Encode

LEMMA ReplyType ==
  /\ \A id \in MessageType : Signal(id) \in Message
  /\ \A f \in File \cup {None} : Accept(f) \in Message
  BY DEF Message, MessageType, ServerReply, Control, Data, Accept, Signal, Encode

(* What onMessage may rely on for the types that carry a payload. *)
LEMMA PayloadType ==
  ASSUME NEW m \in ClientMessage
  PROVE  /\ m \in Message
         /\ m.id = "Send" => m.code \in Phrase /\ m.file \in File
         /\ m.id \in {"RequestReceive", "Receive"} => m.code \in Phrase
         /\ m.id = "Chunk" => m.body \in Body
  <1>1. m \in Message
    BY ClientMessageType
  <1>2. CASE m \in {Send(p, f) : p \in Phrase, f \in File}
    BY <1>1, <1>2 DEF Send, Encode
  <1>3. CASE m \in {RequestReceive(p) : p \in Phrase}
    BY <1>1, <1>3 DEF RequestReceive, Encode
  <1>4. CASE m \in {Receive(p) : p \in Phrase}
    BY <1>1, <1>4 DEF Receive, Encode
  <1>5. CASE m \in {Chunk(b) : b \in Body}
    BY <1>1, <1>5 DEF Chunk, Encode
  <1>6. CASE m \in {Signal(id) : id \in {"Success", "Abort", "FinishReceive",
                                        "FailedReceive", "FinalChunk"}}
    BY <1>1, <1>6 DEF Signal, Encode
  <1> QED
    BY <1>2, <1>3, <1>4, <1>5, <1>6 DEF ClientMessage

-----------------------------------------------------------------------------
(* The containers.  Each lemma says what an operation on a table returns.   *)
LEMMA EraseTable ==
  ASSUME NEW S, NEW f \in Table(S), NEW k \in Client
  PROVE  /\ Erase(f, k) \in Table(S)
         /\ Erase(f, k)[k] = None
         /\ \A j \in Client \ {k} : Erase(f, k)[j] = f[j]
  BY DEF Erase, Table

LEMMA MapInsertTable ==
  ASSUME NEW S, NEW f \in Table(S), NEW k \in Client, NEW v \in S, v # None
  PROVE  /\ MapInsert(f, k, v) \in Table(S)
         /\ MapInsert(f, k, v)[k] # None
         /\ f[k] = None => MapInsert(f, k, v)[k] = v
         /\ f[k] # None => MapInsert(f, k, v)[k] = f[k]
         /\ \A j \in Client \ {k} : MapInsert(f, k, v)[j] = f[j]
  BY DEF MapInsert, Table

(* A bimap stays injective, whichever insert it refuses. *)
LEMMA BimapInsertTable ==
  ASSUME NEW S, NEW f \in Table(S), NEW k \in Client, NEW v \in S, v # None
  PROVE  /\ BimapInsert(f, k, v) \in Table(S)
         /\ BimapInsert(f, k, v)[k] \in {f[k], v}
         /\ f[k] # None => BimapInsert(f, k, v)[k] = f[k]
         /\ \A j \in Client \ {k} : BimapInsert(f, k, v)[j] = f[j]
         /\ BimapInsert(f, k, v)[k] = v => f[k] = v \/ \A j \in Client : f[j] # v
  BY DEF BimapInsert, MapInsert, Table

LEMMA KeyOfTable ==
  ASSUME NEW f, NEW v
  PROVE  /\ KeyOf(f, v) \in Client \cup {None}
         /\ KeyOf(f, v) # None => KeyOf(f, v) \in Client /\ f[KeyOf(f, v)] = v
  BY ClientAssumption DEF KeyOf

LEMMA SendToType ==
  ASSUME TypeOK, NEW c \in Client, NEW m \in Message
  PROVE  SendTo(c, m) \in [Client -> Seq(Message)]
  BY DEF TypeOK, SendTo, IsConnected
-----------------------------------------------------------------------------
(* The handlers.  Kept is what each of them owes: the tables and the queues *)
(* it writes keep their types, and the tables agree.                        *)
StorageTyped ==
  /\ closing \subseteq Client
  /\ phrase \in Table(Phrase)
  /\ context \in Table(File)
  /\ receiverOf \in Table(Client)
  /\ sink \in Table(Client)

OutTyped == out \in [Client -> Seq(Message)]

Kept == OutTyped /\ StorageTyped /\ StorageConsistent

LEMMA IInvKept == ASSUME IInv PROVE Kept
  BY DEF IInv, TypeOK, Kept, OutTyped, StorageTyped, Table

(* A handler that writes only to one client. *)
LEMMA OnlyReplies ==
  ASSUME IInv, NEW c \in Client, NEW m \in Message,
         out' = SendTo(c, m), UNCHANGED <<closing, storage>>
  PROVE  Kept'
  <1>1. OutTyped'
    BY SendToType DEF IInv, OutTyped
  <1>2. StorageTyped' /\ StorageConsistent'
    BY IInvKept DEF Kept, StorageTyped, StorageConsistent, storage, PhrasesDistinct,
       ReceiversDistinct, PhraseHasContext, PairHasSession, SessionHasOffer
  <1> QED
    BY <1>1, <1>2 DEF Kept

LEMMA NothingChanges ==
  ASSUME IInv, UNCHANGED <<closing, out, storage>>
  PROVE  Kept'
  BY IInvKept DEF Kept, OutTyped, StorageTyped, StorageConsistent, storage,
     PhrasesDistinct, ReceiversDistinct, PhraseHasContext, PairHasSession, SessionHasOffer

(* Removing a sender everywhere at once takes its row out of all tables. *)
LEMMA RemoveKeeps ==
  ASSUME IInv, NEW s \in Client, RemovePendingSender(s), RemoveSession(s)
  PROVE  StorageTyped' /\ StorageConsistent'
  <1>1. StorageTyped
    BY IInvKept DEF Kept
  <1>2. /\ phrase'[s] = None /\ context'[s] = None
        /\ receiverOf'[s] = None /\ sink'[s] = None
    BY <1>1, EraseTable DEF StorageTyped, RemovePendingSender, RemoveSession
  <1>3. \A t \in Client \ {s} :
           /\ phrase'[t] = phrase[t] /\ context'[t] = context[t]
           /\ receiverOf'[t] = receiverOf[t] /\ sink'[t] = sink[t]
    BY <1>1, EraseTable DEF StorageTyped, RemovePendingSender, RemoveSession
  <1>4. StorageTyped'
    BY <1>1, EraseTable DEF StorageTyped, RemovePendingSender, RemoveSession
  <1>5. StorageConsistent'
    BY <1>2, <1>3 DEF IInv, StorageConsistent, PhrasesDistinct, ReceiversDistinct,
       PhraseHasContext, PairHasSession, SessionHasOffer
  <1> QED
    BY <1>4, <1>5

LEMMA AbruptKeeps ==
  ASSUME IInv, NEW s \in Client, RemoveSessionAbruptly(s)
  PROVE  Kept'
  <1>1. OutTyped'
    <2>1. sink[s] # None => sink[s] \in Client
      BY DEF IInv, TypeOK
    <2>2. Signal("Abort") \in Message
      BY ReplyType DEF MessageType, ServerReply
    <2> QED
      BY <2>1, <2>2, SendToType DEF RemoveSessionAbruptly, OutTyped, IInv, TypeOK
  <1> QED
    BY <1>1, RemoveKeeps DEF RemoveSessionAbruptly, Kept

(* A sender without a session renews its offer: whichever insert is        *)
(* refused, a phrase is never entered without the file it leads to.        *)
LEMMA SendKeeps ==
  ASSUME IInv, NEW c \in Client, NEW m \in ClientMessage,
         m.id = "Send", sink[c] = None, OnSendEstablishment(c, m)
  PROVE  Kept'
  <1>1. m.code \in Phrase /\ m.file \in File /\ m.code # None /\ m.file # None
    BY PayloadType, NoneAssumption
  <1>2. StorageTyped /\ OutTyped
    BY IInvKept DEF Kept
  <1>3. /\ phrase' = BimapInsert(Erase(phrase, c), c, m.code)
        /\ context' = MapInsert(Erase(context, c), c, m.file)
        /\ UNCHANGED <<out, sink, receiverOf, closing>>
    BY DEF OnSendEstablishment
  <1>4. /\ Erase(phrase, c) \in Table(Phrase)
        /\ Erase(phrase, c)[c] = None
        /\ \A t \in Client \ {c} : Erase(phrase, c)[t] = phrase[t]
    BY <1>2, EraseTable DEF StorageTyped
  <1>5. /\ Erase(context, c) \in Table(File)
        /\ \A t \in Client \ {c} : Erase(context, c)[t] = context[t]
    BY <1>2, EraseTable DEF StorageTyped
  <1>6. /\ phrase' \in Table(Phrase)
        /\ \A t \in Client \ {c} : phrase'[t] = phrase[t]
        /\ phrase'[c] \in {None, m.code}
        /\ phrase'[c] = m.code => \A t \in Client \ {c} : phrase[t] # m.code
    BY <1>1, <1>3, <1>4, BimapInsertTable
  <1>7. /\ context' \in Table(File)
        /\ context'[c] # None
        /\ \A t \in Client \ {c} : context'[t] = context[t]
    BY <1>1, <1>3, <1>5, MapInsertTable
  <1>8. StorageTyped' /\ OutTyped'
    BY <1>2, <1>3, <1>6, <1>7 DEF StorageTyped, OutTyped
  <1>9. PhrasesDistinct'
    BY <1>6 DEF IInv, StorageConsistent, PhrasesDistinct
  <1>10. PhraseHasContext'
    BY <1>6, <1>7 DEF IInv, StorageConsistent, PhraseHasContext
  <1>11. SessionHasOffer'
    BY <1>3, <1>6 DEF IInv, StorageConsistent, SessionHasOffer
  <1>12. ReceiversDistinct' /\ PairHasSession'
    BY <1>3 DEF IInv, StorageConsistent, ReceiversDistinct, PairHasSession
  <1> QED
    BY <1>8, <1>9, <1>10, <1>11, <1>12 DEF Kept, StorageConsistent
LEMMA AskKeeps ==
  ASSUME IInv, NEW c \in Client, NEW m \in ClientMessage,
         OnReceiveEstablishment(c, m)
  PROVE  Kept'
  <1> DEFINE s == GetSenderByCode(m.code)
             reply == IF s # None /\ context[s] # None
                      THEN Accept(context[s]) ELSE Signal("Reject")
  <1>1. s # None => s \in Client
    BY KeyOfTable DEF GetSenderByCode
  <1>2. reply \in Message
    BY <1>1, ReplyType DEF IInv, TypeOK, MessageType, ServerReply
  <1>3. out' = SendTo(c, reply) /\ UNCHANGED <<closing, storage>>
    BY DEF OnReceiveEstablishment
  <1> QED
    BY <1>2, <1>3, OnlyReplies

(* Receive links the sender behind the phrase, once: the session goes in   *)
(* only where there is none, and a pair only where a session is.           *)
LEMMA EstablishKeeps ==
  ASSUME IInv, NEW r \in Client, NEW m \in ClientMessage, m.id = "Receive",
         EstablishTransmissionSession(r, m)
  PROVE  Kept'
  <1> DEFINE s == GetSenderByCode(m.code)
  <1>1. s # None => s \in Client /\ phrase[s] = m.code
    BY KeyOfTable DEF GetSenderByCode
  <1>2. CASE s = None
    <2>1. Signal("Abort") \in Message
      BY ReplyType DEF MessageType, ServerReply
    <2> QED
      BY <1>2, <2>1, OnlyReplies DEF EstablishTransmissionSession
  <1>3. CASE s # None /\ context[s] = None
    BY <1>1, <1>3, AbruptKeeps DEF EstablishTransmissionSession
  <1>4. CASE s # None /\ context[s] # None
    <2>1. /\ s \in Client
          /\ receiverOf' = BimapInsert(receiverOf, s, r)
          /\ sink' = MapInsert(sink, s, r)
          /\ out' = SendTo(s, Accept(context[s]))
          /\ UNCHANGED <<closing, phrase, context>>
      BY <1>1, <1>4 DEF EstablishTransmissionSession, AddSession
    <2>2. StorageTyped /\ r # None
      BY IInvKept, ClientAssumption DEF Kept
    <2>3. OutTyped'
      <3>1. Accept(context[s]) \in Message
        BY <2>1, ReplyType DEF IInv, TypeOK
      <3> QED
        BY <2>1, <3>1, SendToType DEF OutTyped, IInv
    <2>4. /\ sink' \in Table(Client)
          /\ sink'[s] # None
          /\ \A t \in Client \ {s} : sink'[t] = sink[t]
      BY <2>1, <2>2, MapInsertTable DEF StorageTyped
    <2>5. /\ receiverOf' \in Table(Client)
          /\ receiverOf'[s] \in {receiverOf[s], r}
          /\ \A t \in Client \ {s} : receiverOf'[t] = receiverOf[t]
          /\ receiverOf'[s] = r => receiverOf[s] = r \/ \A t \in Client : receiverOf[t] # r
      BY <2>1, <2>2, BimapInsertTable DEF StorageTyped
    <2>6. StorageTyped'
      BY <2>1, <2>2, <2>4, <2>5 DEF StorageTyped
    <2>7. PairHasSession'
      BY <2>1, <2>4, <2>5 DEF IInv, StorageConsistent, PairHasSession
    <2>8. ReceiversDistinct'
      BY <2>1, <2>5 DEF IInv, StorageConsistent, ReceiversDistinct
    <2>9. phrase[s] # None
      BY <1>1, <1>4, PayloadType, NoneAssumption
    <2>10. SessionHasOffer'
      BY <2>1, <2>4, <2>9 DEF IInv, StorageConsistent, SessionHasOffer
    <2>11. PhrasesDistinct' /\ PhraseHasContext'
      BY <2>1 DEF IInv, StorageConsistent, PhrasesDistinct, PhraseHasContext
    <2> QED
      BY <2>3, <2>6, <2>7, <2>8, <2>10, <2>11 DEF Kept, StorageConsistent
  <1> QED
    BY <1>2, <1>3, <1>4

LEMMA FinishKeeps ==
  ASSUME IInv, NEW r \in Client, FinishSession(r)
  PROVE  Kept'
  <1> DEFINE s == GetSenderByReceiver(r)
  <1>1. CASE s = None
    BY <1>1, NothingChanges DEF FinishSession
  <1>2. CASE s # None
    <2>1. /\ s \in Client
          /\ out' = SendTo(s, Signal("Success"))
          /\ RemovePendingSender(s)
          /\ RemoveSession(s)
      BY <1>2, KeyOfTable DEF FinishSession, GetSenderByReceiver
    <2>2. OutTyped'
      BY <2>1, ReplyType, SendToType DEF OutTyped, IInv, MessageType, ServerReply
    <2> QED
      BY <2>1, <2>2, RemoveKeeps DEF Kept
  <1> QED
    BY <1>1, <1>2

LEMMA FailKeeps ==
  ASSUME IInv, NEW r \in Client, FailSession(r)
  PROVE  Kept'
  <1> DEFINE s == GetSenderByReceiver(r)
  <1>1. CASE s = None
    BY <1>1, NothingChanges DEF FailSession
  <1>2. CASE s # None
    BY <1>2, KeyOfTable, AbruptKeeps DEF FailSession, GetSenderByReceiver
  <1> QED
    BY <1>1, <1>2

LEMMA SessionedKeeps ==
  ASSUME IInv, NEW s \in Client, sink[s] # None, NEW m \in ClientMessage,
         OnSessionedMessage(s, m)
  PROVE  Kept'
  <1>1. sink[s] \in Client /\ m \in Message
    BY PayloadType DEF IInv, TypeOK
  <1>2. CASE RemoveSessionAbruptly(s)
    BY <1>2, AbruptKeeps
  <1>3. CASE out' = SendTo(sink[s], m) /\ UNCHANGED <<closing, storage>>
    BY <1>1, <1>3, OnlyReplies
  <1> QED
    BY <1>2, <1>3 DEF OnSessionedMessage

(* Whatever a handler does, it keeps its promise. *)
LEMMA HandlerKeeps ==
  ASSUME IInv, NEW c \in Client, NEW m \in ClientMessage, OnMessage(c, m)
  PROVE  Kept'
  <1>1. CASE sink[c] # None
    BY <1>1, SessionedKeeps DEF OnMessage
  <1>2. CASE sink[c] = None
    <2>1. CASE m.id = "Send"
      BY <1>2, <2>1, SendKeeps DEF OnMessage
    <2>2. CASE m.id = "RequestReceive"
      BY <1>2, <2>2, AskKeeps DEF OnMessage
    <2>3. CASE m.id = "Receive"
      BY <1>2, <2>3, EstablishKeeps DEF OnMessage
    <2>4. CASE m.id = "FinishReceive"
      BY <1>2, <2>4, FinishKeeps DEF OnMessage
    <2>5. CASE m.id = "FailedReceive"
      BY <1>2, <2>5, FailKeeps DEF OnMessage
    <2>6. CASE m.id \notin {"Send", "RequestReceive", "Receive",
                            "FinishReceive", "FailedReceive"}
      BY <1>2, <2>6, NothingChanges DEF OnMessage
    <2> QED
      BY <2>1, <2>2, <2>3, <2>4, <2>5, <2>6
  <1> QED
    BY <1>1, <1>2
-----------------------------------------------------------------------------
LEMMA InitInv == Init => IInv
  BY ClientAssumption, NoneAssumption
  DEF Init, IInv, TypeOK, StorageConsistent, PhrasesDistinct, ReceiversDistinct,
      PhraseHasContext, PairHasSession, SessionHasOffer

(* The asio thread leaves the tables alone. *)
LEMMA NetworkKeeps ==
  ASSUME IInv, NEW c \in Client,
         \/ Connect(c)
         \/ \E m \in ClientMessage : Arrive(c, m)
         \/ WriteDone(c)
         \/ CloseFlushed(c)
         \/ ConnectionLost(c)
  PROVE  IInv'
  <1>1. UNCHANGED storage
    BY DEF Connect, Arrive, WriteDone, CloseFlushed, ConnectionLost, Close
  <1>2. StorageConsistent'
    BY <1>1 DEF IInv, StorageConsistent, storage, PhrasesDistinct, ReceiversDistinct,
       PhraseHasContext, PairHasSession, SessionHasOffer
  <1>3. CASE Connect(c)
    BY <1>1, <1>2, <1>3 DEF Connect, IInv, TypeOK, storage
  <1>4. CASE \E m \in ClientMessage : Arrive(c, m)
    BY <1>1, <1>2, <1>4 DEF Arrive, IInv, TypeOK, storage
  <1>5. CASE WriteDone(c)
    <2>1. out' \in [Client -> Seq(Message)]
      BY <1>5 DEF WriteDone, IInv, TypeOK
    <2> QED
      BY <1>1, <1>2, <1>5, <2>1 DEF WriteDone, IInv, TypeOK, storage
  <1>6. CASE CloseFlushed(c) \/ ConnectionLost(c)
    <2>1. Close(c)
      BY <1>6 DEF CloseFlushed, ConnectionLost
    <2>2. /\ conn' \in [Client -> {"absent", "open", "closed"}]
          /\ closing' \subseteq Client
          /\ out' \in [Client -> Seq(Message)]
          /\ incoming' = incoming
      BY <2>1 DEF Close, IInv, TypeOK
    <2> QED
      BY <1>1, <1>2, <2>2 DEF IInv, TypeOK, storage
  <1> QED
    BY <1>3, <1>4, <1>5, <1>6

LEMMA HeadTail ==
  ASSUME NEW S, NEW q \in Seq(S), q # <<>>
  PROVE  Head(q) \in S /\ Tail(q) \in Seq(S)
  OBVIOUS

LEMMA HeadType ==
  ASSUME TypeOK, incoming # <<>>
  PROVE  /\ Head(incoming).remote \in Client
         /\ Head(incoming).msg \in ClientMessage
         /\ Tail(incoming) \in Seq([remote : Client, msg : ClientMessage])
  <1> DEFINE Item == [remote : Client, msg : ClientMessage]
  <1>1. incoming \in Seq(Item)
    BY DEF TypeOK
  <1> HIDE DEF Item
  <1>2. Head(incoming) \in Item /\ Tail(incoming) \in Seq(Item)
    BY <1>1, HeadTail
  <1> QED
    BY <1>2 DEF Item

LEMMA NextInv == IInv /\ [Next]_vars => IInv'
  <1> SUFFICES ASSUME IInv, [Next]_vars PROVE IInv'
    OBVIOUS
  <1>1. CASE Update
    <2>1. Kept'
      BY <1>1, HeadType, HandlerKeeps DEF Update, IInv
    <2>2. /\ conn' \in [Client -> {"absent", "open", "closed"}]
          /\ incoming' \in Seq([remote : Client, msg : ClientMessage])
      BY <1>1, HeadType DEF Update, IInv, TypeOK
    <2> QED
      BY <2>1, <2>2 DEF Kept, OutTyped, StorageTyped, Table, IInv, TypeOK
  <1>2. ASSUME NEW c \in Client,
               \/ Connect(c)
               \/ \E m \in ClientMessage : Arrive(c, m)
               \/ WriteDone(c)
               \/ CloseFlushed(c)
               \/ ConnectionLost(c)
        PROVE  IInv'
    BY <1>2, NetworkKeeps
  <1>3. CASE UNCHANGED vars
    BY <1>3 DEF vars, storage, IInv, TypeOK, StorageConsistent, PhrasesDistinct,
       ReceiversDistinct, PhraseHasContext, PairHasSession, SessionHasOffer
  <1> QED
    BY <1>1, <1>2, <1>3 DEF Next

(* The types hold in every state of the server. *)
THEOREM TypeCorrect == Spec => []TypeOK
  <1>1. IInv => TypeOK
    BY DEF IInv
  <1> QED
    BY <1>1, InitInv, NextInv, PTL DEF Spec

(* The four tables of ClientStorage agree in every state, whatever the     *)
(* clients send and in whatever order they come and go.                    *)
THEOREM StorageStaysConsistent == Spec => []StorageConsistent
  <1>1. IInv => StorageConsistent
    BY DEF IInv
  <1> QED
    BY <1>1, InitInv, NextInv, PTL DEF Spec
-----------------------------------------------------------------------------
(* The unsigned subtraction of onSessionedMessage refuses what is too long *)
(* and, because it wraps, what is too short to hold a hash.                *)
LEMMA DataSizeFits ==
  ASSUME NEW b \in Body, DataSize(b) <= MaxChunkSize
  PROVE  BodySize[b] \in HashLength .. (HashLength + MaxChunkSize)
  BY SizeAssumption DEF DataSize

Fits(m) == m.id = "Chunk" =>
              BodySize[m.body] \in HashLength .. (HashLength + MaxChunkSize)

(* ChunksFit survives whenever all that is appended fits. *)
LEMMA SendFits ==
  ASSUME TypeOK, ChunksFit, NEW c \in Client, NEW m \in Message, Fits(m),
         out' = SendTo(c, m)
  PROVE  ChunksFit'
  <1> SUFFICES ASSUME NEW d \in Client, NEW i \in 1 .. Len(out'[d])
               PROVE  Fits(out'[d][i])
    BY DEF ChunksFit, Fits
  <1>1. CASE d = c /\ IsConnected(c)
    <2>1. out'[d] = Append(out[d], m) /\ out[d] \in Seq(Message)
      BY <1>1 DEF SendTo, TypeOK
    <2>2. Len(out'[d]) = Len(out[d]) + 1
      BY <2>1
    <2>3. CASE i = Len(out[d]) + 1
      BY <2>1, <2>3
    <2>4. CASE i \in 1 .. Len(out[d])
      <3>1. out'[d][i] = out[d][i]
        BY <2>1, <2>4
      <3> QED
        BY <2>4, <3>1 DEF ChunksFit, Fits
    <2> QED
      BY <2>1, <2>2, <2>3, <2>4
  <1>2. CASE ~(d = c /\ IsConnected(c))
    <2>1. out'[d] = out[d]
      BY <1>2 DEF SendTo, TypeOK
    <2> QED
      BY <2>1 DEF ChunksFit, Fits
  <1> QED
    BY <1>1, <1>2

LEMMA SignalFits == \A id \in MessageType \ {"Chunk"} : Fits(Signal(id))
  BY DEF Fits, Signal, Encode

LEMMA AcceptFits == \A f : Fits(Accept(f))
  BY DEF Fits, Accept, Encode

LEMMA AbruptFits ==
  ASSUME TypeOK, ChunksFit, NEW s \in Client, RemoveSessionAbruptly(s)
  PROVE  ChunksFit'
  <1>1. CASE sink[s] = None
    BY <1>1 DEF RemoveSessionAbruptly, ChunksFit
  <1>2. CASE sink[s] # None
    <2>1. sink[s] \in Client
      BY <1>2 DEF TypeOK
    <2>2. Signal("Abort") \in Message /\ Fits(Signal("Abort"))
      BY ReplyType, SignalFits DEF MessageType, ServerReply
    <2> QED
      BY <1>2, <2>1, <2>2, SendFits DEF RemoveSessionAbruptly
  <1> QED
    BY <1>1, <1>2
LEMMA HandlerFits ==
  ASSUME IInv, ChunksFit, NEW c \in Client, NEW m \in ClientMessage, OnMessage(c, m)
  PROVE  ChunksFit'
  <1> USE DEF IInv
  <1>1. \A id \in {"Abort", "Reject", "Success"} : Signal(id) \in Message /\ Fits(Signal(id))
    BY ReplyType, SignalFits DEF MessageType, ServerReply, Data
  <1>2. CASE UNCHANGED out
    BY <1>2 DEF ChunksFit
  <1>3. CASE sink[c] # None
    <2>1. CASE RemoveSessionAbruptly(c)
      BY <2>1, AbruptFits
    <2>2. CASE /\ m.id # "FinalChunk" => DataSize(m.body) <= MaxChunkSize
               /\ out' = SendTo(sink[c], m)
      <3>1. m \in Message /\ sink[c] \in Client
        BY <1>3, PayloadType DEF TypeOK
      <3>2. Fits(m)
        BY <2>2, PayloadType, DataSizeFits DEF Fits
      <3> QED
        BY <2>2, <3>1, <3>2, SendFits
    <2> QED
      BY <1>3, <2>1, <2>2 DEF OnMessage, OnSessionedMessage
  <1>4. CASE sink[c] = None /\ m.id = "Send"
    BY <1>2, <1>4 DEF OnMessage, OnSendEstablishment
  <1>5. CASE sink[c] = None /\ m.id = "RequestReceive"
    <2> DEFINE s == GetSenderByCode(m.code)
               reply == IF s # None /\ context[s] # None
                        THEN Accept(context[s]) ELSE Signal("Reject")
    <2>1. out' = SendTo(c, reply)
      BY <1>5 DEF OnMessage, OnReceiveEstablishment
    <2>2. s # None => s \in Client
      BY KeyOfTable DEF GetSenderByCode
    <2>3. reply \in Message /\ Fits(reply)
      BY <1>1, <2>2, ReplyType, AcceptFits DEF TypeOK
    <2> QED
      BY <2>1, <2>3, SendFits
  <1>6. CASE sink[c] = None /\ m.id = "Receive"
    <2> DEFINE s == GetSenderByCode(m.code)
    <2>1. EstablishTransmissionSession(c, m)
      BY <1>6 DEF OnMessage
    <2>2. s # None => s \in Client
      BY KeyOfTable DEF GetSenderByCode
    <2>3. CASE s = None
      BY <1>1, <2>1, <2>3, SendFits DEF EstablishTransmissionSession
    <2>4. CASE s # None /\ context[s] = None
      BY <2>1, <2>2, <2>4, AbruptFits DEF EstablishTransmissionSession
    <2>5. CASE s # None /\ context[s] # None
      <3>1. out' = SendTo(s, Accept(context[s]))
        BY <2>1, <2>5 DEF EstablishTransmissionSession
      <3>2. Accept(context[s]) \in Message /\ Fits(Accept(context[s]))
        BY <2>2, <2>5, ReplyType, AcceptFits DEF TypeOK
      <3> QED
        BY <2>2, <2>5, <3>1, <3>2, SendFits
    <2> QED
      BY <2>3, <2>4, <2>5
  <1>7. CASE sink[c] = None /\ m.id = "FinishReceive"
    <2> DEFINE s == GetSenderByReceiver(c)
    <2>1. s # None => s \in Client
      BY KeyOfTable DEF GetSenderByReceiver
    <2>2. FinishSession(c)
      BY <1>7 DEF OnMessage
    <2> QED
      BY <1>1, <1>2, <2>1, <2>2, SendFits DEF FinishSession
  <1>8. CASE sink[c] = None /\ m.id = "FailedReceive"
    <2> DEFINE s == GetSenderByReceiver(c)
    <2>1. s # None => s \in Client
      BY KeyOfTable DEF GetSenderByReceiver
    <2>2. FailSession(c)
      BY <1>8 DEF OnMessage
    <2> QED
      BY <1>2, <2>1, <2>2, AbruptFits DEF FailSession
  <1>9. CASE sink[c] = None /\ m.id \notin {"Send", "RequestReceive", "Receive",
                                           "FinishReceive", "FailedReceive"}
    BY <1>2, <1>9 DEF OnMessage
  <1> QED
    BY <1>3, <1>4, <1>5, <1>6, <1>7, <1>8, <1>9

LEMMA NextFits == IInv /\ ChunksFit /\ [Next]_vars => ChunksFit'
  <1> SUFFICES ASSUME IInv, ChunksFit, [Next]_vars PROVE ChunksFit'
    OBVIOUS
  <1> USE DEF IInv
  <1>1. CASE Update
    BY <1>1, HeadType, HandlerFits DEF Update
  <1>2. CASE UNCHANGED out
    BY <1>2 DEF ChunksFit
  <1>3. ASSUME NEW c \in Client, WriteDone(c) PROVE ChunksFit'
    <2> SUFFICES ASSUME NEW d \in Client, NEW i \in 1 .. Len(out'[d])
                 PROVE  Fits(out'[d][i])
      BY DEF ChunksFit, Fits
    <2>1. out[c] \in Seq(Message) /\ out[c] # <<>>
      BY <1>3 DEF WriteDone, TypeOK
    <2>2. CASE d = c
      <3>1. out'[d] = Tail(out[c])
        BY <1>3, <2>2 DEF WriteDone, TypeOK
      <3>2. i + 1 \in 1 .. Len(out[c]) /\ out'[d][i] = out[c][i + 1]
        BY <2>1, <3>1
      <3> QED
        BY <3>2 DEF ChunksFit, Fits
    <2>3. CASE d # c
      <3>1. out'[d] = out[d]
        BY <1>3, <2>3 DEF WriteDone, TypeOK
      <3> QED
        BY <3>1 DEF ChunksFit, Fits
    <2> QED
      BY <2>2, <2>3
  <1>4. ASSUME NEW c \in Client, Close(c) PROVE ChunksFit'
    <2> SUFFICES ASSUME NEW d \in Client, NEW i \in 1 .. Len(out'[d])
                 PROVE  Fits(out'[d][i])
      BY DEF ChunksFit, Fits
    <2>1. d # c
      BY <1>4 DEF Close, TypeOK
    <2>2. out'[d] = out[d]
      BY <1>4, <2>1 DEF Close, TypeOK
    <2> QED
      BY <2>2 DEF ChunksFit, Fits
  <1> QED
    BY <1>1, <1>2, <1>3, <1>4
    DEF Next, vars, Connect, Arrive, CloseFlushed, ConnectionLost

(* No chunk that is too short or too long is ever passed to a receiver. *)
THEOREM RelayedChunksFit == Spec => []ChunksFit
  <1>1. Init => ChunksFit
    BY DEF Init, ChunksFit
  <1> QED
    BY <1>1, InitInv, NextInv, NextFits, PTL DEF Spec
-----------------------------------------------------------------------------
(* How a session ends.  Only two operations erase a session, and each of   *)
(* them speaks to one of its two clients first.                            *)
Loud(s) == sink[s] # None /\ sink'[s] = None => SessionEnds(s)

LEMMA FinishReceiveMessage ==
  ASSUME NEW m \in ClientMessage, m.id = "FinishReceive"
  PROVE  m = Signal("FinishReceive")
  BY DEF ClientMessage, Send, RequestReceive, Receive, Chunk, Signal, Encode

LEMMA SendToTells ==
  ASSUME TypeOK, NEW c \in Client, NEW id, out' = SendTo(c, Signal(id))
  PROVE  Told(c, id)
  BY DEF TypeOK, SendTo, Told

LEMMA AbruptIsLoud ==
  ASSUME TypeOK, NEW c \in Client, RemoveSessionAbruptly(c), NEW s \in Client
  PROVE  Loud(s)
  <1>1. CASE s = c
    <2> SUFFICES ASSUME sink[c] # None PROVE SessionEnds(c)
      BY <1>1 DEF Loud
    <2>1. sink[c] \in Client
      BY DEF TypeOK
    <2>2. Told(sink[c], "Abort")
      BY <2>1, SendToTells DEF RemoveSessionAbruptly
    <2>3. IsConnected(c) => c \in closing'
      BY DEF RemoveSessionAbruptly, RemoveSession
    <2> QED
      BY <2>2, <2>3 DEF SessionEnds
  <1>2. CASE s # c
    BY <1>2 DEF RemoveSessionAbruptly, RemoveSession, Erase, TypeOK, Loud
  <1> QED
    BY <1>1, <1>2

LEMMA FinishIsLoud ==
  ASSUME TypeOK, NEW r \in Client, FinishSession(r), NEW s \in Client,
         Head(incoming) = [remote |-> r, msg |-> Signal("FinishReceive")]
  PROVE  Loud(s)
  <1> DEFINE t == GetSenderByReceiver(r)
  <1>1. CASE t = None
    BY <1>1 DEF FinishSession, storage, Loud
  <1>2. CASE t # None
    <2>1. t \in Client /\ receiverOf[t] = r
      BY <1>2, KeyOfTable DEF GetSenderByReceiver
    <2>2. out' = SendTo(t, Signal("Success")) /\ RemoveSession(t)
      BY <1>2 DEF FinishSession
    <2>3. CASE s = t
      <3>1. Told(t, "Success")
        BY <2>1, <2>2, SendToTells
      <3>2. IsConnected(t) => t \in closing'
        BY <2>2 DEF RemoveSession
      <3> QED
        BY <2>1, <2>3, <3>1, <3>2 DEF Loud, SessionEnds
    <2>4. CASE s # t
      BY <2>1, <2>2, <2>4 DEF RemoveSession, Erase, TypeOK, Loud
    <2> QED
      BY <2>3, <2>4
  <1> QED
    BY <1>1, <1>2

LEMMA HandlerIsLoud ==
  ASSUME IInv, NEW c \in Client, NEW m \in ClientMessage, OnMessage(c, m),
         Head(incoming) = [remote |-> c, msg |-> m], NEW s \in Client
  PROVE  Loud(s)
  <1> USE DEF IInv
  <1>1. CASE UNCHANGED sink
    BY <1>1 DEF Loud
  <1>2. CASE sink[c] # None
    BY <1>1, <1>2, AbruptIsLoud DEF OnMessage, OnSessionedMessage, storage
  <1>3. CASE sink[c] = None /\ m.id = "Receive"
    <2> DEFINE t == GetSenderByCode(m.code)
    <2>1. EstablishTransmissionSession(c, m)
      BY <1>3 DEF OnMessage
    <2>2. t # None => t \in Client
      BY KeyOfTable DEF GetSenderByCode
    <2>3. CASE t = None
      BY <1>1, <2>1, <2>3 DEF EstablishTransmissionSession, storage
    <2>4. CASE t # None /\ context[t] = None
      BY <2>1, <2>2, <2>4, AbruptIsLoud DEF EstablishTransmissionSession
    <2>5. CASE t # None /\ context[t] # None
      <3>1. sink' = MapInsert(sink, t, c)
        BY <2>1, <2>5 DEF EstablishTransmissionSession, AddSession
      <3>2. sink[s] # None => sink'[s] = sink[s]
        BY <2>2, <2>5, <3>1 DEF MapInsert, TypeOK
      <3> QED
        BY <3>2 DEF Loud
    <2> QED
      BY <2>3, <2>4, <2>5
  <1>4. CASE sink[c] = None /\ m.id = "FinishReceive"
    BY <1>4, FinishReceiveMessage, FinishIsLoud DEF OnMessage
  <1>5. CASE sink[c] = None /\ m.id = "FailedReceive"
    <2>1. FailSession(c)
      BY <1>5 DEF OnMessage
    <2> QED
      BY <1>1, <2>1, KeyOfTable, AbruptIsLoud
      DEF FailSession, GetSenderByReceiver, storage
  <1>6. CASE sink[c] = None /\ m.id \notin {"Receive", "FinishReceive", "FailedReceive"}
    BY <1>1, <1>6 DEF OnMessage, OnSendEstablishment, OnReceiveEstablishment, storage
  <1> QED
    BY <1>2, <1>3, <1>4, <1>5, <1>6

(* A session never ends without the sender being disconnected and one of   *)
(* its two clients being told, whatever the clients send.                  *)
THEOREM SessionsEndLoudly == Spec => SessionEndsLoudly
  <1>1. IInv /\ [Next]_vars => [\A s \in Client : Loud(s)]_vars
    <2> SUFFICES ASSUME IInv, Next, NEW s \in Client PROVE Loud(s)
      BY DEF vars
    <2>1. CASE Update
      <3>1. Head(incoming).remote \in Client /\ Head(incoming).msg \in ClientMessage
        BY <2>1, HeadType DEF Update, IInv
      <3>2. Head(incoming) = [remote |-> Head(incoming).remote,
                              msg |-> Head(incoming).msg]
        <4> DEFINE Item == [remote : Client, msg : ClientMessage]
        <4>1. incoming \in Seq(Item) /\ incoming # <<>>
          BY <2>1 DEF Update, IInv, TypeOK
        <4>2. Head(incoming) \in Item
          <5> HIDE DEF Item
          <5> QED BY <4>1, HeadTail
        <4> QED
          BY <4>2
      <3> QED
        BY <2>1, <3>1, <3>2, HandlerIsLoud DEF Update
    <2>2. CASE UNCHANGED storage
      BY <2>2 DEF storage, Loud
    <2> QED
      BY <2>1, <2>2
      DEF Next, Connect, Arrive, WriteDone, CloseFlushed, ConnectionLost, Close
  <1> QED
    BY <1>1, InitInv, NextInv, PTL DEF Spec, SessionEndsLoudly, Loud
-----------------------------------------------------------------------------
(* FileServer implements Rendezvous: offer is phrase and link is sink.     *)
RdvStep == Rdv!Next \/ UNCHANGED <<phrase, sink>>

LEMMA AbruptEnds ==
  ASSUME IInv, NEW s \in Client, RemovePendingSender(s), RemoveSession(s),
         sink[s] # None
  PROVE  RdvStep
  <1>1. Rdv!End(s)
    BY DEF Rdv!End, RemovePendingSender, RemoveSession, Erase
  <1> QED
    BY <1>1 DEF RdvStep, Rdv!Next

LEMMA SendOffers ==
  ASSUME IInv, NEW c \in Client, NEW m \in ClientMessage,
         m.id = "Send", sink[c] = None, OnSendEstablishment(c, m)
  PROVE  RdvStep
  <1>1. /\ m.code \in Phrase /\ m.code # None
        /\ phrase' = BimapInsert(Erase(phrase, c), c, m.code)
        /\ UNCHANGED sink
        /\ phrase \in [Client -> Phrase \cup {None}]
    BY PayloadType, NoneAssumption DEF OnSendEstablishment, IInv, TypeOK
  <1>2. CASE \E t \in Client \ {c} : phrase[t] = m.code
    <2>1. phrase' = [phrase EXCEPT ![c] = None]
      BY <1>1, <1>2 DEF BimapInsert, Erase
    <2>2. Rdv!Withdraw(c, m.code)
      BY <1>1, <1>2, <2>1 DEF Rdv!Withdraw
    <2> QED
      BY <1>1, <2>2 DEF RdvStep, Rdv!Next
  <1>3. CASE \A t \in Client \ {c} : phrase[t] # m.code
    <2>1. phrase' = [phrase EXCEPT ![c] = m.code]
      BY <1>1, <1>3 DEF BimapInsert, MapInsert, Erase
    <2>2. Rdv!Offer(c, m.code)
      BY <1>1, <1>3, <2>1 DEF Rdv!Offer
    <2> QED
      BY <1>1, <2>2 DEF RdvStep, Rdv!Next
  <1> QED
    BY <1>2, <1>3

LEMMA ReceiveJoins ==
  ASSUME IInv, NEW r \in Client, NEW m \in ClientMessage, m.id = "Receive",
         EstablishTransmissionSession(r, m)
  PROVE  RdvStep
  <1> DEFINE s == GetSenderByCode(m.code)
  <1>1. s # None => s \in Client /\ phrase[s] = m.code /\ m.code # None
    BY KeyOfTable, PayloadType, NoneAssumption DEF GetSenderByCode
  <1>2. CASE s = None
    BY <1>2 DEF EstablishTransmissionSession, storage, RdvStep
  <1>3. CASE s # None
    <2>1. context[s] # None
      BY <1>1, <1>3 DEF IInv, StorageConsistent, PhraseHasContext
    <2>2. sink' = MapInsert(sink, s, r) /\ UNCHANGED phrase
      BY <1>3, <2>1 DEF EstablishTransmissionSession, AddSession
    <2>3. CASE sink[s] = None
      <3>1. Rdv!Join(s, r)
        BY <1>1, <1>3, <2>2, <2>3 DEF Rdv!Join, MapInsert
      <3> QED
        BY <1>1, <1>3, <3>1 DEF RdvStep, Rdv!Next
    <2>4. CASE sink[s] # None
      BY <2>2, <2>4 DEF MapInsert, RdvStep
    <2> QED
      BY <2>3, <2>4
  <1> QED
    BY <1>2, <1>3

(* What a receiver reports ends the session of the sender it is paired     *)
(* with; PairHasSession says that there is one.                            *)
LEMMA ReportEnds ==
  ASSUME IInv, NEW r \in Client, FinishSession(r) \/ FailSession(r)
  PROVE  RdvStep
  <1> DEFINE s == GetSenderByReceiver(r)
  <1>1. CASE s = None
    BY <1>1 DEF FinishSession, FailSession, storage, RdvStep
  <1>2. CASE s # None
    <2>1. s \in Client /\ receiverOf[s] # None
      BY <1>2, KeyOfTable, ClientAssumption DEF GetSenderByReceiver
    <2>2. sink[s] # None
      BY <2>1 DEF IInv, StorageConsistent, PairHasSession
    <2>3. RemovePendingSender(s) /\ RemoveSession(s)
      BY <1>2 DEF FinishSession, FailSession, RemoveSessionAbruptly
    <2> QED
      BY <2>1, <2>2, <2>3, AbruptEnds
  <1> QED
    BY <1>1, <1>2

LEMMA HandlerImplements ==
  ASSUME IInv, NEW c \in Client, NEW m \in ClientMessage, OnMessage(c, m)
  PROVE  RdvStep
  <1>1. CASE UNCHANGED storage
    BY <1>1 DEF storage, RdvStep
  <1>2. CASE sink[c] # None
    BY <1>1, <1>2, AbruptEnds DEF OnMessage, OnSessionedMessage, RemoveSessionAbruptly
  <1>3. CASE sink[c] = None
    <2>1. CASE m.id = "Send"
      BY <1>3, <2>1, SendOffers DEF OnMessage
    <2>2. CASE m.id = "RequestReceive"
      BY <1>1, <1>3, <2>2 DEF OnMessage, OnReceiveEstablishment
    <2>3. CASE m.id = "Receive"
      BY <1>3, <2>3, ReceiveJoins DEF OnMessage
    <2>4. CASE m.id \in {"FinishReceive", "FailedReceive"}
      BY <1>3, <2>4, ReportEnds DEF OnMessage
    <2>5. CASE m.id \notin {"Send", "RequestReceive", "Receive",
                            "FinishReceive", "FailedReceive"}
      BY <1>1, <1>3, <2>5 DEF OnMessage
    <2> QED
      BY <2>1, <2>2, <2>3, <2>4, <2>5
  <1> QED
    BY <1>2, <1>3

(* The server, under any clients, behaves as the abstract rendezvous: a    *)
(* phrase has one owner, a link is made once, and both end together.       *)
THEOREM ServerIsRendezvous == Spec => ImplementsRendezvous
  <1>1. Init => Rdv!Init
    BY DEF Init, Rdv!Init
  <1>2. IInv /\ [Next]_vars => [Rdv!Next]_<<phrase, sink>>
    <2> SUFFICES ASSUME IInv, [Next]_vars PROVE RdvStep
      BY DEF RdvStep
    <2>1. CASE Update
      BY <2>1, HeadType, HandlerImplements DEF Update, IInv
    <2>2. CASE UNCHANGED storage
      BY <2>2 DEF storage, RdvStep
    <2> QED
      BY <2>1, <2>2
      DEF Next, vars, Connect, Arrive, WriteDone, CloseFlushed, ConnectionLost, Close
  <1> QED
    BY <1>1, <1>2, InitInv, NextInv, PTL DEF Spec, ImplementsRendezvous, Rdv!Spec
=============================================================================
