-------------------------- MODULE HandshakeProofs ---------------------------
(***************************************************************************)
(* The safety properties of Handshake, for any number of messages and of   *)
(* errors.                                                                 *)
(*                                                                         *)
(* What an end reads next was written by the other end some time ago, so   *)
(* the invariant looks at everything that is under way in one direction at *)
(* once, on the wire and in writes not yet taken by the network: a         *)
(* handshake value and then messages, or messages only.  Which of the two  *)
(* it is follows from what the reader waits for.                           *)
(***************************************************************************)
EXTENDS Handshake, TLAPS

-----------------------------------------------------------------------------
(* The inductive invariant.                                                *)

ToServer == stream["server"] \o writes["client"]
ToClient == stream["client"] \o writes["server"]

(* Messages only, or one handshake value before them. *)
Plain(q) == \A i \in 1 .. Len(q) : q[i] = "message"
Greeting(q) ==
    /\ q # <<>> /\ q[1] # "message"
    /\ \A i \in 2 .. Len(q) : q[i] = "message"

(* Before the server has accepted, nothing has been said. *)
Unmet ==
    /\ dialled = "pending" => sock["server"] = "none" /\ reading["client"] = "nothing"
    /\ sock["server"] = "none" =>
          /\ ToServer = <<>> /\ ToClient = <<>> /\ done["client"] = <<>>
          /\ ~valid["client"] /\ ~valid["server"] /\ incoming["server"] = <<>>
          /\ reading["client"] # "message" /\ reading["server"] = "nothing"

ClientWaits ==
    reading["client"] = "validation" =>
        /\ ToServer = <<>> /\ done["client"] = <<>> /\ ~valid["client"]
        /\ sock["server"] # "none" => Greeting(ToClient)

ClientHasAnswered ==
    ~Plain(writes["client"]) \/ ~Plain(done["client"]) \/ reading["client"] = "message" =>
        sock["server"] # "none" /\ Plain(ToClient)

ServerWaits ==
    reading["server"] = "validation" =>
        \/ ToServer = <<>> /\ ~valid["client"] /\ Plain(done["client"])
        \/ Greeting(ToServer)

ServerHasChecked ==
    reading["server"] = "message" =>
        valid["server"] /\ Plain(ToServer) /\ reading["client"] # "validation"

(* As long as the nonce has not been taken by the network, the client has  *)
(* said nothing.                                                           *)
NonceUnsent ==
    ~Plain(writes["server"]) =>
        /\ ToServer = <<>> /\ done["client"] = <<>> /\ ~valid["client"]
        /\ incoming["server"] = <<>> /\ reading["client"] # "message"

(* The client says one handshake value, and messages only after that. *)
ClientSpeaks ==
    /\ valid["client"] \/ ~Plain(done["client"]) => Plain(writes["client"])
    /\ ~valid["client"] => \A i \in 1 .. Len(ToServer) : ToServer[i] # "message"

IInv ==
    /\ TypeOK /\ WritesDoNotMix /\ OnlyValidated
    /\ Unmet /\ ClientWaits /\ ClientHasAnswered /\ ServerWaits /\ ServerHasChecked
    /\ NonceUnsent /\ ClientSpeaks

-----------------------------------------------------------------------------
(* Sequences in two parts, s on the wire and w still to be written. *)

LEMMA JoinIsSeq ==
    ASSUME NEW s \in Seq(Item), NEW w \in Seq(Item)
    PROVE  /\ s \o w \in Seq(Item) /\ Len(s \o w) = Len(s) + Len(w)
           /\ s \o <<>> = s /\ <<>> \o w = w
           /\ s \o w = <<>> => s = <<>> /\ w = <<>>
<1>1. s \o w \in Seq(Item) /\ Len(s \o w) = Len(s) + Len(w) /\ Len(s) \in Nat /\ Len(w) \in Nat
  OBVIOUS
<1>2. s \o <<>> = s /\ <<>> \o w = w
  OBVIOUS
<1>3. Len(<<>>) = 0 /\ (Len(s) = 0 => s = <<>>) /\ (Len(w) = 0 => w = <<>>)
  OBVIOUS
<1> QED
  BY <1>1, <1>2, <1>3

LEMMA JoinWrite ==
    ASSUME NEW s \in Seq(Item), NEW w \in Seq(Item), NEW x \in Item
    PROVE  s \o Append(w, x) = Append(s \o w, x)
  OBVIOUS

LEMMA JoinTransmit ==
    ASSUME NEW s \in Seq(Item), NEW w \in Seq(Item), Len(w) <= 1, NEW i \in 1 .. Len(w)
    PROVE  /\ Without(w, i) = <<>> /\ w[i] \in Item /\ i = 1
           /\ Append(s, w[i]) \o Without(w, i) = s \o w
<1>1. i = 1 /\ Len(w) \in Nat /\ w[i] \in Item
  OBVIOUS
<1>2. Len(w) >= 1
  OBVIOUS
<1>3. w = <<w[1]>>
  <2>1. \A n \in Nat : n <= 1 /\ n >= 1 => n = 1
    OBVIOUS
  <2>2. Len(w) = Len(<<w[1]>>)
    BY <1>1, <1>2, <2>1, Zenon
  <2>3. <<w[1]>> \in Seq(Item) /\ <<w[1]>>[1] = w[1]
    BY <1>1
  <2> QED
    BY <2>2, <2>3
<1>4. SubSeq(w, 1, 0) = <<>> /\ SubSeq(w, 2, 1) = <<>>
  BY <1>1, <1>2
<1>5. Without(w, i) = <<>>
  BY <1>1, <1>2, <1>4 DEF Without
<1>6. Append(s, w[1]) \o <<>> = Append(s, w[1])
  BY <1>1
<1>7. s \o <<w[1]>> = Append(s, w[1])
  BY <1>1
<1> QED
  BY <1>1, <1>3, <1>5, <1>6, <1>7

LEMMA JoinRead ==
    ASSUME NEW s \in Seq(Item), NEW w \in Seq(Item), s # <<>>
    PROVE  /\ Tail(s) \in Seq(Item) /\ Head(s) \in Item /\ s[1] = Head(s)
           /\ s \o w # <<>> /\ (s \o w)[1] = Head(s)
           /\ Tail(s) \o w = Tail(s \o w)
<1>1. Len(s) \in Nat /\ Len(s) # 0 /\ Len(w) \in Nat
  OBVIOUS
<1>2. Tail(s) \in Seq(Item) /\ Head(s) \in Item /\ s[1] = Head(s)
  BY <1>1
<1>3. s \o w # <<>>
  BY JoinIsSeq
<1>4. (s \o w)[1] = Head(s)
  BY <1>1
<1>5. Tail(s) \o w = Tail(s \o w)
  BY <1>1
<1> QED
  BY <1>2, <1>3, <1>4, <1>5

LEMMA PlainGrows ==
    ASSUME NEW q \in Seq(Item), Plain(q)
    PROVE  Plain(Append(q, "message"))
  BY DEF Plain

LEMMA GreetingGrows ==
    ASSUME NEW q \in Seq(Item), Greeting(q)
    PROVE  Greeting(Append(q, "message"))
<1>1. Len(q) \in Nat /\ Len(q) # 0
  BY DEF Greeting
<1>2. /\ Len(Append(q, "message")) = Len(q) + 1
      /\ \A i \in 1 .. Len(q) : Append(q, "message")[i] = q[i]
      /\ Append(q, "message")[Len(q) + 1] = "message"
  BY <1>1
<1>3. Append(q, "message") # <<>>
  OBVIOUS
<1> QED
  BY <1>1, <1>2, <1>3 DEF Greeting

LEMMA GreetingStarts ==
    ASSUME NEW x \in Item, x # "message"
    PROVE  Greeting(<<x>>)
  BY DEF Greeting

LEMMA TailIsPlain ==
    ASSUME NEW q \in Seq(Item), q # <<>>, Plain(q) \/ Greeting(q)
    PROVE  Plain(Tail(q))
<1>1. Len(q) \in Nat /\ Len(q) # 0
  OBVIOUS
<1>2. Len(Tail(q)) = Len(q) - 1 /\ \A i \in 1 .. Len(Tail(q)) : Tail(q)[i] = q[i + 1]
  BY <1>1
<1> QED
  BY <1>1, <1>2 DEF Plain, Greeting

LEMMA TailIsOld ==
    ASSUME NEW q \in Seq(Item), q # <<>>
    PROVE  \A i \in 1 .. Len(Tail(q)) : i + 1 \in 1 .. Len(q) /\ Tail(q)[i] = q[i + 1]
<1>1. Len(q) \in Nat /\ Len(q) # 0
  OBVIOUS
<1> QED
  BY <1>1

LEMMA SecondPartIsPlain ==
    ASSUME NEW s \in Seq(Item), NEW w \in Seq(Item), Plain(s \o w)
    PROVE  Plain(w)
<1>1. Len(s) \in Nat /\ Len(w) \in Nat /\ Len(s \o w) = Len(s) + Len(w)
  OBVIOUS
<1>2. \A i \in 1 .. Len(w) : i + Len(s) \in 1 .. Len(s \o w) /\ (s \o w)[i + Len(s)] = w[i]
  BY <1>1
<1> QED
  BY <1>2 DEF Plain

(* The first of what is on the wire is damaged. *)
LEMMA JoinGarble ==
    ASSUME NEW s \in Seq(Item), NEW w \in Seq(Item), s # <<>>, s[1] # "message"
    PROVE  LET r == [s EXCEPT ![1] = "noise"] IN
           /\ r \in Seq(Item) /\ r \o w # <<>> /\ ~Plain(s \o w) /\ s \o w # <<>>
           /\ Greeting(s \o w) => Greeting(r \o w)
           /\ \A i \in 1 .. Len(r \o w) : i \in 1 .. Len(s \o w) /\ ((r \o w)[i] = "message" => (s \o w)[i] = "message")
<1> DEFINE r == [s EXCEPT ![1] = "noise"]
<1>1. Len(s) \in Nat /\ Len(s) # 0 /\ Len(w) \in Nat
  OBVIOUS
<1>2. r \in Seq(Item) /\ Len(r) = Len(s) /\ r[1] = "noise" /\ \A i \in 2 .. Len(s) : r[i] = s[i]
  BY <1>1 DEF Item
<1> HIDE DEF r
<1>3. /\ s \o w \in Seq(Item) /\ Len(s \o w) = Len(s) + Len(w)
      /\ r \o w \in Seq(Item) /\ Len(r \o w) = Len(s) + Len(w)
  BY <1>1, <1>2
<1>4. (s \o w)[1] = s[1] /\ (r \o w)[1] = "noise"
  BY <1>1, <1>2
<1>5. \A i \in 2 .. (Len(s) + Len(w)) : (r \o w)[i] = (s \o w)[i]
  BY <1>1, <1>2
<1>6. s \o w # <<>> /\ r \o w # <<>>
  BY <1>1, <1>2, JoinIsSeq
<1>7. ~Plain(s \o w)
  BY <1>1, <1>3, <1>4 DEF Plain
<1>8. Greeting(s \o w) => Greeting(r \o w)
  BY <1>1, <1>3, <1>4, <1>5, <1>6 DEF Greeting
<1>9. \A i \in 1 .. Len(r \o w) : i \in 1 .. Len(s \o w) /\ ((r \o w)[i] = "message" => (s \o w)[i] = "message")
  BY <1>1, <1>3, <1>4, <1>5
<1> QED
  BY <1>2, <1>6, <1>7, <1>8, <1>9 DEF r

-----------------------------------------------------------------------------
(* What every proof below starts from. *)
LEMMA Typed ==
    ASSUME IInv
    PROVE  /\ stream["server"] \in Seq(Item) /\ stream["client"] \in Seq(Item)
           /\ writes["server"] \in Seq(Item) /\ writes["client"] \in Seq(Item)
           /\ done["server"] \in Seq(Item) /\ done["client"] \in Seq(Item)
           /\ ToServer \in Seq(Item) /\ ToClient \in Seq(Item)
<1>1. /\ stream["server"] \in Seq(Item) /\ stream["client"] \in Seq(Item)
      /\ writes["server"] \in Seq(Item) /\ writes["client"] \in Seq(Item)
      /\ done["server"] \in Seq(Item) /\ done["client"] \in Seq(Item)
  BY DEF IInv, TypeOK, End
<1> QED
  BY <1>1, JoinIsSeq DEF ToServer, ToClient

LEMMA InitIInv == Init => IInv
<1> SUFFICES ASSUME Init PROVE IInv
  OBVIOUS
<1>1. /\ writes["server"] = <<>> /\ writes["client"] = <<>>
      /\ done["server"] = <<>> /\ done["client"] = <<>>
      /\ stream["server"] = <<>> /\ stream["client"] = <<>>
      /\ ~valid["client"] /\ ~valid["server"] /\ incoming["server"] = <<>>
      /\ reading["client"] = "nothing" /\ reading["server"] = "nothing" /\ sock["server"] = "none"
  BY DEF Init, End
<1>2. ToServer = <<>> /\ ToClient = <<>>
  BY <1>1 DEF ToServer, ToClient
<1>3. Plain(<<>>) /\ Len(<<>>) = 0
  BY DEF Plain
<1>4. TypeOK
  <2>1. {writes, done, stream} \subseteq [End -> Seq(Item)] /\ incoming \in [End -> Seq({"message"})]
    BY DEF Init
  <2> QED
    BY <2>1, BoundAssumption DEF Init, TypeOK
<1>5. WritesDoNotMix /\ OnlyValidated
  BY <1>1, <1>3 DEF WritesDoNotMix, OnlyValidated, End
<1>6. Unmet /\ ClientWaits /\ ClientHasAnswered /\ ServerWaits /\ ServerHasChecked /\ NonceUnsent
  BY <1>1, <1>2, <1>3 DEF Unmet, ClientWaits, ClientHasAnswered, ServerWaits, ServerHasChecked, NonceUnsent
<1>7. ClientSpeaks
  BY <1>1, <1>2, <1>3 DEF ClientSpeaks
<1> QED
  BY <1>4, <1>5, <1>6, <1>7 DEF IInv

(* Steps that touch nothing the invariant relates. *)
LEMMA UnrelatedKeepsIInv ==
    ASSUME IInv, TypeOK', dialled' = dialled \/ dialled' # "pending",
           UNCHANGED <<sock, reading, writes, done, stream, valid, incoming>>
    PROVE  IInv'
<1>1. ToServer' = ToServer /\ ToClient' = ToClient
  BY DEF ToServer, ToClient
<1> QED
  BY <1>1 DEF IInv, WritesDoNotMix, OnlyValidated, Unmet, ClientWaits, ClientHasAnswered, ServerWaits,
              ServerHasChecked, NonceUnsent, ClientSpeaks

LEMMA MainKeepsIInv == ASSUME IInv, Pass \/ ConnectError PROVE IInv'
<1>1. TypeOK'
  BY BoundAssumption DEF Pass, ConnectError, IInv, TypeOK
<1> QED
  BY <1>1, UnrelatedKeepsIInv DEF Pass, ConnectError

LEMMA StutterKeepsIInv == ASSUME IInv, UNCHANGED vars PROVE IInv'
<1>1. TypeOK'
  BY DEF vars, IInv, TypeOK
<1> QED
  BY <1>1, UnrelatedKeepsIInv DEF vars

-----------------------------------------------------------------------------
(* Connecting and closing. *)

LEMMA ConnectDoneKeepsIInv == ASSUME IInv, ConnectDone PROVE IInv'
<1>0. /\ dialled = "pending" /\ dialled' = "done" /\ reading' = [reading EXCEPT !["client"] = "validation"]
      /\ UNCHANGED <<main, sock, writes, done, stream, valid, incoming, sent, errors>>
  BY DEF ConnectDone
<1>1. reading'["client"] = "validation" /\ reading'["server"] = reading["server"]
  BY <1>0 DEF IInv, TypeOK, End
<1>2. ToServer' = ToServer /\ ToClient' = ToClient
  BY <1>0 DEF ToServer, ToClient
<1>3. TypeOK'
  BY <1>0 DEF IInv, TypeOK
<1> QED
  BY <1>0, <1>1, <1>2, <1>3
     DEF IInv, WritesDoNotMix, OnlyValidated, Unmet, ClientWaits, ClientHasAnswered, ServerWaits,
         ServerHasChecked, NonceUnsent, ClientSpeaks

LEMMA AcceptKeepsIInv == ASSUME IInv, Accept PROVE IInv'
<1>0. /\ dialled = "done" /\ sock["server"] = "none"
      /\ sock' = [sock EXCEPT !["server"] = "open"]
      /\ writes' = [writes EXCEPT !["server"] = Append(@, "nonce")]
      /\ reading' = [reading EXCEPT !["server"] = "validation"]
      /\ UNCHANGED <<main, dialled, done, stream, valid, incoming, sent, errors>>
  BY DEF Accept, StartWrite
<1>1. /\ sock'["server"] = "open" /\ writes'["client"] = writes["client"]
      /\ reading'["server"] = "validation" /\ reading'["client"] = reading["client"]
  BY <1>0 DEF IInv, TypeOK, End
<1>2. /\ ToServer = <<>> /\ ToClient = <<>> /\ done["client"] = <<>>
      /\ ~valid["client"] /\ ~valid["server"] /\ incoming["server"] = <<>> /\ reading["client"] # "message"
  BY <1>0 DEF IInv, Unmet
<1>3. stream["client"] = <<>> /\ writes["server"] = <<>> /\ writes["client"] = <<>>
  BY <1>2, Typed, JoinIsSeq DEF ToServer, ToClient
<1>4. writes'["server"] = <<"nonce">> /\ ToClient' = <<"nonce">> /\ ToServer' = <<>>
  BY <1>0, <1>1, <1>2, <1>3 DEF ToServer, ToClient, IInv, TypeOK, End
<1>5. Greeting(ToClient') /\ Plain(<<>>) /\ Len(writes'["server"]) = 1 /\ Len(writes'["client"]) = 0
  BY <1>1, <1>3, <1>4 DEF Greeting, Plain
<1>6. TypeOK'
  <2>1. writes' \in [End -> Seq(Item)]
    BY <1>0 DEF IInv, TypeOK, Item, End
  <2> QED
    BY <1>0, <2>1 DEF IInv, TypeOK
<1>7. WritesDoNotMix' /\ OnlyValidated'
  BY <1>0, <1>5 DEF IInv, WritesDoNotMix, OnlyValidated, End
<1>8. Unmet' /\ ClientWaits' /\ ClientHasAnswered' /\ ServerWaits' /\ ServerHasChecked' /\ NonceUnsent'
  BY <1>0, <1>1, <1>2, <1>3, <1>4, <1>5
     DEF Unmet, ClientWaits, ClientHasAnswered, ServerWaits, ServerHasChecked, NonceUnsent
<1>9. ClientSpeaks'
  BY <1>0, <1>1, <1>2, <1>3, <1>4, <1>5 DEF ClientSpeaks
<1> QED
  BY <1>6, <1>7, <1>8, <1>9 DEF IInv

(* A socket is closed at either end; what was under way stays where it is. *)
LEMMA CloseKeepsIInv ==
    ASSUME IInv, NEW e \in End, EndOfStream(e) \/ Break(e)
    PROVE  IInv'
<1>0. /\ sock[e] = "open" /\ sock' = [sock EXCEPT ![e] = "closed"]
      /\ reading' = [reading EXCEPT ![e] = "nothing"]
      /\ UNCHANGED <<main, dialled, writes, done, stream, valid, incoming, sent>>
      /\ errors' \in 0 .. MaxErrors
  BY BoundAssumption DEF EndOfStream, Break, Busy, CloseSocket, IInv, TypeOK
<1>1. /\ reading'["client"] \in {"nothing", reading["client"]}
      /\ reading'["server"] \in {"nothing", reading["server"]}
      /\ (sock'["server"] = "none") <=> (sock["server"] = "none")
      /\ reading["client"] = "nothing" => reading'["client"] = "nothing"
  BY <1>0 DEF IInv, TypeOK, End
<1>2. ToServer' = ToServer /\ ToClient' = ToClient
  BY <1>0 DEF ToServer, ToClient
<1>3. TypeOK'
  BY <1>0 DEF IInv, TypeOK
<1> QED
  BY <1>0, <1>1, <1>2, <1>3
     DEF IInv, WritesDoNotMix, OnlyValidated, Unmet, ClientWaits, ClientHasAnswered, ServerWaits,
         ServerHasChecked, NonceUnsent, ClientSpeaks

-----------------------------------------------------------------------------
(* Writing. *)

(* What the network takes stays under way. *)
LEMMA TransmitKeepsIInv ==
    ASSUME IInv, NEW e \in End, Transmit(e)
    PROVE  IInv'
<1>0. PICK i \in 1 .. Len(writes[e]) :
          /\ writes' = [writes EXCEPT ![e] = Without(@, i)]
          /\ done' = [done EXCEPT ![e] = Append(@, writes[e][i])]
          /\ stream' = [stream EXCEPT ![Peer(e)] = Append(@, writes[e][i])]
          /\ UNCHANGED <<main, dialled, sock, reading, valid, incoming, sent, errors>>
  BY DEF Transmit
<1>1. Len(writes[e]) <= 1
  BY DEF IInv, WritesDoNotMix
<1>2. Plain(<<>>) /\ Len(<<>>) = 0 /\ <<>> \in Seq(Item)
  BY DEF Plain
<1>3. TypeOK'
  <2>1. writes[e][i] \in Item /\ Without(writes[e], i) = <<>>
    BY <1>0, <1>1, Typed, JoinTransmit DEF End
  <2>2. writes' \in [End -> Seq(Item)] /\ done' \in [End -> Seq(Item)] /\ stream' \in [End -> Seq(Item)]
    BY <1>0, <1>2, <2>1 DEF IInv, TypeOK, Peer, End
  <2> QED
    BY <1>0, <2>2 DEF IInv, TypeOK
<1>4. CASE e = "client"
  <2>1. /\ writes'["client"] = <<>> /\ writes'["server"] = writes["server"]
        /\ stream'["client"] = stream["client"]
        /\ done'["client"] = Append(done["client"], writes["client"][i])
        /\ stream'["server"] \o writes'["client"] = ToServer
    <3>1. /\ Without(writes["client"], i) = <<>>
          /\ Append(stream["server"], writes["client"][i]) \o Without(writes["client"], i) = ToServer
      BY <1>0, <1>1, <1>4, Typed, JoinTransmit DEF ToServer
    <3>2. /\ writes'["client"] = Without(writes["client"], i) /\ writes'["server"] = writes["server"]
          /\ done'["client"] = Append(done["client"], writes["client"][i])
      BY <1>0, <1>4 DEF IInv, TypeOK, End
    <3>3. /\ stream'["client"] = stream["client"]
          /\ stream'["server"] = Append(stream["server"], writes["client"][i])
      BY <1>0, <1>4 DEF IInv, TypeOK, Peer, End
    <3> QED
      BY <3>1, <3>2, <3>3
  <2>2. ToServer' = ToServer /\ ToClient' = ToClient
    BY <2>1 DEF ToServer, ToClient
  <2>3. ToServer # <<>>
    BY <1>0, <1>2, <1>4, Typed, JoinIsSeq DEF ToServer
  <2>4. ~Plain(done'["client"]) => ~Plain(writes["client"]) \/ ~Plain(done["client"])
    <3>1. SUFFICES ASSUME Plain(writes["client"]), Plain(done["client"])
                   PROVE  Plain(done'["client"])
      OBVIOUS
    <3>2. writes["client"][i] = "message"
      BY <1>0, <1>4, <3>1 DEF Plain
    <3> QED
      BY <2>1, <3>1, <3>2, Typed, PlainGrows
  <2>5. WritesDoNotMix' /\ OnlyValidated' /\ Unmet' /\ ClientWaits' /\ ServerHasChecked'
    BY <1>0, <1>2, <2>1, <2>2, <2>3
       DEF IInv, WritesDoNotMix, OnlyValidated, Unmet, ClientWaits, ServerHasChecked, End
  <2>6. ClientHasAnswered' /\ ServerWaits' /\ NonceUnsent' /\ ClientSpeaks'
    BY <1>0, <1>2, <2>1, <2>2, <2>3, <2>4
       DEF IInv, ClientHasAnswered, ServerWaits, NonceUnsent, ClientSpeaks
  <2> QED
    BY <1>3, <2>5, <2>6 DEF IInv
<1>5. CASE e = "server"
  <2>1. /\ writes'["server"] = <<>> /\ writes'["client"] = writes["client"]
        /\ stream'["server"] = stream["server"] /\ done'["client"] = done["client"]
        /\ stream'["client"] \o writes'["server"] = ToClient
    <3>1. /\ Without(writes["server"], i) = <<>>
          /\ Append(stream["client"], writes["server"][i]) \o Without(writes["server"], i) = ToClient
      BY <1>0, <1>1, <1>5, Typed, JoinTransmit DEF ToClient
    <3>2. /\ writes'["server"] = Without(writes["server"], i) /\ writes'["client"] = writes["client"]
          /\ done'["client"] = done["client"]
      BY <1>0, <1>5 DEF IInv, TypeOK, End
    <3>3. /\ stream'["server"] = stream["server"]
          /\ stream'["client"] = Append(stream["client"], writes["server"][i])
      BY <1>0, <1>5 DEF IInv, TypeOK, Peer, End
    <3> QED
      BY <3>1, <3>2, <3>3
  <2>2. ToServer' = ToServer /\ ToClient' = ToClient
    BY <2>1 DEF ToServer, ToClient
  <2>3. WritesDoNotMix'
    BY <1>2, <2>1 DEF IInv, WritesDoNotMix, End
  <2>4. OnlyValidated' /\ Unmet' /\ ClientWaits' /\ ServerHasChecked'
    BY <1>0, <2>1, <2>2 DEF IInv, OnlyValidated, Unmet, ClientWaits, ServerHasChecked
  <2>5. ClientHasAnswered' /\ ServerWaits' /\ NonceUnsent' /\ ClientSpeaks'
    BY <1>0, <1>2, <2>1, <2>2
       DEF IInv, ClientHasAnswered, ServerWaits, NonceUnsent, ClientSpeaks
  <2> QED
    BY <1>3, <2>3, <2>4, <2>5 DEF IInv
<1> QED
  BY <1>4, <1>5 DEF End

(* The client's answer is written: it may send and reads messages.         *)
LEMMA WriteCompletedKeepsIInv ==
    ASSUME IInv, NEW e \in End, WriteCompleted(e)
    PROVE  IInv'
<1>0. /\ done[e] # <<>> /\ done' = [done EXCEPT ![e] = Tail(@)]
      /\ UNCHANGED <<main, dialled, sock, writes, stream, incoming, sent, errors>>
  BY DEF WriteCompleted
<1>1. ToServer' = ToServer /\ ToClient' = ToClient
  BY <1>0 DEF ToServer, ToClient
<1>2. Tail(done[e]) \in Seq(Item) /\ Head(done[e]) \in Item /\ Head(done[e]) = done[e][1]
      /\ 1 \in 1 .. Len(done[e])
  <2>1. done[e] \in Seq(Item)
    BY DEF IInv, TypeOK
  <2>2. Len(done[e]) \in Nat /\ Len(done[e]) # 0
    BY <1>0, <2>1
  <2> QED
    BY <1>0, <2>1, <2>2
<1>3. Plain(done["client"]) => Plain(done'["client"])
  BY <1>0, Typed, TailIsPlain DEF IInv, TypeOK, End
<1>4. CASE e = "client" /\ Head(done[e]) # "message"
  <2>0. /\ valid' = [valid EXCEPT !["client"] = TRUE] /\ valid'["client"] /\ valid'["server"] = valid["server"]
        /\ reading' = IF sock["client"] = "open" THEN [reading EXCEPT !["client"] = "message"] ELSE reading
    BY <1>4 DEF WriteCompleted, Answered, ReadMessages, IInv, TypeOK, End
  <2>1. /\ reading'["client"] \in {"message", reading["client"]} /\ reading'["server"] = reading["server"]
    BY <2>0 DEF IInv, TypeOK, End
  <2>2. ~Plain(done["client"]) /\ done["client"] # <<>>
    BY <1>0, <1>2, <1>4 DEF Plain
  <2>3. sock["server"] # "none" /\ Plain(ToClient) /\ Plain(writes["client"]) /\ reading["client"] # "validation"
        /\ Plain(writes["server"])
    BY <2>2 DEF IInv, ClientHasAnswered, ClientSpeaks, ClientWaits, NonceUnsent
  <2>4. TypeOK'
    <3>1. done' \in [End -> Seq(Item)]
      BY <1>0, <1>2 DEF IInv, TypeOK
    <3> QED
      BY <1>0, <2>0, <3>1 DEF IInv, TypeOK
  <2>5. WritesDoNotMix' /\ OnlyValidated' /\ Unmet' /\ ClientWaits' /\ ServerHasChecked'
    BY <1>0, <1>1, <2>0, <2>1, <2>3
       DEF IInv, WritesDoNotMix, OnlyValidated, Unmet, ClientWaits, ServerHasChecked
  <2>6. ClientHasAnswered' /\ ServerWaits' /\ NonceUnsent' /\ ClientSpeaks'
    BY <1>0, <1>1, <2>0, <2>1, <2>2, <2>3
       DEF IInv, ClientHasAnswered, ServerWaits, NonceUnsent, ClientSpeaks
  <2> QED
    BY <2>4, <2>5, <2>6 DEF IInv
<1>5. CASE ~(e = "client" /\ Head(done[e]) # "message")
  <2>0. valid' = valid /\ reading' = reading
    BY <1>5 DEF WriteCompleted, Answered
  <2>1. TypeOK'
    <3>1. done' \in [End -> Seq(Item)]
      BY <1>0, <1>2 DEF IInv, TypeOK
    <3> QED
      BY <1>0, <2>0, <3>1 DEF IInv, TypeOK
  <2>2. done["client"] = <<>> => done'["client"] = <<>>
    BY <1>0 DEF IInv, TypeOK, End
  <2>3. WritesDoNotMix' /\ OnlyValidated' /\ Unmet' /\ ClientWaits' /\ ServerHasChecked'
    BY <1>0, <1>1, <2>0, <2>2
       DEF IInv, WritesDoNotMix, OnlyValidated, Unmet, ClientWaits, ServerHasChecked
  <2>4. ClientHasAnswered' /\ ServerWaits' /\ NonceUnsent' /\ ClientSpeaks'
    BY <1>0, <1>1, <1>3, <2>0, <2>2
       DEF IInv, ClientHasAnswered, ServerWaits, NonceUnsent, ClientSpeaks
  <2> QED
    BY <2>1, <2>3, <2>4 DEF IInv
<1> QED
  BY <1>4, <1>5

LEMMA SendMessageKeepsIInv ==
    ASSUME IInv, NEW e \in End, SendMessage(e)
    PROVE  IInv'
<1>0. /\ valid[e] /\ (e = "server" => incoming[e] # <<>>)
      /\ \A i \in 1 .. Len(writes[e]) : writes[e][i] # "message"
      /\ writes' = [writes EXCEPT ![e] = Append(@, "message")]
      /\ sent' = [sent EXCEPT ![e] = @ + 1] /\ sent[e] < MaxMessages
      /\ UNCHANGED <<main, dialled, sock, reading, done, stream, valid, incoming, errors>>
  BY DEF SendMessage, StartWrite
<1>1. "message" \in Item
  BY DEF Item
<1>2. TypeOK'
  <2>1. writes' \in [End -> Seq(Item)]
    BY <1>0, <1>1 DEF IInv, TypeOK
  <2>2. sent' \in [End -> 0 .. MaxMessages]
    BY <1>0, BoundAssumption DEF IInv, TypeOK
  <2> QED
    BY <1>0, <2>1, <2>2 DEF IInv, TypeOK
<1>3. Plain(writes[e])
  BY <1>0 DEF IInv, ClientSpeaks, NonceUnsent, End
<1>4. writes[e] = <<>>
  <2>1. writes[e] \in Seq(Item)
    BY DEF IInv, TypeOK
  <2>2. ~(1 \in 1 .. Len(writes[e]))
    BY <1>0, <1>3 DEF Plain
  <2> QED
    BY <2>1, <2>2
<1>5. writes'[e] = <<"message">> /\ Len(<<"message">>) = 1 /\ Plain(<<"message">>)
  BY <1>0, <1>4 DEF IInv, TypeOK, Plain
<1>6. CASE e = "client"
  <2>1. /\ writes'["client"] = Append(writes["client"], "message") /\ writes'["server"] = writes["server"]
        /\ ToClient' = ToClient /\ ToServer' = Append(ToServer, "message")
    <3>1. stream["server"] \o Append(writes["client"], "message") = Append(ToServer, "message")
      BY <1>1, Typed, JoinWrite DEF ToServer
    <3>2. writes'["client"] = Append(writes["client"], "message") /\ writes'["server"] = writes["server"]
      BY <1>0, <1>6 DEF IInv, TypeOK, End
    <3> QED
      BY <1>0, <3>1, <3>2 DEF ToServer, ToClient
  <2>2. WritesDoNotMix' /\ OnlyValidated' /\ Unmet' /\ ClientWaits'
    BY <1>0, <1>5, <1>6, <2>1 DEF IInv, WritesDoNotMix, OnlyValidated, Unmet, ClientWaits, End
  <2>3. ServerWaits' /\ ServerHasChecked'
    BY <1>0, <1>6, <2>1, Typed, PlainGrows, GreetingGrows DEF IInv, ServerWaits, ServerHasChecked
  <2>4. ClientHasAnswered' /\ NonceUnsent' /\ ClientSpeaks'
    BY <1>0, <1>3, <1>5, <1>6, <2>1 DEF IInv, ClientHasAnswered, NonceUnsent, ClientSpeaks
  <2> QED
    BY <1>2, <2>2, <2>3, <2>4 DEF IInv
<1>7. CASE e = "server"
  <2>1. /\ writes'["server"] = Append(writes["server"], "message") /\ writes'["client"] = writes["client"]
        /\ ToServer' = ToServer /\ ToClient' = Append(ToClient, "message")
    <3>1. stream["client"] \o Append(writes["server"], "message") = Append(ToClient, "message")
      BY <1>1, Typed, JoinWrite DEF ToClient
    <3>2. writes'["server"] = Append(writes["server"], "message") /\ writes'["client"] = writes["client"]
      BY <1>0, <1>7 DEF IInv, TypeOK, End
    <3> QED
      BY <1>0, <3>1, <3>2 DEF ToServer, ToClient
  <2>2. sock["server"] # "none" /\ Plain(writes'["server"])
    BY <1>0, <1>5, <1>7 DEF IInv, Unmet
  <2>3. WritesDoNotMix' /\ OnlyValidated' /\ Unmet' /\ ServerWaits' /\ ServerHasChecked'
        /\ NonceUnsent' /\ ClientSpeaks'
    BY <1>0, <1>5, <1>7, <2>1, <2>2
       DEF IInv, WritesDoNotMix, OnlyValidated, Unmet, ServerWaits, ServerHasChecked, NonceUnsent,
           ClientSpeaks, End
  <2>4. ClientWaits' /\ ClientHasAnswered'
    BY <1>0, <2>1, Typed, PlainGrows, GreetingGrows DEF IInv, ClientWaits, ClientHasAnswered
  <2> QED
    BY <1>2, <2>3, <2>4 DEF IInv
<1> QED
  BY <1>6, <1>7 DEF End

-----------------------------------------------------------------------------
(* Reading. *)

LEMMA ServerReadKeepsIInv ==
    ASSUME IInv, ReadCompleted("server")
    PROVE  IInv'
<1> DEFINE in == Head(stream["server"])
<1>0. /\ sock["server"] = "open" /\ reading["server"] # "nothing" /\ stream["server"] # <<>>
      /\ stream' = [stream EXCEPT !["server"] = Tail(@)]
      /\ IF reading["server"] = "message" THEN TakeMessage("server", in) ELSE CheckAnswer(in)
      /\ UNCHANGED <<main, dialled, done, sent, errors>>
  BY DEF ReadCompleted
<1>1. stream'["server"] = Tail(stream["server"]) /\ stream'["client"] = stream["client"] /\ writes' = writes
  BY <1>0 DEF TakeMessage, CheckAnswer, IInv, TypeOK, End
<1>2. /\ Tail(stream["server"]) \in Seq(Item)
      /\ ToServer # <<>> /\ ToServer[1] = in
      /\ ToServer' = Tail(ToServer) /\ ToClient' = ToClient
  <2>1. LET s == stream["server"]
            w == writes["client"]
        IN  /\ Tail(s) \in Seq(Item) /\ s \o w # <<>> /\ (s \o w)[1] = Head(s)
            /\ Tail(s) \o w = Tail(s \o w)
    BY <1>0, Typed, JoinRead
  <2> QED
    BY <1>1, <2>1 DEF ToServer, ToClient
<1> HIDE DEF in
<1>3. stream' \in [End -> Seq(Item)]
  BY <1>0, <1>2 DEF IInv, TypeOK
<1>4. Plain(ToServer) \/ Greeting(ToServer)
  BY <1>0, <1>2 DEF IInv, TypeOK, ServerWaits, ServerHasChecked, End
<1>5. Plain(ToServer') /\ Len(ToServer) \in Nat /\ Len(ToServer) # 0
  BY <1>2, <1>4, Typed, TailIsPlain
<1>6. ~valid["client"] => \A i \in 1 .. Len(ToServer') : ToServer'[i] # "message"
  BY <1>2, Typed, TailIsOld DEF IInv, ClientSpeaks
<1>7. Plain(writes["server"]) /\ reading["client"] # "validation"
  BY <1>2 DEF IInv, NonceUnsent, ClientWaits
<1>8. CASE reading["server"] = "message"
  <2>1. /\ incoming' = [incoming EXCEPT !["server"] = Append(incoming["server"], in)]
        /\ UNCHANGED <<sock, reading, writes, valid>>
    BY <1>0, <1>8 DEF TakeMessage
  <2>2. valid["server"] /\ in = "message" /\ valid["client"]
    <3>1. valid["server"] /\ Plain(ToServer)
      BY <1>8 DEF IInv, ServerHasChecked
    <3>2. in = "message"
      BY <1>2, <1>5, <3>1 DEF Plain
    <3> QED
      BY <1>2, <1>5, <3>1, <3>2 DEF IInv, ClientSpeaks
  <2>3. TypeOK'
    <3>1. Append(incoming["server"], in) \in Seq({"message"})
      <4>1. incoming["server"] \in Seq({"message"}) /\ in \in {"message"}
        BY <2>2 DEF IInv, TypeOK, End
      <4> QED
        BY <4>1
    <3>2. incoming' \in [End -> Seq({"message"})]
      BY <2>1, <3>1 DEF IInv, TypeOK
    <3> QED
      BY <1>0, <1>3, <2>1, <3>2 DEF IInv, TypeOK
  <2>4. WritesDoNotMix' /\ OnlyValidated' /\ Unmet' /\ ClientWaits' /\ ServerHasChecked'
    BY <1>0, <1>2, <1>5, <1>7, <2>1, <2>2
       DEF IInv, WritesDoNotMix, OnlyValidated, Unmet, ClientWaits, ServerHasChecked
  <2>5. ClientHasAnswered' /\ ServerWaits' /\ NonceUnsent' /\ ClientSpeaks'
    BY <1>0, <1>2, <1>7, <1>8, <2>1, <2>2
       DEF IInv, ClientHasAnswered, ServerWaits, NonceUnsent, ClientSpeaks
  <2> QED
    BY <2>3, <2>4, <2>5 DEF IInv
<1>9. CASE reading["server"] = "validation"
  <2>1. CheckAnswer(in) /\ UNCHANGED <<writes, incoming>>
    BY <1>0, <1>9 DEF CheckAnswer
  <2>2. /\ sock'["server"] \in {"open", "closed"} /\ reading'["server"] \in {"message", "nothing"}
        /\ reading'["server"] = "message" => valid'["server"]
        /\ reading'["client"] = reading["client"] /\ valid'["client"] = valid["client"]
        /\ valid["server"] => valid'["server"]
        /\ sock' \in [End -> {"none", "open", "closed"}]
        /\ reading' \in [End -> {"nothing", "validation", "message"}]
        /\ valid' \in [End -> BOOLEAN]
    <3>1. CASE in = "answer"
      <4>1. /\ valid' = [valid EXCEPT !["server"] = TRUE] /\ sock' = sock
            /\ reading' = [reading EXCEPT !["server"] = "message"]
        BY <1>0, <2>1, <3>1 DEF CheckAnswer, ReadMessages
      <4> QED
        BY <1>0, <4>1 DEF IInv, TypeOK, End
    <3>2. CASE in # "answer"
      <4>1. /\ valid' = valid /\ sock' = [sock EXCEPT !["server"] = "closed"]
            /\ reading' = [reading EXCEPT !["server"] = "nothing"]
        BY <2>1, <3>2 DEF CheckAnswer, CloseSocket
      <4> QED
        BY <1>0, <4>1 DEF IInv, TypeOK, End
    <3> QED
      BY <3>1, <3>2
  <2>3. TypeOK'
    BY <1>0, <1>3, <2>1, <2>2 DEF IInv, TypeOK
  <2>4. WritesDoNotMix' /\ OnlyValidated' /\ Unmet' /\ ClientWaits' /\ ServerHasChecked'
    BY <1>0, <1>2, <1>5, <1>7, <2>1, <2>2
       DEF IInv, WritesDoNotMix, OnlyValidated, Unmet, ClientWaits, ServerHasChecked
  <2>5. ClientHasAnswered' /\ ServerWaits' /\ NonceUnsent'
    BY <1>0, <1>2, <1>7, <2>1, <2>2 DEF IInv, ClientHasAnswered, ServerWaits, NonceUnsent
  <2>6. ClientSpeaks'
    BY <1>0, <1>6, <2>1, <2>2 DEF IInv, ClientSpeaks
  <2> QED
    BY <2>3, <2>4, <2>5, <2>6 DEF IInv
<1> QED
  BY <1>0, <1>8, <1>9 DEF IInv, TypeOK, End

LEMMA ClientReadKeepsIInv ==
    ASSUME IInv, ReadCompleted("client")
    PROVE  IInv'
<1> DEFINE in == Head(stream["client"])
<1>0. /\ sock["client"] = "open" /\ reading["client"] # "nothing" /\ stream["client"] # <<>>
      /\ stream' = [stream EXCEPT !["client"] = Tail(@)]
      /\ IF reading["client"] = "message" THEN TakeMessage("client", in) ELSE GiveAnswer(in)
      /\ UNCHANGED <<main, dialled, done, sent, errors>>
  BY DEF ReadCompleted
<1>1. /\ stream'["client"] = Tail(stream["client"]) /\ stream'["server"] = stream["server"]
      /\ writes'["server"] = writes["server"] /\ UNCHANGED <<sock, valid>>
  BY <1>0 DEF TakeMessage, GiveAnswer, StartWrite, IInv, TypeOK, End
<1>2. /\ Tail(stream["client"]) \in Seq(Item)
      /\ ToClient # <<>> /\ ToClient[1] = in
      /\ ToClient' = Tail(ToClient)
  <2>1. LET s == stream["client"]
            w == writes["server"]
        IN  /\ Tail(s) \in Seq(Item) /\ s \o w # <<>> /\ (s \o w)[1] = Head(s)
            /\ Tail(s) \o w = Tail(s \o w)
    BY <1>0, Typed, JoinRead
  <2> QED
    BY <1>1, <2>1 DEF ToClient
<1> HIDE DEF in
<1>3. stream' \in [End -> Seq(Item)]
  BY <1>0, <1>2 DEF IInv, TypeOK
<1>4. sock["server"] # "none"
  BY <1>2 DEF IInv, Unmet
<1>5. Plain(ToClient) \/ Greeting(ToClient)
  BY <1>0, <1>4 DEF IInv, TypeOK, ClientWaits, ClientHasAnswered, End
<1>6. Plain(ToClient') /\ Len(ToClient) \in Nat /\ Len(ToClient) # 0
  BY <1>2, <1>5, Typed, TailIsPlain
<1>7. CASE reading["client"] = "message"
  <2>1. /\ incoming' = [incoming EXCEPT !["client"] = Append(incoming["client"], in)]
        /\ UNCHANGED <<sock, reading, writes, valid>>
    BY <1>0, <1>7 DEF TakeMessage
  <2>2. in = "message" /\ ToServer' = ToServer /\ incoming'["server"] = incoming["server"]
    BY <1>1, <1>2, <1>6, <1>7, <2>1 DEF IInv, TypeOK, ClientHasAnswered, Plain, ToServer, End
  <2>3. TypeOK'
    <3>1. Append(incoming["client"], in) \in Seq({"message"})
      <4>1. incoming["client"] \in Seq({"message"}) /\ in \in {"message"}
        BY <2>2 DEF IInv, TypeOK, End
      <4> QED
        BY <4>1
    <3>2. incoming' \in [End -> Seq({"message"})]
      BY <2>1, <3>1 DEF IInv, TypeOK
    <3> QED
      BY <1>0, <1>3, <2>1, <3>2 DEF IInv, TypeOK
  <2>4. WritesDoNotMix' /\ OnlyValidated' /\ Unmet' /\ ClientWaits' /\ ServerHasChecked'
    BY <1>0, <1>4, <1>7, <2>1, <2>2
       DEF IInv, WritesDoNotMix, OnlyValidated, Unmet, ClientWaits, ServerHasChecked
  <2>5. ClientHasAnswered' /\ ServerWaits' /\ NonceUnsent' /\ ClientSpeaks'
    BY <1>0, <1>4, <1>6, <2>1, <2>2
       DEF IInv, ClientHasAnswered, ServerWaits, NonceUnsent, ClientSpeaks
  <2> QED
    BY <2>3, <2>4, <2>5 DEF IInv
<1>8. CASE reading["client"] = "validation"
  <2>1. PICK out \in Obfuscate(in) :
           /\ writes' = [writes EXCEPT !["client"] = Append(@, out)]
           /\ reading' = [reading EXCEPT !["client"] = "nothing"]
           /\ UNCHANGED <<sock, valid, incoming>>
    BY <1>0, <1>8 DEF GiveAnswer, StartWrite
  <2>2. out \in Item /\ out # "message"
    BY DEF Obfuscate, Item
  <2>3. ToServer = <<>> /\ done["client"] = <<>> /\ ~valid["client"]
    BY <1>8 DEF IInv, ClientWaits
  <2>4. stream["server"] = <<>> /\ writes["client"] = <<>>
    BY <2>3, Typed, JoinIsSeq DEF ToServer
  <2>5. writes'["client"] = <<out>> /\ ToServer' = <<out>>
    BY <1>1, <2>1, <2>2, <2>4 DEF ToServer, IInv, TypeOK, End
  <2>6. /\ Greeting(ToServer') /\ Len(writes'["client"]) = 1
        /\ \A i \in 1 .. Len(ToServer') : ToServer'[i] # "message"
        /\ Plain(<<>>)
    BY <2>2, <2>5, GreetingStarts DEF Plain
  <2>7. Plain(writes["server"])
    BY <1>0, <1>1, <1>2, <1>6, Typed, JoinRead, SecondPartIsPlain DEF ToClient
  <2>8. reading'["client"] = "nothing" /\ reading'["server"] = reading["server"]
        /\ reading["server"] # "message"
    BY <1>8, <2>1 DEF IInv, TypeOK, ServerHasChecked, End
  <2>9. TypeOK'
    <3>1. Append(writes["client"], out) \in Seq(Item)
      BY <2>2, Typed
    <3>2. writes' \in [End -> Seq(Item)]
      BY <2>1, <3>1 DEF IInv, TypeOK
    <3> QED
      BY <1>0, <1>3, <2>1, <3>2 DEF IInv, TypeOK
  <2>10. WritesDoNotMix'
    <3>1. Len(writes["server"]) <= 1 /\ Len(writes'["client"]) <= 1
      BY <2>6 DEF IInv, WritesDoNotMix, End
    <3> QED
      BY <1>1, <3>1 DEF WritesDoNotMix, End
  <2>11. OnlyValidated' /\ Unmet' /\ ClientWaits' /\ ServerHasChecked'
    BY <1>0, <1>4, <2>1, <2>8 DEF IInv, OnlyValidated, Unmet, ClientWaits, ServerHasChecked
  <2>12. ClientHasAnswered' /\ ServerWaits' /\ NonceUnsent'
    BY <1>0, <1>1, <1>4, <1>6, <2>1, <2>6, <2>7
       DEF IInv, ClientHasAnswered, ServerWaits, NonceUnsent
  <2>13. ClientSpeaks'
    BY <1>0, <2>1, <2>3, <2>6 DEF IInv, ClientSpeaks
  <2> QED
    BY <2>9, <2>10, <2>11, <2>12, <2>13 DEF IInv
<1> QED
  BY <1>0, <1>7, <1>8 DEF IInv, TypeOK, End

(* Noise in the place of a handshake value is still no message. *)
LEMMA GarbleKeepsIInv ==
    ASSUME IInv, NEW e \in End, Garble(e)
    PROVE  IInv'
<1>0. /\ stream[e] # <<>> /\ Head(stream[e]) # "message"
      /\ stream' = [stream EXCEPT ![e][1] = "noise"]
  BY DEF Garble
<1>same. /\ UNCHANGED <<main, dialled, sock, reading, writes, done, valid, incoming, sent>>
      /\ errors' \in 0 .. MaxErrors
  BY BoundAssumption DEF Garble, IInv, TypeOK
<1> DEFINE r == [stream[e] EXCEPT ![1] = "noise"]
<1>1. stream[e][1] # "message" /\ stream' = [stream EXCEPT ![e] = r]
  BY <1>0, Typed, JoinRead DEF End
<1>2. r \in Seq(Item)
  BY <1>0, <1>1, Typed, JoinGarble DEF End
<1>3. CASE e = "server"
  <2>1. ToServer' = r \o writes["client"] /\ ToClient' = ToClient
    BY <1>same, <1>1, <1>3 DEF IInv, TypeOK, ToServer, ToClient, End
  <2>2. /\ ToServer # <<>> /\ ~Plain(ToServer)
        /\ Greeting(ToServer) => Greeting(ToServer')
        /\ \A i \in 1 .. Len(ToServer') :
              i \in 1 .. Len(ToServer) /\ (ToServer'[i] = "message" => ToServer[i] = "message")
    <3>1. /\ stream["server"] \in Seq(Item) /\ writes["client"] \in Seq(Item)
          /\ stream["server"] # <<>> /\ stream["server"][1] # "message"
          /\ r = [stream["server"] EXCEPT ![1] = "noise"]
      BY <1>0, <1>1, <1>3, Typed
    <3>2. LET old == stream["server"] \o writes["client"]
              new == [stream["server"] EXCEPT ![1] = "noise"] \o writes["client"]
          IN  /\ old # <<>> /\ ~Plain(old)
              /\ Greeting(old) => Greeting(new)
              /\ \A i \in 1 .. Len(new) :
                    i \in 1 .. Len(old) /\ (new[i] = "message" => old[i] = "message")
      BY <3>1, JoinGarble, Zenon
    <3> QED
      BY <2>1, <3>1, <3>2, Zenon DEF ToServer
  <2> HIDE DEF r
  <2>3. TypeOK'
    <3>1. stream' \in [End -> Seq(Item)]
      BY <1>1, <1>2 DEF IInv, TypeOK
    <3> QED
      BY <1>same, <3>1 DEF IInv, TypeOK
  <2>4. WritesDoNotMix' /\ OnlyValidated' /\ Unmet' /\ ClientWaits' /\ ServerHasChecked'
    BY <1>same, <2>1, <2>2 DEF IInv, WritesDoNotMix, OnlyValidated, Unmet, ClientWaits, ServerHasChecked
  <2>5. ClientHasAnswered' /\ ServerWaits' /\ NonceUnsent' /\ ClientSpeaks'
    BY <1>same, <2>1, <2>2 DEF IInv, ClientHasAnswered, ServerWaits, NonceUnsent, ClientSpeaks
  <2> QED
    BY <2>3, <2>4, <2>5 DEF IInv
<1>4. CASE e = "client"
  <2>1. ToClient' = r \o writes["server"] /\ ToServer' = ToServer
    BY <1>same, <1>1, <1>4 DEF IInv, TypeOK, ToServer, ToClient, End
  <2>2. /\ ToClient # <<>> /\ ~Plain(ToClient)
        /\ Greeting(ToClient) => Greeting(ToClient')
    BY <1>0, <1>1, <1>4, <2>1, Typed, JoinGarble DEF ToClient
  <2> HIDE DEF r
  <2>3. TypeOK'
    <3>1. stream' \in [End -> Seq(Item)]
      BY <1>1, <1>2 DEF IInv, TypeOK
    <3> QED
      BY <1>same, <3>1 DEF IInv, TypeOK
  <2>4. WritesDoNotMix' /\ OnlyValidated' /\ Unmet' /\ ClientWaits' /\ ServerHasChecked'
    BY <1>same, <2>1, <2>2 DEF IInv, WritesDoNotMix, OnlyValidated, Unmet, ClientWaits, ServerHasChecked
  <2>5. ClientHasAnswered' /\ ServerWaits' /\ NonceUnsent' /\ ClientSpeaks'
    BY <1>same, <2>1, <2>2 DEF IInv, ClientHasAnswered, ServerWaits, NonceUnsent, ClientSpeaks
  <2> QED
    BY <2>3, <2>4, <2>5 DEF IInv
<1> QED
  BY <1>3, <1>4 DEF End

-----------------------------------------------------------------------------
(* The theorems. *)

LEMMA NextKeepsIInv == IInv /\ [Next]_vars => IInv'
<1> SUFFICES ASSUME IInv, [Next]_vars PROVE IInv'
  OBVIOUS
<1>1. ASSUME NEW e \in End, ReadCompleted(e) PROVE IInv'
  BY <1>1, ServerReadKeepsIInv, ClientReadKeepsIInv DEF End
<1>2. ASSUME NEW e \in End, Transmit(e) \/ WriteCompleted(e) \/ EndOfStream(e) PROVE IInv'
  BY <1>2, TransmitKeepsIInv, WriteCompletedKeepsIInv, CloseKeepsIInv
<1>3. ASSUME NEW e \in End, SendMessage(e) \/ Break(e) \/ Garble(e) PROVE IInv'
  BY <1>3, SendMessageKeepsIInv, CloseKeepsIInv, GarbleKeepsIInv
<1>4. ASSUME ConnectDone \/ Accept \/ Pass \/ ConnectError PROVE IInv'
  BY <1>4, ConnectDoneKeepsIInv, AcceptKeepsIInv, MainKeepsIInv
<1>5. ASSUME UNCHANGED vars PROVE IInv'
  BY <1>5, StutterKeepsIInv
<1> QED
  BY <1>1, <1>2, <1>3, <1>4, <1>5 DEF Next, Progress

(* What is under way in each direction is what its reader expects. *)
THEOREM IInvHolds == Spec => []IInv
  BY InitIInv, NextKeepsIInv, PTL DEF Spec

(* Every variable keeps its type: queues of items, states by name. *)
THEOREM TypeCorrect == Spec => []TypeOK
<1>1. IInv => TypeOK
  BY DEF IInv
<1> QED
  BY <1>1, IInvHolds, PTL

(* readValidation and readHeader meet what they can read, although the     *)
(* client goes on to messages before the server has looked at its answer.  *)
THEOREM StepsAgree == Spec => []InStep
<1>1. IInv => InStep
  <2> SUFFICES ASSUME IInv, NEW e \in End, reading[e] # "nothing", stream[e] # <<>>
               PROVE  reading[e] = "message" <=> Head(stream[e]) = "message"
    BY DEF InStep
  <2>1. CASE e = "server"
    <3>1. ToServer # <<>> /\ ToServer[1] = Head(stream[e])
      BY <2>1, Typed, JoinRead DEF ToServer
    <3>2. 1 \in 1 .. Len(ToServer)
      BY <3>1, Typed
    <3> QED
      BY <2>1, <3>1, <3>2 DEF IInv, TypeOK, End, ServerWaits, ServerHasChecked, Plain, Greeting
  <2>2. CASE e = "client"
    <3>1. ToClient # <<>> /\ ToClient[1] = Head(stream[e])
      BY <2>2, Typed, JoinRead DEF ToClient
    <3>2. 1 \in 1 .. Len(ToClient)
      BY <3>1, Typed
    <3> QED
      BY <2>2, <3>1, <3>2 DEF IInv, TypeOK, End, Unmet, ClientWaits, ClientHasAnswered, Plain, Greeting
  <2> QED
    BY <2>1, <2>2 DEF End
<1> QED
  BY <1>1, IInvHolds, PTL

(* writeValidation never writes to the socket beside writeHeader. *)
THEOREM WritesStayApart == Spec => []WritesDoNotMix
<1>1. IInv => WritesDoNotMix
  BY DEF IInv
<1> QED
  BY <1>1, IInvHolds, PTL

(* Before the server has compared the client's answer with the one it      *)
(* expects, no message of the client reaches the server's queue.           *)
THEOREM OnlyValidatedAreHeard == Spec => []OnlyValidated
<1>1. IInv => OnlyValidated
  BY DEF IInv
<1> QED
  BY <1>1, IInvHolds, PTL

=============================================================================
