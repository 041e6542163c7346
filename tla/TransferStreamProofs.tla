------------------------- MODULE TransferStreamProofs -------------------------
(***************************************************************************)
(* What a receiver writes to its file, for every set of senders, receivers,*)
(* phrases and files and under every fault: an initial part of what one    *)
(* sender sent, all of it when the receiver reports success.               *)
(*                                                                         *)
(* The chunks between the two files are numbered.  What is in the          *)
(* receiver's file ends where its inbox begins, the inbox where the        *)
(* server's queue begins, and so on back to the sender: each of the four   *)
(* queues between them holds a run of successive numbers.  A connection    *)
(* that breaks cuts the chain, and what is behind the cut is not delivered.*)
(***************************************************************************)
EXTENDS TransferRequestProofs

-----------------------------------------------------------------------------
(* Runs of successive numbers; a 0 stands for what has no number.          *)

Rising(f, n, a) ==
    \A i \in 1 .. n : f[i] # 0 =>
        /\ f[i] > a
        /\ \A k \in a + 1 .. f[i] - 1 : \E j \in 1 .. i - 1 : f[j] = k
        /\ \A j \in i + 1 .. n : f[j] # 0 => f[i] < f[j]

Full(f, n, a, b) == \A k \in a + 1 .. b : \E i \in 1 .. n : f[i] = k

(* The numbers in f are those from a + 1 to b, one after the other. *)
Run(f, n, a, b) ==
    /\ Rising(f, n, a) /\ Full(f, n, a, b)
    /\ a <= b
    /\ \A i \in 1 .. n : f[i] <= b

LEMMA EmptyRun ==
    ASSUME NEW a \in Nat, NEW f, NEW n \in Nat, \A i \in 1 .. n : f[i] = 0
    PROVE  Run(f, n, a, a) /\ \A b : Rising(f, n, b)
  BY DEF Run, Rising, Full

LEMMA RisingPrefix ==
    ASSUME NEW n \in Nat, NEW f \in [1 .. n -> Int], NEW a \in Nat, Rising(f, n, a),
           NEW m \in 0 .. n, NEW g \in [1 .. m -> Int], \A i \in 1 .. m : g[i] = f[i]
    PROVE  Rising(g, m, a)
<1> SUFFICES ASSUME NEW i \in 1 .. m, g[i] # 0
             PROVE  /\ g[i] > a
                    /\ \A k \in a + 1 .. g[i] - 1 : \E j \in 1 .. i - 1 : g[j] = k
                    /\ \A j \in i + 1 .. m : g[j] # 0 => g[i] < g[j]
  BY DEF Rising
<1>1. i \in 1 .. n /\ f[i] = g[i] /\ f[i] # 0
  OBVIOUS
<1>2. /\ f[i] > a
      /\ \A k \in a + 1 .. f[i] - 1 : \E j \in 1 .. i - 1 : f[j] = k
      /\ \A j \in i + 1 .. n : f[j] # 0 => f[i] < f[j]
  BY <1>1 DEF Rising
<1>3. \A j \in 1 .. i - 1 : g[j] = f[j]
  OBVIOUS
<1>4. \A j \in i + 1 .. m : j \in i + 1 .. n /\ g[j] = f[j]
  OBVIOUS
<1> QED
  BY <1>1, <1>2, <1>3, <1>4

(* One more at the end. *)
LEMMA RisingMore ==
    ASSUME NEW n \in Nat, NEW f \in [1 .. n -> Int], NEW a \in Nat, Rising(f, n, a),
           NEW g \in [1 .. n + 1 -> Int], \A i \in 1 .. n : g[i] = f[i],
           \/ g[n + 1] = 0
           \/ /\ g[n + 1] > a /\ \A i \in 1 .. n : f[i] < g[n + 1]
              /\ Full(f, n, a, g[n + 1] - 1)
    PROVE  Rising(g, n + 1, a)
<1> SUFFICES ASSUME NEW i \in 1 .. n + 1, g[i] # 0
             PROVE  /\ g[i] > a
                    /\ \A k \in a + 1 .. g[i] - 1 : \E j \in 1 .. i - 1 : g[j] = k
                    /\ \A j \in i + 1 .. n + 1 : g[j] # 0 => g[i] < g[j]
  BY DEF Rising
<1>1. CASE i = n + 1
  <2>1. \A k \in a + 1 .. g[i] - 1 : \E j \in 1 .. n : f[j] = k
    BY <1>1 DEF Full
  <2> QED
    BY <1>1, <2>1
<1>2. CASE i \in 1 .. n
  <2>1. /\ f[i] > a /\ g[i] = f[i]
        /\ \A k \in a + 1 .. f[i] - 1 : \E j \in 1 .. i - 1 : f[j] = k
        /\ \A j \in i + 1 .. n : f[j] # 0 => f[i] < f[j]
    BY <1>2 DEF Rising
  <2>2. ASSUME NEW j \in i + 1 .. n + 1, g[j] # 0
        PROVE  g[i] < g[j]
    <3>1. CASE j \in i + 1 .. n
      <4>1. g[j] = f[j]
        BY <1>2, <3>1
      <4> QED
        BY <2>1, <2>2, <3>1, <4>1
    <3>2. CASE j = n + 1
      <4>1. f[i] < g[n + 1]
        BY <1>2, <2>2, <3>2
      <4> QED
        BY <2>1, <3>2, <4>1
    <3> QED
      BY <1>2, <3>1, <3>2
  <2> QED
    BY <1>2, <2>1, <2>2
<1> QED
  BY <1>1, <1>2

LEMMA RunMore ==
    ASSUME NEW n \in Nat, NEW f \in [1 .. n -> Int], NEW a \in Nat, NEW b \in Nat,
           Run(f, n, a, b),
           NEW g \in [1 .. n + 1 -> Int], \A i \in 1 .. n : g[i] = f[i]
    PROVE  /\ g[n + 1] = 0 => Run(g, n + 1, a, b)
           /\ g[n + 1] = b + 1 => Run(g, n + 1, a, b + 1)
<1>1. ASSUME g[n + 1] = 0 PROVE Run(g, n + 1, a, b)
  <2>1. Rising(g, n + 1, a)
    BY <1>1, RisingMore DEF Run
  <2>2. Full(g, n + 1, a, b)
    BY DEF Run, Full
  <2> QED
    BY <1>1, <2>1, <2>2 DEF Run
<1>2. ASSUME g[n + 1] = b + 1 PROVE Run(g, n + 1, a, b + 1)
  <2>1. Rising(g, n + 1, a)
    <3>1. g[n + 1] > a /\ (\A i \in 1 .. n : f[i] < g[n + 1])
      BY <1>2 DEF Run
    <3>2. Full(f, n, a, g[n + 1] - 1)
      BY <1>2 DEF Run
    <3> QED
      BY <3>1, <3>2, RisingMore DEF Run
  <2>2. Full(g, n + 1, a, b + 1)
    <3> SUFFICES ASSUME NEW k \in a + 1 .. b + 1
                 PROVE  \E i \in 1 .. n + 1 : g[i] = k
      BY DEF Full
    <3>1. CASE k = b + 1
      BY <1>2, <3>1
    <3>2. CASE k \in a + 1 .. b
      BY <3>2 DEF Run, Full
    <3> QED
      BY <3>1, <3>2
  <2> QED
    BY <1>2, <2>1, <2>2 DEF Run
<1> QED
  BY <1>1, <1>2

(* The first one taken off. *)
LEMMA RisingLess ==
    ASSUME NEW n \in Nat \ {0}, NEW f \in [1 .. n -> Int], NEW a \in Nat, Rising(f, n, a),
           NEW g \in [1 .. n - 1 -> Int], \A i \in 1 .. n - 1 : g[i] = f[i + 1]
    PROVE  /\ f[1] = 0 => Rising(g, n - 1, a) /\ \A b \in Nat : Full(f, n, a, b) => Full(g, n - 1, a, b)
           /\ f[1] # 0 => /\ f[1] = a + 1 /\ Rising(g, n - 1, a + 1)
                          /\ \A b \in Nat : Full(f, n, a, b) => Full(g, n - 1, a + 1, b)
<1>1. f[1] # 0 => f[1] = a + 1
  <2> SUFFICES ASSUME f[1] # 0 PROVE f[1] = a + 1
    OBVIOUS
  <2>1. f[1] > a /\ \A k \in a + 1 .. f[1] - 1 : \E j \in 1 .. 0 : f[j] = k
    BY DEF Rising
  <2>2. f[1] \in Int /\ (f[1] > a + 1 => a + 1 \in a + 1 .. f[1] - 1)
    OBVIOUS
  <2> QED
    BY <2>1, <2>2
<1> DEFINE c == IF f[1] = 0 THEN a ELSE a + 1
<1>2. Rising(g, n - 1, c)
  <2> SUFFICES ASSUME NEW i \in 1 .. n - 1, g[i] # 0
               PROVE  /\ g[i] > c
                      /\ \A k \in c + 1 .. g[i] - 1 : \E j \in 1 .. i - 1 : g[j] = k
                      /\ \A j \in i + 1 .. n - 1 : g[j] # 0 => g[i] < g[j]
    BY DEF Rising
  <2>1. /\ i + 1 \in 1 .. n /\ f[i + 1] = g[i] /\ f[i + 1] # 0
        /\ 1 \in 1 .. n /\ i + 1 \in 2 .. n
    OBVIOUS
  <2>2. /\ f[i + 1] > a
        /\ \A k \in a + 1 .. f[i + 1] - 1 : \E j \in 1 .. i : f[j] = k
        /\ \A j \in i + 2 .. n : f[j] # 0 => f[i + 1] < f[j]
    BY <2>1 DEF Rising
  <2>3. f[1] # 0 => f[1] < f[i + 1]
    BY <2>1 DEF Rising
  <2>4. g[i] > c
    BY <1>1, <2>1, <2>2, <2>3
  <2>5. ASSUME NEW k \in c + 1 .. g[i] - 1 PROVE \E j \in 1 .. i - 1 : g[j] = k
    <3>1. k \in a + 1 .. f[i + 1] - 1 /\ k # f[1]
      BY <1>1, <2>1
    <3>2. PICK j \in 1 .. i : f[j] = k
      BY <2>2, <3>1
    <3>3. j - 1 \in 1 .. i - 1 /\ g[j - 1] = f[j]
      BY <3>1, <3>2
    <3> QED
      BY <3>2, <3>3
  <2>6. ASSUME NEW j \in i + 1 .. n - 1, g[j] # 0 PROVE g[i] < g[j]
    <3>1. j + 1 \in i + 2 .. n /\ g[j] = f[j + 1]
      OBVIOUS
    <3> QED
      BY <2>1, <2>2, <2>6, <3>1
  <2> QED
    BY <2>4, <2>5, <2>6
<1>3. ASSUME NEW b \in Nat, Full(f, n, a, b) PROVE Full(g, n - 1, c, b)
  <2> SUFFICES ASSUME NEW k \in c + 1 .. b PROVE \E i \in 1 .. n - 1 : g[i] = k
    BY DEF Full
  <2>1. k \in a + 1 .. b /\ k # f[1]
    BY <1>1
  <2>2. PICK i \in 1 .. n : f[i] = k
    BY <1>3, <2>1 DEF Full
  <2>3. i - 1 \in 1 .. n - 1 /\ g[i - 1] = f[i]
    BY <2>1, <2>2
  <2> QED
    BY <2>2, <2>3
<1> QED
  BY <1>1, <1>2, <1>3

LEMMA RunLess ==
    ASSUME NEW n \in Nat \ {0}, NEW f \in [1 .. n -> Int], NEW a \in Nat, NEW b \in Nat,
           Run(f, n, a, b),
           NEW g \in [1 .. n - 1 -> Int], \A i \in 1 .. n - 1 : g[i] = f[i + 1]
    PROVE  /\ f[1] = 0 => Run(g, n - 1, a, b)
           /\ f[1] # 0 => f[1] = a + 1 /\ Run(g, n - 1, a + 1, b)
<1>1. \A i \in 1 .. n - 1 : g[i] <= b
  BY DEF Run
<1>2. Rising(f, n, a) /\ Full(f, n, a, b) /\ a <= b /\ f[1] <= b
  BY DEF Run
<1>3. /\ f[1] = 0 => Rising(g, n - 1, a) /\ Full(g, n - 1, a, b)
      /\ f[1] # 0 => f[1] = a + 1 /\ Rising(g, n - 1, a + 1) /\ Full(g, n - 1, a + 1, b)
  <2>1. /\ f[1] = 0 => /\ Rising(g, n - 1, a)
                       /\ \A c \in Nat : Full(f, n, a, c) => Full(g, n - 1, a, c)
        /\ f[1] # 0 => /\ f[1] = a + 1 /\ Rising(g, n - 1, a + 1)
                       /\ \A c \in Nat : Full(f, n, a, c) => Full(g, n - 1, a + 1, c)
    BY <1>2, RisingLess, Zenon
  <2> QED
    BY <1>2, <2>1, Zenon
<1>4. f[1] # 0 => a + 1 <= b
  BY <1>2, <1>3
<1> QED
  BY <1>1, <1>2, <1>3, <1>4 DEF Run

-----------------------------------------------------------------------------
(* The numbers of a sender's messages. *)

Marks == [file : File, sent : Nat, ended : BOOLEAN]

(* How far a sender is, and the last number it has used. *)
Mark(s) == [file |-> FileOf[s], sent |-> sent[s], ended |-> ended[s]]
Count(k) == IF k.ended THEN k.sent + 1 ELSE k.sent

(* A chunk's part, or the number after the last chunk for FinalChunk.  A   *)
(* chunk that the sender has not sent has no business in its queues.       *)
Tag(k, m) ==
    IF m.id = "Chunk" /\ m.body.file = k.file /\ m.body.part \in 1 .. k.sent THEN m.body.part
    ELSE IF m.id = "FinalChunk" /\ k.ended THEN k.sent + 1
    ELSE IF IsData(m) THEN -1 ELSE 0

Tags(k, q) == [i \in 1 .. Len(q) |-> Tag(k, q[i])]
TagsOf(k, s, q) == [i \in 1 .. Len(q) |-> IF q[i].remote = s THEN Tag(k, q[i].msg) ELSE 0]

(* A queue, or what of the main thread's queue is s's, is a run.           *)
Carries(k, q, a, b) == Run(Tags(k, q), Len(q), a, b)
CarriesOf(k, s, q, a, b) == Run(TagsOf(k, s, q), Len(q), a, b)

(* A queue that may have lost its end, and one that has not.               *)
Follows(k, q, a) == Rising(Tags(k, q), Len(q), a)
Whole(k, q, a) == Full(Tags(k, q), Len(q), a, Count(k))

LEMMA TagType ==
    ASSUME NEW k \in Marks, NEW m
    PROVE  /\ Tag(k, m) \in Int /\ Tag(k, m) <= Count(k)
           /\ Tag(k, m) # 0 <=> IsData(m)
  BY DEF Tag, Marks, Count, IsData

LEMMA TagsType ==
    ASSUME NEW k \in Marks, NEW S, NEW q \in Seq(S)
    PROVE  /\ Tags(k, q) \in [1 .. Len(q) -> Int]
           /\ \A s : TagsOf(k, s, q) \in [1 .. Len(q) -> Int]
           /\ Len(q) \in Nat
  BY TagType DEF Tags, TagsOf

LEMMA AppendFacts ==
    ASSUME NEW S, NEW q \in Seq(S), NEW m \in S
    PROVE  /\ Append(q, m) \in Seq(S) /\ Len(Append(q, m)) = Len(q) + 1
           /\ \A i \in 1 .. Len(q) : Append(q, m)[i] = q[i]
           /\ Append(q, m)[Len(q) + 1] = m
  OBVIOUS

LEMMA CarriesAppend ==
    ASSUME NEW k \in Marks, NEW S, NEW q \in Seq(S), NEW m \in S, NEW a \in Nat, NEW b \in Nat,
           Carries(k, q, a, b)
    PROVE  /\ Tag(k, m) = 0 => Carries(k, Append(q, m), a, b)
           /\ Tag(k, m) = b + 1 => Carries(k, Append(q, m), a, b + 1)
<1>1. PICK q2 : q2 = Append(q, m)
  OBVIOUS
<1>2. /\ q2 \in Seq(S) /\ Len(q2) = Len(q) + 1 /\ Len(q) \in Nat
      /\ \A i \in 1 .. Len(q) : q2[i] = q[i]
      /\ q2[Len(q) + 1] = m
  BY <1>1, AppendFacts
<1>3. /\ Tags(k, q) \in [1 .. Len(q) -> Int] /\ Tags(k, q2) \in [1 .. Len(q) + 1 -> Int]
  BY <1>2, TagsType
<1>4. /\ \A i \in 1 .. Len(q) : Tags(k, q2)[i] = Tags(k, q)[i]
      /\ Tags(k, q2)[Len(q) + 1] = Tag(k, m)
  BY <1>2 DEF Tags
<1> QED
  BY <1>1, <1>2, <1>3, <1>4, RunMore DEF Carries

LEMMA CarriesTail ==
    ASSUME NEW k \in Marks, NEW S, NEW q \in Seq(S), q # <<>>, NEW a \in Nat, NEW b \in Nat,
           Carries(k, q, a, b)
    PROVE  /\ Tag(k, Head(q)) = 0 => Carries(k, Tail(q), a, b)
           /\ Tag(k, Head(q)) # 0 => Tag(k, Head(q)) = a + 1 /\ Carries(k, Tail(q), a + 1, b)
<1>1. PICK q2, m : q2 = Tail(q) /\ m = Head(q)
  OBVIOUS
<1>2. /\ q2 \in Seq(S) /\ Len(q2) = Len(q) - 1 /\ Len(q) \in Nat \ {0}
      /\ \A i \in 1 .. Len(q) - 1 : q2[i] = q[i + 1]
      /\ q[1] = m
  BY <1>1, HeadTail
<1>3. /\ Tags(k, q) \in [1 .. Len(q) -> Int] /\ Tags(k, q2) \in [1 .. Len(q) - 1 -> Int]
  BY <1>2, TagsType
<1>4. /\ \A i \in 1 .. Len(q) - 1 : Tags(k, q2)[i] = Tags(k, q)[i + 1]
      /\ Tags(k, q)[1] = Tag(k, m)
  BY <1>2 DEF Tags
<1>5. /\ Tags(k, q)[1] = 0 => Run(Tags(k, q2), Len(q) - 1, a, b)
      /\ Tags(k, q)[1] # 0 => Tags(k, q)[1] = a + 1 /\ Run(Tags(k, q2), Len(q) - 1, a + 1, b)
  BY <1>2, <1>3, <1>4, RunLess DEF Carries
<1> QED
  BY <1>1, <1>2, <1>4, <1>5 DEF Carries

LEMMA CarriesOfAppend ==
    ASSUME NEW k \in Marks, NEW s, NEW S, NEW q \in Seq(S), NEW e \in S,
           NEW a \in Nat, NEW b \in Nat, CarriesOf(k, s, q, a, b)
    PROVE  /\ e.remote # s \/ Tag(k, e.msg) = 0 => CarriesOf(k, s, Append(q, e), a, b)
           /\ e.remote = s /\ Tag(k, e.msg) = b + 1 => CarriesOf(k, s, Append(q, e), a, b + 1)
<1>1. PICK q2 : q2 = Append(q, e)
  OBVIOUS
<1>2. /\ q2 \in Seq(S) /\ Len(q2) = Len(q) + 1 /\ Len(q) \in Nat
      /\ \A i \in 1 .. Len(q) : q2[i] = q[i]
      /\ q2[Len(q) + 1] = e
  BY <1>1, AppendFacts
<1>3. /\ TagsOf(k, s, q) \in [1 .. Len(q) -> Int]
      /\ TagsOf(k, s, q2) \in [1 .. Len(q) + 1 -> Int]
  BY <1>2, TagsType
<1>4. /\ \A i \in 1 .. Len(q) : TagsOf(k, s, q2)[i] = TagsOf(k, s, q)[i]
      /\ TagsOf(k, s, q2)[Len(q) + 1] = IF e.remote = s THEN Tag(k, e.msg) ELSE 0
  BY <1>2 DEF TagsOf
<1>5. /\ TagsOf(k, s, q2)[Len(q) + 1] = 0 => Run(TagsOf(k, s, q2), Len(q) + 1, a, b)
      /\ TagsOf(k, s, q2)[Len(q) + 1] = b + 1 => Run(TagsOf(k, s, q2), Len(q) + 1, a, b + 1)
  BY <1>2, <1>3, <1>4, RunMore DEF CarriesOf
<1> QED
  BY <1>1, <1>2, <1>4, <1>5 DEF CarriesOf

LEMMA CarriesOfTail ==
    ASSUME NEW k \in Marks, NEW s, NEW S, NEW q \in Seq(S), q # <<>>, NEW e, e = Head(q),
           NEW a \in Nat, NEW b \in Nat, CarriesOf(k, s, q, a, b)
    PROVE  /\ e.remote # s \/ Tag(k, e.msg) = 0 => CarriesOf(k, s, Tail(q), a, b)
           /\ e.remote = s /\ Tag(k, e.msg) # 0 =>
                 Tag(k, e.msg) = a + 1 /\ CarriesOf(k, s, Tail(q), a + 1, b)
<1>1. PICK q2 : q2 = Tail(q)
  OBVIOUS
<1>2. /\ q2 \in Seq(S) /\ Len(q2) = Len(q) - 1 /\ Len(q) \in Nat \ {0}
      /\ \A i \in 1 .. Len(q) - 1 : q2[i] = q[i + 1]
      /\ q[1] = e
  BY <1>1, HeadTail
<1>3. /\ TagsOf(k, s, q) \in [1 .. Len(q) -> Int]
      /\ TagsOf(k, s, q2) \in [1 .. Len(q) - 1 -> Int]
  BY <1>2, TagsType
<1>4. /\ \A i \in 1 .. Len(q) - 1 : TagsOf(k, s, q2)[i] = TagsOf(k, s, q)[i + 1]
      /\ TagsOf(k, s, q)[1] = IF e.remote = s THEN Tag(k, e.msg) ELSE 0
  BY <1>2 DEF TagsOf
<1>5. /\ TagsOf(k, s, q)[1] = 0 => Run(TagsOf(k, s, q2), Len(q) - 1, a, b)
      /\ TagsOf(k, s, q)[1] # 0 =>
            TagsOf(k, s, q)[1] = a + 1 /\ Run(TagsOf(k, s, q2), Len(q) - 1, a + 1, b)
  BY <1>2, <1>3, <1>4, RunLess DEF CarriesOf
<1> QED
  BY <1>1, <1>2, <1>4, <1>5 DEF CarriesOf

LEMMA CarriesOfNext ==
    ASSUME NEW k \in Marks, NEW S, NEW q \in Seq(S), q # <<>>, NEW e, e = Head(q),
           Tag(k, e.msg) # 0, NEW a \in Nat, NEW b \in Nat, CarriesOf(k, e.remote, q, a, b)
    PROVE  Tag(k, e.msg) = a + 1 /\ CarriesOf(k, e.remote, Tail(q), a + 1, b)
  BY CarriesOfTail

(* A queue loses its end. *)
LEMMA FollowsPrefix ==
    ASSUME NEW k \in Marks, NEW S, NEW q \in Seq(S), NEW a \in Nat, Follows(k, q, a),
           NEW q2 \in Seq(S), Len(q2) <= Len(q), \A i \in 1 .. Len(q2) : q2[i] = q[i]
    PROVE  Follows(k, q2, a)
<1>1. /\ Tags(k, q) \in [1 .. Len(q) -> Int] /\ Tags(k, q2) \in [1 .. Len(q2) -> Int]
      /\ Len(q) \in Nat /\ Len(q2) \in 0 .. Len(q)
  BY TagsType
<1>2. \A i \in 1 .. Len(q2) : Tags(k, q2)[i] = Tags(k, q)[i]
  BY <1>1 DEF Tags
<1> QED
  BY <1>1, <1>2, RisingPrefix DEF Follows

LEMMA FollowsTail ==
    ASSUME NEW k \in Marks, NEW S, NEW q \in Seq(S), q # <<>>, NEW a \in Nat, Follows(k, q, a)
    PROVE  /\ Tag(k, Head(q)) = 0 => /\ Follows(k, Tail(q), a)
                                     /\ Whole(k, q, a) => Whole(k, Tail(q), a)
           /\ Tag(k, Head(q)) # 0 => /\ Tag(k, Head(q)) = a + 1 /\ Follows(k, Tail(q), a + 1)
                                     /\ Whole(k, q, a) => Whole(k, Tail(q), a + 1)
<1>1. PICK q2, m : q2 = Tail(q) /\ m = Head(q)
  OBVIOUS
<1>2. /\ q2 \in Seq(S) /\ Len(q2) = Len(q) - 1 /\ Len(q) \in Nat \ {0}
      /\ \A i \in 1 .. Len(q) - 1 : q2[i] = q[i + 1]
      /\ q[1] = m
  BY <1>1, HeadTail
<1>3. /\ Tags(k, q) \in [1 .. Len(q) -> Int] /\ Tags(k, q2) \in [1 .. Len(q) - 1 -> Int]
  BY <1>2, TagsType
<1>4. /\ \A i \in 1 .. Len(q) - 1 : Tags(k, q2)[i] = Tags(k, q)[i + 1]
      /\ Tags(k, q)[1] = Tag(k, m)
  BY <1>2 DEF Tags
<1>5. Count(k) \in Nat
  BY DEF Count, Marks
<1>6. /\ Tags(k, q)[1] = 0 =>
            /\ Rising(Tags(k, q2), Len(q) - 1, a)
            /\ Full(Tags(k, q), Len(q), a, Count(k)) => Full(Tags(k, q2), Len(q) - 1, a, Count(k))
      /\ Tags(k, q)[1] # 0 =>
            /\ Tags(k, q)[1] = a + 1 /\ Rising(Tags(k, q2), Len(q) - 1, a + 1)
            /\ Full(Tags(k, q), Len(q), a, Count(k)) =>
                  Full(Tags(k, q2), Len(q) - 1, a + 1, Count(k))
  <2>1. PICK f, g : f = Tags(k, q) /\ g = Tags(k, q2)
    OBVIOUS
  <2>2. PICK n : n = Len(q)
    OBVIOUS
  <2>3. /\ n \in Nat \ {0}
        /\ f \in [1 .. n -> Int] /\ g \in [1 .. n - 1 -> Int]
        /\ \A i \in 1 .. n - 1 : g[i] = f[i + 1]
        /\ Rising(f, n, a)
    BY <1>2, <1>3, <1>4, <2>1, <2>2 DEF Follows
  <2>4. /\ f[1] = 0 => /\ Rising(g, n - 1, a)
                       /\ \A b \in Nat : Full(f, n, a, b) => Full(g, n - 1, a, b)
        /\ f[1] # 0 => /\ f[1] = a + 1 /\ Rising(g, n - 1, a + 1)
                       /\ \A b \in Nat : Full(f, n, a, b) => Full(g, n - 1, a + 1, b)
    BY <2>3, RisingLess
  <2> QED
    BY <1>5, <2>1, <2>2, <2>4
<1> QED
  BY <1>1, <1>2, <1>4, <1>6 DEF Follows, Whole

(* The next one is sent. *)
LEMMA FollowsAppend ==
    ASSUME NEW k \in Marks, NEW S, NEW q \in Seq(S), NEW a \in Nat, Follows(k, q, a),
           NEW m \in S, Tag(k, m) = Count(k), Tag(k, m) > a,
           \A i \in 1 .. Len(q) : Tag(k, q[i]) < Tag(k, m),
           Full(Tags(k, q), Len(q), a, Count(k) - 1)
    PROVE  Follows(k, Append(q, m), a) /\ Whole(k, Append(q, m), a)
<1>1. PICK q2 : q2 = Append(q, m)
  OBVIOUS
<1>2. /\ q2 \in Seq(S) /\ Len(q2) = Len(q) + 1 /\ Len(q) \in Nat
      /\ \A i \in 1 .. Len(q) : q2[i] = q[i]
      /\ q2[Len(q) + 1] = m
  BY <1>1, AppendFacts
<1>3. /\ Tags(k, q) \in [1 .. Len(q) -> Int] /\ Tags(k, q2) \in [1 .. Len(q) + 1 -> Int]
  BY <1>2, TagsType
<1>4. /\ \A i \in 1 .. Len(q) : Tags(k, q2)[i] = Tags(k, q)[i] /\ Tags(k, q)[i] < Tag(k, m)
      /\ Tags(k, q2)[Len(q) + 1] = Tag(k, m)
  BY <1>2 DEF Tags
<1>5. Follows(k, q2, a)
  BY <1>2, <1>3, <1>4, RisingMore DEF Follows
<1>6. Whole(k, q2, a)
  <2> SUFFICES ASSUME NEW j \in a + 1 .. Count(k)
               PROVE  \E i \in 1 .. Len(q) + 1 : Tags(k, q2)[i] = j
    BY <1>2 DEF Whole, Full
  <2>1. CASE j = Count(k)
    BY <1>2, <1>4, <2>1
  <2>2. CASE j # Count(k)
    <3>1. Count(k) \in Nat
      BY DEF Count, Marks
    <3>2. PICK i \in 1 .. Len(q) : Tags(k, q)[i] = j
      BY <2>2, <3>1 DEF Full
    <3> QED
      BY <1>2, <1>4, <3>2
  <2> QED
    BY <2>1, <2>2
<1> QED
  BY <1>1, <1>5, <1>6

(* Nothing with a number in it. *)
LEMMA DryCarries ==
    ASSUME NEW k \in Marks, NEW S, NEW q \in Seq(S), DryQueue(q), NEW a \in Nat
    PROVE  Carries(k, q, a, a) /\ Follows(k, q, a)
<1>1. Len(q) \in Nat /\ \A i \in 1 .. Len(q) : Tags(k, q)[i] = 0
  BY TagsType, TagType DEF Tags, DryQueue
<1> QED
  BY <1>1, EmptyRun DEF Carries, Follows

LEMMA NoneCarries ==
    ASSUME NEW k \in Marks, NEW s, NEW S, NEW q \in Seq(S),
           \A i \in 1 .. Len(q) : q[i].remote # s, NEW a \in Nat
    PROVE  CarriesOf(k, s, q, a, a)
<1>1. Len(q) \in Nat /\ \A i \in 1 .. Len(q) : TagsOf(k, s, q)[i] = 0
  BY TagsType DEF TagsOf
<1> QED
  BY <1>1, EmptyRun DEF CarriesOf

(* A sender goes on: the numbers it has used keep their meaning. *)
Grows(k, k2) == k2.file = k.file /\ (k2 = k \/ (~k.ended /\ k.sent <= k2.sent))

LEMMA GrowTag ==
    ASSUME NEW k \in Marks, NEW k2 \in Marks, Grows(k, k2), NEW m, Tag(k, m) # -1
    PROVE  Tag(k2, m) = Tag(k, m)
  BY DEF Grows, Tag, Marks, IsData

LEMMA GrowCarries ==
    ASSUME NEW k \in Marks, NEW k2 \in Marks, Grows(k, k2), NEW S, NEW q \in Seq(S),
           NEW a \in Nat
    PROVE  /\ \A b : Carries(k, q, a, b) => Carries(k2, q, a, b)
           /\ \A b, s : CarriesOf(k, s, q, a, b) => CarriesOf(k2, s, q, a, b)
           /\ Follows(k, q, a) => Follows(k2, q, a) /\ Tags(k2, q) = Tags(k, q)
<1>1. ASSUME NEW s, Rising(TagsOf(k, s, q), Len(q), a)
      PROVE  TagsOf(k2, s, q) = TagsOf(k, s, q)
  <2>1. \A i \in 1 .. Len(q) : TagsOf(k, s, q)[i] # -1
    BY <1>1, TagsType DEF Rising
  <2>2. ASSUME NEW i \in 1 .. Len(q)
        PROVE  (IF q[i].remote = s THEN Tag(k2, q[i].msg) ELSE 0)
                 = (IF q[i].remote = s THEN Tag(k, q[i].msg) ELSE 0)
    BY <2>1, GrowTag DEF TagsOf
  <2> QED
    BY <2>2 DEF TagsOf
<1>2. ASSUME Rising(Tags(k, q), Len(q), a)
      PROVE  Tags(k2, q) = Tags(k, q)
  <2>1. \A i \in 1 .. Len(q) : Tags(k, q)[i] # -1
    BY <1>2, TagsType DEF Rising
  <2>2. ASSUME NEW i \in 1 .. Len(q)
        PROVE  Tag(k2, q[i]) = Tag(k, q[i])
    BY <2>1, GrowTag DEF Tags
  <2> QED
    BY <2>2 DEF Tags
<1> QED
  BY <1>1, <1>2 DEF Carries, CarriesOf, Follows, Run

-----------------------------------------------------------------------------
(* A sender's last words. *)

(* FinalChunk is the last thing a sender says, and nothing follows it.     *)
FinalSaid(s) ==
    \A i \in 1 .. Len(up[s]) : up[s][i].id = "FinalChunk" => ended[s] /\ i = Len(up[s])

FinalHeard(s) ==
    \A i \in 1 .. Len(incoming) : incoming[i].remote = s /\ incoming[i].msg.id = "FinalChunk" =>
        /\ ended[s] /\ up[s] = <<>>
        /\ \A j \in 1 .. Len(incoming) : incoming[j].remote = s => j <= i

Reading(s) ==
    /\ sent[s] <= Parts[FileOf[s]]
    /\ ended[s] => pc[s] \in Over \cup {"confirm"}
    /\ pc[s] \in {"new", "hello", "await"} => sent[s] = 0
    /\ pc[s] \in Over => ~link[s]

Final(s) == Reading(s) /\ FinalSaid(s) /\ FinalHeard(s)

Finals == \A s \in Sender : Final(s)

LEMMA FinalFrame ==
    ASSUME Known, NEW s \in Sender, Final(s), SameClient(s), NoNews(s)
    PROVE  Final(s)'
<1>1. /\ pc'[s] = pc[s] /\ link'[s] = link[s] /\ up'[s] = up[s] /\ sent'[s] = sent[s]
      /\ ended'[s] = ended[s]
  BY DEF SameClient
<1>2. PICK k \in {0, 1} : \A i \in 1 .. Len(incoming') : incoming'[i].remote = s =>
          i + k \in 1 .. Len(incoming) /\ incoming'[i] = incoming[i + k]
  BY DEF NoNews
<1>3. FinalHeard(s)'
  <2> SUFFICES ASSUME NEW i \in 1 .. Len(incoming'), incoming'[i].remote = s,
                      incoming'[i].msg.id = "FinalChunk"
               PROVE  /\ ended'[s] /\ up'[s] = <<>>
                      /\ \A j \in 1 .. Len(incoming') : incoming'[j].remote = s => j <= i
    BY DEF FinalHeard
  <2>1. i + k \in 1 .. Len(incoming) /\ incoming[i + k] = incoming'[i]
    BY <1>2
  <2>2. /\ ended[s] /\ up[s] = <<>>
        /\ \A j \in 1 .. Len(incoming) : incoming[j].remote = s => j <= i + k
    BY <2>1 DEF Final, FinalHeard
  <2>3. ASSUME NEW j \in 1 .. Len(incoming'), incoming'[j].remote = s
        PROVE  j <= i
    <3>1. j + k <= i + k
      BY <1>2, <2>2, <2>3
    <3> QED
      BY <3>1
  <2> QED
    BY <1>1, <2>2, <2>3
<1> QED
  BY <1>1, <1>3 DEF Final, Reading, FinalSaid

(* What is left of a queue that has lost its end. *)
Shorter(q2, q) == Len(q2) <= Len(q) /\ \A i \in 1 .. Len(q2) : q2[i] = q[i]

LEMMA LeaveShorter ==
    ASSUME Known, NEW c \in Client, NEW result, Leave(c, result, up[c])
    PROVE  /\ Shorter(up'[c], up[c]) /\ up'[c] \in Seq(Server!ClientMessage)
           /\ pc'[c] = result /\ link'[c] = FALSE /\ inbox'[c] = <<>>
<1>1. up[c] \in Seq(Server!ClientMessage)
  BY UpType
<1>2. PICK n \in 0 .. Len(up[c]) : up'[c] = SubSeq(up[c], 1, n)
  BY DEF Leave, Go, Known, Sending, ClientTypes
<1>3. Shorter(SubSeq(up[c], 1, n), up[c]) /\ SubSeq(up[c], 1, n) \in Seq(Server!ClientMessage)
  BY <1>1 DEF Shorter
<1>4. pc'[c] = result /\ link'[c] = FALSE /\ inbox'[c] = <<>>
  BY DEF Leave, Go, Known, Sending, ClientTypes
<1> QED
  BY <1>2, <1>3, <1>4

LEMMA UnreadShorter ==
    ASSUME Known, NEW c \in Client, Unread(c) \/ up' = up
    PROVE  Shorter(up'[c], up[c]) /\ up'[c] \in Seq(Server!ClientMessage)
<1>1. up[c] \in Seq(Server!ClientMessage) /\ Len(up[c]) \in Nat
  BY UpType
<1>2. PICK m : m = Head(up[c])
  OBVIOUS
<1>3. ASSUME up[c] # <<>>, up'[c] = <<m>>
      PROVE  Shorter(up'[c], up[c]) /\ up'[c] \in Seq(Server!ClientMessage)
  <2>1. /\ Len(<<m>>) = 1 /\ <<m>>[1] = m /\ m = up[c][1] /\ Len(up[c]) >= 1
        /\ m \in Server!ClientMessage /\ <<m>> \in Seq(Server!ClientMessage)
    BY <1>1, <1>2, <1>3, HeadTail
  <2> QED
    BY <1>3, <2>1 DEF Shorter
<1>4. Shorter(<<>>, up[c]) /\ Shorter(up[c], up[c]) /\ <<>> \in Seq(Server!ClientMessage)
  BY <1>1 DEF Shorter
<1> QED
  BY <1>1, <1>2, <1>3, <1>4, UnreadFacts

(* What was the last word is still the last when the end is lost. *)
LEMMA ShorterKeepsFinal ==
    ASSUME Known, NEW s \in Sender, Final(s), UNCHANGED <<sent, ended, incoming>>,
           Shorter(up'[s], up[s]), up'[s] \in Seq(Server!ClientMessage),
           ended[s] => pc'[s] \in Over \cup {"confirm"},
           pc'[s] \in {"new", "hello", "await"} => pc[s] \in {"new", "hello", "await"},
           pc'[s] \in Over => ~link'[s]
    PROVE  Final(s)'
<1>1. up[s] \in Seq(Server!ClientMessage)
  BY UpType DEF Client
<1>2. FinalSaid(s)'
  BY <1>1 DEF Final, FinalSaid, Shorter
<1>3. up[s] = <<>> => up'[s] = <<>>
  <2>1. up[s] = <<>> => Len(up'[s]) = 0
    BY <1>1 DEF Shorter
  <2> QED
    BY <2>1
<1>4. FinalHeard(s)'
  BY <1>3 DEF Final, FinalHeard
<1> QED
  BY <1>2, <1>4 DEF Final, Reading

(* As long as it has not come to the end no FinalChunk is under way. *)
LEMMA NotEnded ==
    ASSUME Known, NEW s \in Sender, Final(s), ~ended[s]
    PROVE  /\ \A i \in 1 .. Len(up[s]) : up[s][i].id # "FinalChunk"
           /\ \A i \in 1 .. Len(incoming) :
                 incoming[i].remote = s => incoming[i].msg.id # "FinalChunk"
  BY DEF Final, FinalSaid, FinalHeard

LEMMA SpeechKeepsFinal ==
    ASSUME Known, NEW s \in Sender, Final(s), ~ended[s], UNCHANGED incoming,
           NEW m \in Server!ClientMessage, Queue(s, m),
           m.id = "FinalChunk" => ended'[s],
           Reading(s)'
    PROVE  Final(s)'
<1>1. up[s] \in Seq(Server!ClientMessage) /\ Len(up[s]) \in Nat
  BY UpType DEF Client
<1>2. up'[s] = up[s] \/ up'[s] = Append(up[s], m)
  BY DEF Queue, Put, Known, Sending, Client
<1>3. \A i \in 1 .. Len(up'[s]) : \/ i \in 1 .. Len(up[s]) /\ up'[s][i] = up[s][i]
                                  \/ i = Len(up'[s]) /\ up'[s][i] = m
  BY <1>1, <1>2
<1>4. FinalSaid(s)'
  BY <1>3, NotEnded DEF FinalSaid
<1>5. FinalHeard(s)'
  BY NotEnded DEF FinalHeard
<1> QED
  BY <1>4, <1>5 DEF Final

(* The server never aborts towards a sender. *)
LEMMA NeverAborted ==
    ASSUME Known, NEW s \in Sender
    PROVE  ~Aborted(s)
<1>1. inbox[s] \in Seq(SenderAnswer)
  BY DEF Known, Kinds, Answers, Client
<1>2. \A i \in 1 .. Len(inbox[s]) : inbox[s][i] \in SenderAnswer
  BY <1>1
<1> QED
  BY <1>2 DEF Aborted, SenderAnswer

LEMMA SenderKeepsFinal ==
    ASSUME Known, NEW s \in Sender, Final(s),
           SenderStep(s) \/ Crash(s) \/ FileGone(s) \/ ReadError(s)
    PROVE  Final(s)'
<1>0. /\ s \in Client /\ UNCHANGED <<incoming, conn>>
      /\ up[s] \in Seq(Server!ClientMessage) /\ sent[s] \in Nat
      /\ FileOf[s] \in File /\ Parts[FileOf[s]] \in Nat
  BY SenderSpeaks, UpType, FilesAssumption DEF Spoken, serverVars, Client, Known, Sending
<1>1. ASSUME NEW result \in Over, Leave(s, result, up[s]), UNCHANGED <<sent, ended>>
      PROVE  Final(s)'
  <2>1. /\ Shorter(up'[s], up[s]) /\ up'[s] \in Seq(Server!ClientMessage)
        /\ pc'[s] = result /\ link'[s] = FALSE
    BY <1>0, <1>1, LeaveShorter
  <2>2. /\ pc'[s] \in Over \cup {"confirm"} /\ ~link'[s]
        /\ pc'[s] \notin {"new", "hello", "await"}
    BY <2>1 DEF Over
  <2> QED
    BY <1>0, <1>1, <2>1, <2>2, ShorterKeepsFinal
<1>2. CASE Announce(s)
  <2>1. PICK p \in Phrase :
           IF link[s] THEN Queue(s, Server!Send(p, FileOf[s])) /\ Go(s, "await")
                            /\ UNCHANGED <<link, inbox>>
                      ELSE Leave(s, "failed", up[s])
    BY <1>2 DEF Announce
  <2>2. pc[s] = "hello" /\ UNCHANGED <<sent, ended>> /\ ~ended[s]
    BY <1>2 DEF Announce, Final, Reading, Over
  <2>3. CASE link[s]
    <3>1. pc'[s] = "await" /\ Reading(s)'
      BY <1>0, <2>1, <2>2, <2>3 DEF Final, Reading, Go, Over, Known, Sending
    <3>2. /\ Server!Send(p, FileOf[s]) \in Server!ClientMessage
          /\ Server!Send(p, FileOf[s]).id = "Send"
      BY <1>0, PhraseIsClientMessage DEF Server!Send, Server!Encode
    <3> QED
      BY <1>0, <2>1, <2>2, <2>3, <3>1, <3>2, SpeechKeepsFinal
  <2> QED
    BY <1>1, <2>1, <2>2, <2>3 DEF Over
<1>3. CASE AwaitReceiver(s)
  <2>1. pc[s] = "await" /\ UNCHANGED <<sent, ended>>
    BY <1>3 DEF AwaitReceiver
  <2>2. CASE up' = up /\ link' = link /\ \E l \in {"sending", "await"} : pc' = [pc EXCEPT ![s] = l]
    <3>1. pc'[s] \in {"sending", "await"} /\ Shorter(up'[s], up[s])
      BY <1>0, <2>2 DEF Shorter, Known, Sending
    <3> QED
      BY <1>0, <2>1, <2>2, <3>1, ShorterKeepsFinal DEF Final, Reading, Over
  <2> QED
    BY <1>1, <1>3, <2>1, <2>2 DEF AwaitReceiver, Answer, Go, Over
<1>4. CASE SendChunk(s)
  <2>1. PICK m : m = Server!Chunk(Contents(FileOf[s])[sent[s] + 1])
    OBVIOUS
  <2>2. m \in Server!ClientMessage /\ m.id = "Chunk"
    BY <1>4, <2>1, NextChunk, ChunkIsClientMessage DEF SendChunk, Server!Chunk, Server!Encode
  <2>3. /\ pc[s] = "sending" /\ UNCHANGED <<pc, ended, link>> /\ Queue(s, m)
        /\ sent'[s] = sent[s] + 1 /\ sent[s] < Parts[FileOf[s]]
    BY <1>0, <1>4, <2>1 DEF SendChunk, Known, Sending
  <2>4. ~ended[s] /\ Reading(s)'
    BY <1>0, <2>3 DEF Final, Reading, Over
  <2> QED
    BY <1>0, <2>2, <2>3, <2>4, SpeechKeepsFinal
<1>5. CASE EndOfInput(s)
  <2>1. /\ pc[s] = "sending" /\ pc'[s] = "confirm" /\ ended'[s] = TRUE /\ UNCHANGED <<sent, link>>
        /\ Queue(s, Server!Signal("FinalChunk"))
    BY <1>0, <1>5 DEF EndOfInput, Go, Known, Sending, ClientTypes
  <2>2. ~ended[s] /\ Reading(s)'
    BY <1>0, <2>1 DEF Final, Reading, Over
  <2>3. Server!Signal("FinalChunk") \in Server!ClientMessage
    BY SignalIsClientMessage
  <2> QED
    BY <1>0, <2>1, <2>2, <2>3, SpeechKeepsFinal
<1>6. CASE StopSending(s)
  <2>1. ~link[s] /\ UNCHANGED <<sent, ended>>
    BY <1>6, NeverAborted DEF StopSending, dataVars
  <2>2. Leave(s, "failed", up[s])
    BY <1>6, <2>1 DEF StopSending, Put
  <2> QED
    BY <1>1, <2>1, <2>2 DEF Over
<1>7. CASE Confirm(s)
  <2>1. pc[s] = "confirm" /\ UNCHANGED <<sent, ended>>
    BY <1>7 DEF Confirm, dataVars
  <2>2. \/ Leave(s, "ok", up[s])
        \/ Leave(s, "failed", up[s])
        \/ UNCHANGED <<pc, link, up>>
    BY <1>7 DEF Confirm
  <2>3. Shorter(up[s], up[s])
    BY <1>0 DEF Shorter
  <2>4. "ok" \in Over /\ "failed" \in Over
    BY DEF Over
  <2>5. CASE UNCHANGED <<pc, link, up>>
    BY <1>0, <2>1, <2>3, <2>5, ShorterKeepsFinal DEF Over
  <2> QED
    BY <1>1, <2>1, <2>2, <2>4, <2>5
<1>8. CASE Crash(s) \/ FileGone(s)
  BY <1>1, <1>8 DEF Crash, FileGone, dataVars, Over
<1> QED
  BY <1>2, <1>3, <1>4, <1>5, <1>6, <1>7, <1>8 DEF SenderStep, FinishSending, ReadError

(* What the server reads of a sender keeps its order. *)
LEMMA ReadsKeepFinal ==
    ASSUME Known, NEW s \in Sender, Final(s), ServerReads(s)
    PROVE  Final(s)'
<1>0. /\ s \in Client /\ up[s] \in Seq(Server!ClientMessage) /\ incoming \in Seq(Heard)
      /\ Len(incoming) \in Nat
  BY UpType DEF Client
<1>1. /\ up[s] # <<>> /\ up'[s] = Tail(up[s])
      /\ incoming' = Append(incoming, [remote |-> s, msg |-> Head(up[s])])
      /\ UNCHANGED <<pc, link, sent, ended>>
  BY <1>0 DEF ServerReads, Server!Arrive, Server!storage, dataVars, Known, Sending
<1>2. PICK m : m = Head(up[s])
  OBVIOUS
<1>3. /\ m = up[s][1] /\ Len(up[s]) \in Nat \ {0} /\ Len(up'[s]) = Len(up[s]) - 1
      /\ \A i \in 1 .. Len(up'[s]) : up'[s][i] = up[s][i + 1]
  BY <1>0, <1>1, <1>2, HeadTail
<1>4. /\ Len(incoming') = Len(incoming) + 1
      /\ \A i \in 1 .. Len(incoming) : incoming'[i] = incoming[i]
      /\ incoming'[Len(incoming) + 1] = [remote |-> s, msg |-> m]
  BY <1>0, <1>1, <1>2
<1>5. FinalSaid(s)'
  BY <1>1, <1>3 DEF Final, FinalSaid
<1>6. FinalHeard(s)'
  <2> SUFFICES ASSUME NEW i \in 1 .. Len(incoming'), incoming'[i].remote = s,
                      incoming'[i].msg.id = "FinalChunk"
               PROVE  /\ ended'[s] /\ up'[s] = <<>>
                      /\ \A j \in 1 .. Len(incoming') : incoming'[j].remote = s => j <= i
    BY DEF FinalHeard
  <2>1. i = Len(incoming) + 1
    <3>1. ASSUME i \in 1 .. Len(incoming) PROVE FALSE
      BY <1>1, <1>4, <3>1 DEF Final, FinalHeard
    <3> QED
      BY <1>0, <1>4, <3>1
  <2>2. m.id = "FinalChunk"
    BY <1>4, <2>1
  <2>3. ended[s] /\ Len(up[s]) = 1
    <3>1. 1 \in 1 .. Len(up[s]) /\ up[s][1].id = "FinalChunk"
      BY <1>3, <2>2
    <3>2. ended[s] /\ 1 = Len(up[s])
      BY <3>1 DEF Final, FinalSaid
    <3> QED
      BY <3>2
  <2>4. up'[s] = <<>>
    BY <1>0, <1>1, <2>3, TailOfOne
  <2>5. ended'[s] /\ \A j \in 1 .. Len(incoming') : j <= i
    BY <1>0, <1>1, <1>4, <2>1, <2>3
  <2> QED
    BY <2>4, <2>5
<1> QED
  BY <1>1, <1>5, <1>6 DEF Final, Reading

LEMMA NetworkKeepsFinal ==
    ASSUME Known, NEW s \in Sender, Final(s), NetworkStep(s) \/ Reset(s) \/ Start(s)
    PROVE  Final(s)'
<1>0. s \in Client /\ up[s] \in Seq(Server!ClientMessage)
  BY UpType DEF Client
<1>1. CASE ServerReads(s)
  BY <1>1, ReadsKeepFinal
<1>2. CASE ~ServerReads(s)
  <2>1. /\ UNCHANGED <<sent, ended, incoming>> /\ (Unread(s) \/ up' = up)
        /\ pc'[s] = pc[s] \/ (pc[s] = "new" /\ pc'[s] = "hello")
    BY <1>2 DEF NetworkStep, Reset, Start, ServerWrites, ServerCloses, ServerNotices,
         ClientNotices, Server!Connect, Server!storage, Server!CloseFlushed, Server!WriteDone,
         Server!ConnectionLost, Server!Close, serverVars, clientVars, dataVars, Go,
         Client, Known, Sending
  <2>2. pc'[s] \in Over => link'[s] = link[s] \/ ~link'[s]
    BY <1>0, <1>2 DEF NetworkStep, Reset, Start, ServerWrites, ServerCloses, ServerNotices,
         ClientNotices, clientVars, Go, Known, Sending, ClientTypes, Over
  <2>3. Shorter(up'[s], up[s]) /\ up'[s] \in Seq(Server!ClientMessage)
    BY <1>0, <2>1, UnreadShorter
  <2>4. ended[s] => pc'[s] \in Over \cup {"confirm"}
    BY <2>1 DEF Final, Reading, Over
  <2>5. pc'[s] \in Over => ~link'[s]
    BY <2>1, <2>2 DEF Final, Reading, Over
  <2>6. pc'[s] \in {"new", "hello", "await"} => pc[s] \in {"new", "hello", "await"}
    BY <2>1
  <2> QED
    BY <2>1, <2>3, <2>4, <2>5, <2>6, ShorterKeepsFinal
<1> QED
  BY <1>1, <1>2

(* A flipped bit leaves every message the kind of message it was. *)
LEMMA CorruptFacts ==
    ASSUME Known, NEW s \in Sender, Corrupt(s)
    PROVE  /\ up'[s] \in Seq(Server!ClientMessage) /\ Len(up'[s]) = Len(up[s])
           /\ \A j \in 1 .. Len(up[s]) :
                 /\ up'[s][j].id = up[s][j].id
                 /\ up[s][j].id = "Chunk" => /\ up'[s][j].body.file = up[s][j].body.file
                                             /\ up'[s][j].body.part = up[s][j].body.part
           /\ UNCHANGED <<serverVars, pc, link, inbox, dataVars>>
<1>0. s \in Client /\ up[s] \in Seq(Server!ClientMessage)
  BY UpType DEF Client
<1>1. PICK i \in 1 .. Len(up[s]) :
         /\ up[s][i].id = "Chunk"
         /\ up'[s] = [up[s] EXCEPT ![i] = Damaged(up[s][i])]
  BY <1>0 DEF Corrupt, Known, Sending
<1>2. PICK m : m = Damaged(up[s][i])
  OBVIOUS
<1>3. m.id = "Chunk" /\ m \in Server!ClientMessage
  BY <1>0, <1>1, <1>2, DamagedMessage DEF Damaged, Server!Chunk, Server!Encode
<1>4. up[s][i].body \in Body
  BY <1>0, <1>1, Payload
<1>5. m.body.file = up[s][i].body.file /\ m.body.part = up[s][i].body.part
  BY <1>2, <1>4 DEF Damaged, Server!Chunk, Server!Encode, Body
<1>6. /\ up'[s] \in Seq(Server!ClientMessage) /\ Len(up'[s]) = Len(up[s])
      /\ \A j \in 1 .. Len(up[s]) : up'[s][j] = IF j = i THEN m ELSE up[s][j]
  BY <1>0, <1>1, <1>2, <1>3
<1> QED
  BY <1>1, <1>3, <1>5, <1>6 DEF Corrupt

LEMMA CorruptKeepsFinal ==
    ASSUME Known, NEW s \in Sender, Final(s), Corrupt(s)
    PROVE  Final(s)'
<1>1. /\ up[s] \in Seq(Server!ClientMessage) /\ up'[s] \in Seq(Server!ClientMessage)
      /\ Len(up'[s]) = Len(up[s])
      /\ \A j \in 1 .. Len(up[s]) : up'[s][j].id = up[s][j].id
      /\ UNCHANGED <<incoming, pc, link, sent, ended>>
  BY CorruptFacts, UpType DEF Client, serverVars, dataVars
<1>2. up[s] = <<>> => up'[s] = <<>>
  BY <1>1
<1> QED
  BY <1>1, <1>2 DEF Final, Reading, FinalSaid, FinalHeard

-----------------------------------------------------------------------------
(* The steps, by whose they are; what is not theirs stays.                 *)

SenderWork(s) == SenderStep(s) \/ Crash(s) \/ FileGone(s) \/ ReadError(s)

ReceiverWork(r) ==
    \/ ReceiverStep(r) \/ Decline(r) \/ Consent(r)
    \/ Crash(r) \/ OpenError(r) \/ WriteError(r)

NetworkWork(c) == NetworkStep(c) \/ Reset(c) \/ Start(c)

LEMMA StepCases ==
    ASSUME Known, [Next]_vars
    PROVE  \/ ServerHandles
           \/ \E c \in Client : NetworkWork(c) /\ Elsewhere(c)
           \/ \E s \in Sender : SenderWork(s) /\ Elsewhere(s) /\ UNCHANGED serverVars
           \/ \E r \in Receiver : ReceiverWork(r) /\ Elsewhere(r) /\ UNCHANGED serverVars
           \/ \E s \in Sender : Corrupt(s) /\ Elsewhere(s) /\ UNCHANGED serverVars
           \/ UNCHANGED vars
<1>0. Sender \subseteq Client /\ Receiver \subseteq Client /\ Client = Sender \cup Receiver
  BY DEF Client
<1>1. ASSUME NEW s \in Sender, SenderWork(s)
      PROVE  Elsewhere(s) /\ UNCHANGED serverVars
  <2>1. Others(s) /\ UNCHANGED serverVars
    BY <1>0, <1>1, SenderOthers, CrashOthers, SenderSpeaks DEF Spoken, SenderWork
  <2> QED
    BY <1>0, <2>1, RoutineElsewhere
<1>2. ASSUME NEW r \in Receiver, ReceiverWork(r)
      PROVE  Elsewhere(r) /\ UNCHANGED serverVars
  <2>1. Others(r) /\ UNCHANGED serverVars
    BY <1>0, <1>2, ReceiverOthers, CrashOthers, ReceiverSpeaks DEF Spoken, ReceiverWork
  <2> QED
    BY <1>0, <2>1, RoutineElsewhere
<1>3. \A c \in Client : NetworkWork(c) => Elsewhere(c)
  BY NetworkElsewhere DEF NetworkWork
<1>4. \A s \in Sender : Corrupt(s) => Elsewhere(s) /\ UNCHANGED serverVars
  BY CorruptElsewhere DEF Corrupt
<1> QED
  BY <1>0, <1>1, <1>2, <1>3, <1>4
     DEF Next, UserStep, FaultStep, SenderWork, ReceiverWork, NetworkWork

(* Nothing changes for anybody. *)
LEMMA StandStill ==
    ASSUME Known, UNCHANGED vars, NEW c \in Client
    PROVE  SameClient(c) /\ SameTablesOf(c) /\ NoNews(c)
  BY QuietQueue DEF vars, serverVars, clientVars, dataVars, SameClient, SameTablesOf, Client

LEMMA StepKeepsFinals ==
    ASSUME Known, Finals, [Next]_vars
    PROVE  Finals'
<1> SUFFICES ASSUME NEW s \in Sender
             PROVE  Final(s)'
  BY DEF Finals
<1>0. s \in Client /\ s \notin Receiver /\ Final(s)
  BY ClientsAssumption DEF Finals, Client
<1>1. CASE ServerHandles
  BY <1>0, <1>1, HandlerElsewhere, FinalFrame
<1>2. ASSUME NEW c \in Client, Elsewhere(c), c # s
      PROVE  Final(s)'
  BY <1>0, <1>2, FinalFrame DEF Elsewhere
<1>3. NetworkWork(s) => Final(s)'
  BY <1>0, NetworkKeepsFinal DEF NetworkWork
<1>4. SenderWork(s) => Final(s)'
  BY <1>0, SenderKeepsFinal DEF SenderWork
<1>5. Corrupt(s) => Final(s)'
  BY <1>0, CorruptKeepsFinal
<1>6. CASE UNCHANGED vars
  BY <1>0, <1>6, StandStill, FinalFrame
<1> QED
  BY <1>0, <1>1, <1>2, <1>3, <1>4, <1>5, <1>6, StepCases DEF Client

(* A sender reads its file from the start and says FinalChunk at most      *)
(* once, when it has come to the end, and as its last word.                *)
THEOREM FinalsInvariant == Spec => []Finals
<1>1. Init => Finals
  <2> SUFFICES ASSUME Init, NEW s \in Sender
               PROVE  Final(s)
    BY DEF Finals
  <2>1. s \in Client /\ Parts[FileOf[s]] \in Nat
    BY FilesAssumption DEF Client
  <2>2. /\ pc[s] = "new" /\ ~link[s] /\ up[s] = <<>> /\ incoming = <<>> /\ sent[s] = 0
        /\ ended[s] = FALSE
    BY <2>1 DEF Init, Server!Init
  <2> QED
    BY <2>1, <2>2 DEF Final, Reading, FinalSaid, FinalHeard
<1>2. Known /\ Finals /\ [Next]_vars => Finals'
  BY StepKeepsFinals
<1> QED
  BY <1>1, <1>2, KindsInvariant, PTL DEF Spec

-----------------------------------------------------------------------------
(* What has been said and done is not undone, whoever steps.               *)

LEMMA WorkMarks ==
    ASSUME Known, NEW s \in Sender, Final(s), SenderWork(s)
    PROVE  \/ sent'[s] = sent[s] /\ ended'[s] = ended[s]
           \/ ~ended[s] /\ pc[s] = "sending" /\ sent[s] <= sent'[s]
<1>1. sent[s] \in Nat /\ sent \in [Sender -> Nat] /\ ended \in [Sender -> BOOLEAN]
  BY DEF Known, Sending, ClientTypes
<1>2. pc[s] = "sending" => ~ended[s]
  BY DEF Final, Reading, Over
<1>3. CASE SendChunk(s)
  BY <1>1, <1>2, <1>3 DEF SendChunk
<1>4. CASE EndOfInput(s)
  <2>1. pc[s] = "sending" /\ sent' = sent
    BY <1>4 DEF EndOfInput
  <2> QED
    BY <1>1, <1>2, <2>1
<1> QED
  BY <1>3, <1>4
     DEF SenderWork, SenderStep, Announce, AwaitReceiver, StopSending, Confirm, FinishSending,
         Crash, FileGone, ReadError, dataVars

LEMMA MarkGrows ==
    ASSUME Known, Known', Finals, [Next]_vars, NEW s \in Sender
    PROVE  Mark(s) \in Marks /\ Mark(s)' \in Marks /\ Grows(Mark(s), Mark(s)')
<1>0. s \in Client /\ s \notin Receiver /\ Final(s)
  BY ClientsAssumption DEF Finals, Client
<1>1. /\ sent[s] \in Nat /\ sent'[s] \in Nat /\ ended[s] \in BOOLEAN /\ ended'[s] \in BOOLEAN
      /\ FileOf[s] \in File
  BY FilesAssumption DEF Known, Sending, ClientTypes
<1>2. \/ sent'[s] = sent[s] /\ ended'[s] = ended[s]
      \/ ~ended[s] /\ sent[s] <= sent'[s]
  <2>1. SameClient(s) => sent'[s] = sent[s] /\ ended'[s] = ended[s]
    BY DEF SameClient
  <2>2. NetworkWork(s) \/ Corrupt(s) => sent'[s] = sent[s] /\ ended'[s] = ended[s]
    BY DEF NetworkWork, NetworkStep, Reset, Start, ServerReads, ServerWrites, ServerCloses,
         ServerNotices, ClientNotices, Corrupt, clientVars, dataVars
  <2>3. \A c \in Client : Elsewhere(c) /\ c # s => SameClient(s)
    BY <1>0 DEF Elsewhere
  <2>4. ServerHandles \/ UNCHANGED vars => SameClient(s)
    BY <1>0, HandlerElsewhere, StandStill
  <2> QED
    BY <1>0, <2>1, <2>2, <2>3, <2>4, WorkMarks, StepCases DEF Client
<1> QED
  BY <1>1, <1>2 DEF Marks, Mark, Grows

(* What a sender that has come to its end and has been heard still says. *)
LEMMA StaysQuiet ==
    ASSUME Known, Finals, [Next]_vars, NEW s \in Sender, ended[s], Quiet(s)
    PROVE  ended'[s] /\ Quiet(s)'
<1>0. /\ s \in Client /\ s \notin Receiver /\ Final(s) /\ up[s] = <<>> /\ NoneHeard(s)
      /\ up[s] \in Seq(Server!ClientMessage)
  BY ClientsAssumption, UpType DEF Finals, Client, Quiet
<1>1. ASSUME SameClient(s), NoNews(s)
      PROVE  ended'[s] /\ Quiet(s)'
  BY <1>0, <1>1, NoNewsNone DEF SameClient, Quiet
<1>2. ASSUME Shorter(up'[s], up[s]), up'[s] \in Seq(Server!ClientMessage),
             incoming' = incoming, ended'[s] = ended[s]
      PROVE  ended'[s] /\ Quiet(s)'
  <2>1. Len(up'[s]) = 0
    BY <1>0, <1>2 DEF Shorter
  <2>2. up'[s] = <<>>
    BY <1>2, <2>1
  <2> QED
    BY <1>0, <1>2, <2>2 DEF Quiet, NoneHeard
<1>3. CASE SenderWork(s) /\ UNCHANGED serverVars
  <2>1. pc[s] \in Over \cup {"confirm"}
    BY <1>0 DEF Final, Reading
  <2>2. Confirm(s) \/ Crash(s)
    BY <1>3, <2>1
       DEF SenderWork, SenderStep, Announce, AwaitReceiver, SendChunk, FinishSending, EndOfInput,
           StopSending, FileGone, ReadError, Over
  <2>3. UNCHANGED <<incoming, ended>>
    BY <1>3, <2>2 DEF Confirm, Crash, serverVars, dataVars
  <2>4. up' = up \/ \E result : Leave(s, result, up[s])
    BY <2>2 DEF Confirm, Crash
  <2>5. Shorter(up[s], up[s])
    BY <1>0 DEF Shorter
  <2> QED
    BY <1>0, <1>2, <2>3, <2>4, <2>5, LeaveShorter
<1>4. CASE NetworkWork(s)
  <2>1. ~ServerReads(s)
    BY <1>0 DEF ServerReads
  <2>2. /\ UNCHANGED <<ended, incoming>> /\ (Unread(s) \/ up' = up)
    BY <1>4, <2>1 DEF NetworkWork, NetworkStep, Reset, Start, ServerWrites, ServerCloses,
         ServerNotices, ClientNotices, Server!Connect, Server!storage, Server!CloseFlushed,
         Server!WriteDone, Server!ConnectionLost, Server!Close, serverVars, clientVars, dataVars
  <2> QED
    BY <1>0, <1>2, <2>2, UnreadShorter
<1>5. ~Corrupt(s)
  BY <1>0, CorruptFacts DEF Corrupt
<1>6. \A c \in Client : Elsewhere(c) /\ c # s => SameClient(s) /\ NoNews(s)
  BY <1>0 DEF Elsewhere
<1>7. ServerHandles \/ UNCHANGED vars => SameClient(s) /\ NoNews(s)
  BY <1>0, HandlerElsewhere, StandStill
<1> QED
  BY <1>0, <1>1, <1>3, <1>4, <1>5, <1>6, <1>7, StepCases DEF Client

(* What mainLoop makes of a message it does not refuse. *)
Taken(r, m) ==
    /\ inbox'[r] = Tail(inbox[r])
    /\ \/ m.id = "Chunk" /\ ~diskBad[r] /\ ~diskBad'[r] /\ got'[r] = Append(got[r], m.body)
       \/ m.id = "Chunk" /\ diskBad'[r] /\ got'[r] = got[r]
       \/ m.id # "Chunk" /\ diskBad'[r] = diskBad[r] /\ got'[r] = got[r]
    /\ \/ ReportSuccess(r) /\ (m.id = "FinalChunk" \/ diskBad'[r])
       \/ UNCHANGED <<pc, link, up>> /\ m.id # "FinalChunk"

LEMMA TakeFacts ==
    ASSUME Known, NEW r \in Receiver, NEW written \in BOOLEAN, TakeMessage(r, written),
           NEW m, m = Head(inbox[r])
    PROVE  /\ pc[r] = "receiving" /\ inbox[r] # <<>> /\ UNCHANGED serverVars
           /\ diskBad[r] => diskBad'[r]
           /\ \/ Leave(r, "failed", up[r]) /\ got'[r] = got[r] /\ diskBad'[r] = diskBad[r]
              \/ ~Refused(m) /\ Taken(r, m)
<1>0. r \in Client /\ diskBad \in [Receiver -> BOOLEAN] /\ got \in [Receiver -> Seq(Body)]
      /\ inbox \in [Client -> Seq(Server!Message)]
  BY DEF Client, Known, ClientTypes
<1>1. pc[r] = "receiving" /\ inbox[r] # <<>> /\ UNCHANGED serverVars
  BY DEF TakeMessage
<1>2. CASE Refused(m)
  BY <1>1, <1>2 DEF TakeMessage
<1>3. CASE ~Refused(m)
  <2>1. /\ inbox' = [inbox EXCEPT ![r] = Tail(inbox[r])]
        /\ diskBad' = [diskBad EXCEPT ![r] = diskBad[r] \/ (m.id = "Chunk" /\ ~written)]
        /\ got' = IF m.id = "Chunk" /\ ~diskBad'[r]
                  THEN [got EXCEPT ![r] = Append(got[r], m.body)] ELSE got
        /\ IF Finished(m, diskBad'[r], Tail(inbox[r]))
           THEN ReportSuccess(r) ELSE UNCHANGED <<pc, link, up>>
    BY <1>3 DEF TakeMessage
  <2>2. inbox'[r] = Tail(inbox[r]) /\ (diskBad'[r] <=> diskBad[r] \/ (m.id = "Chunk" /\ ~written))
        /\ diskBad'[r] \in BOOLEAN /\ diskBad[r] \in BOOLEAN
    BY <1>0, <2>1
  <2>3. \/ m.id = "Chunk" /\ ~diskBad[r] /\ ~diskBad'[r] /\ got'[r] = Append(got[r], m.body)
        \/ m.id = "Chunk" /\ diskBad'[r] /\ got'[r] = got[r]
        \/ m.id # "Chunk" /\ diskBad'[r] = diskBad[r] /\ got'[r] = got[r]
    BY <1>0, <2>1, <2>2
  <2>4. \/ ReportSuccess(r) /\ (m.id = "FinalChunk" \/ diskBad'[r])
        \/ UNCHANGED <<pc, link, up>> /\ m.id # "FinalChunk"
    BY <2>1 DEF Finished
  <2> QED
    BY <1>1, <1>3, <2>2, <2>3, <2>4 DEF Taken
<1> QED
  BY <1>2, <1>3

(* Where a receiver's routine can get to, and what it says. *)
LEMMA ReceiverMoves ==
    ASSUME Known, NEW r \in Receiver, Request(r), ReceiverWork(r)
    PROVE  /\ pc[r] \notin Asking => /\ pc'[r] \notin Asking
                                     /\ \A i \in Nat : Accepts(r, i)' => Accepts(r, i)
           /\ pc[r] \in Over \cup {"flushing"} =>
                 /\ pc'[r] \in Over \cup {"flushing"}
                 /\ pc'[r] = "ok" => pc[r] = "flushing"
           /\ pc[r] # "receiving" => got'[r] = got[r] /\ diskBad'[r] = diskBad[r]
           /\ diskBad[r] => diskBad'[r]
           /\ pc'[r] = "receiving" => pc[r] \in {"prompt", "receiving"}
<1>0. r \in Client /\ up[r] \in Seq(Server!ClientMessage) /\ pc \in [Client -> Label]
  BY UpType DEF Client, Known, Sending
<1>1. ASSUME NEW result \in Over, Leave(r, result, up[r])
      PROVE  /\ pc'[r] = result
             /\ \A i \in Nat : Accepts(r, i)' => Accepts(r, i)
  <2>1. Shorter(up'[r], up[r]) /\ up'[r] \in Seq(Server!ClientMessage) /\ pc'[r] = result
    BY <1>0, <1>1, LeaveShorter
  <2> QED
    BY <1>0, <2>1 DEF Accepts, Shorter
<1>2. CASE \E written \in BOOLEAN : TakeMessage(r, written)
  <2>1. PICK written \in BOOLEAN : TakeMessage(r, written)
    BY <1>2
  <2>2. PICK m : m = Head(inbox[r])
    OBVIOUS
  <2>3. /\ pc[r] = "receiving" /\ (diskBad[r] => diskBad'[r])
        /\ Leave(r, "failed", up[r]) \/ ReportSuccess(r) \/ UNCHANGED <<pc, link, up>>
    BY <2>1, <2>2, TakeFacts DEF Taken
  <2>4. CASE Leave(r, "failed", up[r])
    BY <1>1, <2>3, <2>4 DEF Over, Asking
  <2>5. CASE ReportSuccess(r)
    <3>1. /\ Queue(r, Server!Signal("FinishReceive"))
          /\ Server!Signal("FinishReceive") \in Server!ClientMessage
          /\ Server!Signal("FinishReceive").id # "Receive"
          /\ pc'[r] = "flushing"
      BY <1>0, <2>5, SignalIsClientMessage DEF ReportSuccess, Server!Signal, Server!Encode, Go
    <3> QED
      BY <2>3, <3>1, PutAccepts DEF Over, Asking
  <2>6. CASE UNCHANGED <<pc, link, up>>
    BY <2>3, <2>6 DEF Accepts, Over, Asking
  <2> QED
    BY <2>3, <2>4, <2>5, <2>6
<1>3. CASE Ask(r) \/ AwaitOffer(r) \/ Decline(r) \/ Consent(r) \/ OpenError(r)
  <2>1. /\ pc[r] \in Asking /\ pc[r] # "receiving" /\ pc[r] \notin Over \cup {"flushing"}
        /\ UNCHANGED <<got, diskBad>>
    BY <1>3 DEF Ask, AwaitOffer, Decline, Consent, OpenError, Asking, Over, dataVars
  <2>2. pc'[r] = "receiving" => pc[r] \in {"prompt", "receiving"}
    <3>1. ASSUME NEW result \in Over, NEW q, Leave(r, result, q)
          PROVE  pc'[r] # "receiving"
      BY <1>0, <3>1, LeaveFacts DEF Over
    <3>2. "failed" \in Over /\ "declined" \in Over
      BY DEF Over
    <3>3. Decline(r) \/ OpenError(r) => pc'[r] # "receiving"
      BY <3>1, <3>2 DEF Decline, OpenError
    <3>4. Ask(r) \/ AwaitOffer(r) => pc'[r] # "receiving"
      BY <1>0, <3>1, <3>2 DEF Ask, AwaitOffer, Answer, Go
    <3>5. Consent(r) => pc[r] = "prompt"
      BY DEF Consent
    <3> QED
      BY <1>3, <3>3, <3>4, <3>5
  <2> QED
    BY <2>1, <2>2
<1>4. CASE Flushed(r)
  BY <1>0, <1>4 DEF Flushed, Go, dataVars, Accepts, Asking, Over
<1>5. CASE Crash(r)
  <2>1. Leave(r, "failed", up[r]) /\ pc[r] \notin Over /\ UNCHANGED <<got, diskBad>>
    BY <1>5 DEF Crash, dataVars
  <2> QED
    BY <1>1, <2>1 DEF Over, Asking
<1> QED
  BY <1>2, <1>3, <1>4, <1>5 DEF ReceiverWork, ReceiverStep, ReceiveMessage, WriteError

(* Past its Receive: it has been heard, or never will be. *)
Gone(r) == pc[r] \notin Asking /\ ~Pending(r)

LEMMA StaysGone ==
    ASSUME Known, Requests, [Next]_vars, NEW r \in Receiver, Gone(r)
    PROVE  Gone(r)'
<1>0. /\ r \in Client /\ r \notin Sender /\ Request(r) /\ up[r] \in Seq(Server!ClientMessage)
      /\ Len(incoming) \in Nat
  BY ClientsAssumption, UpType DEF Requests, Client
<1>1. /\ pc[r] \notin Asking
      /\ \A i \in Nat : ~Accepts(r, i) /\ ~Accepted(r, i)
  BY DEF Gone, Pending
<1>2. ASSUME SameClient(r), NoNews(r)
      PROVE  Gone(r)'
  <2>1. pc'[r] = pc[r] /\ up'[r] = up[r]
    BY <1>2 DEF SameClient
  <2>2. \A i \in Nat : ~Accepts(r, i)'
    BY <1>1, <2>1 DEF Accepts
  <2>3. PICK k \in {0, 1} : \A i : Accepted(r, i)' => Accepted(r, i + k)
    BY <1>2, StillHeard
  <2>4. \A i \in Nat : ~Accepted(r, i)'
    BY <1>1, <2>3
  <2> QED
    BY <1>1, <2>1, <2>2, <2>4 DEF Gone, Pending
<1>3. ASSUME pc'[r] \notin Asking, incoming' = incoming,
             \A i \in Nat : Accepts(r, i)' => Accepts(r, i)
      PROVE  Gone(r)'
  BY <1>1, <1>3 DEF Gone, Pending, Accepted
<1>4. CASE ReceiverWork(r) /\ UNCHANGED serverVars
  BY <1>0, <1>1, <1>3, <1>4, ReceiverMoves DEF serverVars
<1>5. CASE ServerReads(r)
  <2>1. pc' = pc
    BY <1>5 DEF ServerReads
  <2>2. \A i \in Nat : ~Accepts(r, i)' /\ ~Accepted(r, i)'
    BY <1>0, <1>1, <1>5, ReadsAccepts
  <2> QED
    BY <1>1, <2>1, <2>2 DEF Gone, Pending
<1>6. CASE NetworkWork(r) /\ ~ServerReads(r)
  <2>1. /\ UNCHANGED incoming /\ (Unread(r) \/ up' = up)
        /\ pc' = pc \/ (pc[r] = "new")
    BY <1>6 DEF NetworkWork, NetworkStep, Reset, Start, ServerWrites, ServerCloses,
         ServerNotices, ClientNotices, Server!Connect, Server!storage, Server!CloseFlushed,
         Server!WriteDone, Server!ConnectionLost, Server!Close, serverVars, clientVars
  <2>2. Shorter(up'[r], up[r]) /\ up'[r] \in Seq(Server!ClientMessage)
    BY <1>0, <2>1, UnreadShorter
  <2>3. \A i \in Nat : Accepts(r, i)' => Accepts(r, i)
    BY <1>0, <2>2 DEF Accepts, Shorter
  <2>4. pc'[r] \notin Asking
    BY <1>1, <2>1 DEF Asking
  <2> QED
    BY <1>3, <2>1, <2>3, <2>4
<1>7. \A c \in Client : Elsewhere(c) /\ c # r => SameClient(r) /\ NoNews(r)
  BY <1>0 DEF Elsewhere
<1>8. ServerHandles \/ UNCHANGED vars => SameClient(r) /\ NoNews(r)
  BY <1>0, HandlerElsewhere, StandStill
<1> QED
  BY <1>0, <1>2, <1>4, <1>5, <1>6, <1>7, <1>8, StepCases DEF Client

(* No session but s's leads to r, and no other will. *)
Only(s, r) == \A t \in Sender : sink[t] = r => t = s

(* A session comes with a Receive and by nothing else. *)
LEMMA NewSession ==
    ASSUME Known, [Next]_vars, NEW t \in Sender, NEW r \in Receiver, sink'[t] = r, sink[t] # r
    PROVE  /\ ServerHandles /\ Joined(incoming[1], t) /\ incoming[1].remote = r
           /\ incoming[1].msg.id = "Receive" /\ Accepted(r, 1) /\ incoming' = Tail(incoming)
           /\ incoming # <<>> /\ sink[t] = None
<1>0. t \in Client /\ r \in Client /\ r # None /\ Sender \subseteq Client
  BY ClientsAssumption DEF Client
<1>1. UNCHANGED sink \/ ServerHandles
  BY StepCases DEF vars, serverVars, NetworkWork, NetworkStep, Reset, Start, ServerReads,
       ServerWrites, ServerCloses, ServerNotices, ClientNotices, Server!Connect, Server!storage,
       Server!CloseFlushed, Server!WriteDone, Server!ConnectionLost, Server!Close, Server!Arrive
<1>2. ServerHandles
  BY <1>1
<1>3. PICK e : e = Head(incoming)
  OBVIOUS
<1>4. /\ Handled(e) /\ e = incoming[1] /\ 1 \in 1 .. Len(incoming) /\ incoming # <<>>
      /\ incoming' = Tail(incoming) /\ incoming \in Seq(Heard)
  <2>1. Handled(e) /\ e = incoming[1] /\ Len(incoming) >= 1 /\ incoming \in Seq(Heard)
    BY <1>2, <1>3, HandlerElsewhere, UpType, <1>0
  <2> QED
    BY <1>2, <2>1 DEF ServerHandles, Server!Update
<1>5. ASSUME NEW u \in Sender, Completed(e, u) \/ BrokenOff(e, u)
      PROVE  FALSE
  BY <1>0, <1>5, WithdrawnFacts DEF Completed, BrokenOff
<1>6. PICK u \in Sender : Joined(e, u)
  BY <1>4, <1>5 DEF Handled, Ignored, Offered, Answered, Refusal, Relayed
<1>7. t = u /\ sink'[t] = IF sink[t] = None THEN e.remote ELSE sink[t]
  BY <1>0, <1>6, JoinedFacts
<1>8. e.remote = r /\ e.msg.id = "Receive" /\ sink[t] = None
  BY <1>6, <1>7 DEF Joined
<1> QED
  BY <1>2, <1>4, <1>6, <1>7, <1>8 DEF Accepted

LEMMA StaysOnly ==
    ASSUME Known, [Next]_vars, NEW s \in Sender, NEW r \in Receiver, Gone(r), Only(s, r)
    PROVE  Only(s, r)'
<1>1. ~Accepted(r, 1)
  BY DEF Gone, Pending
<1>2. \A t \in Sender : sink'[t] = r => sink[t] = r
  BY <1>1, NewSession
<1> QED
  BY <1>2 DEF Only

(* Only its own routine writes to a receiver's file. *)
LEMMA OthersLeaveFile ==
    ASSUME Known, [Next]_vars, NEW r \in Receiver
    PROVE  \/ ReceiverWork(r) /\ UNCHANGED serverVars
           \/ /\ got'[r] = got[r] /\ diskBad'[r] = diskBad[r]
              /\ pc'[r] = pc[r] \/ (pc[r] = "new" /\ pc'[r] = "hello")
<1>0. r \in Client /\ r \notin Sender
  BY ClientsAssumption DEF Client
<1>1. \A c \in Client : Elsewhere(c) /\ c # r => SameClient(r)
  BY <1>0 DEF Elsewhere
<1>2. ServerHandles \/ UNCHANGED vars => SameClient(r)
  BY <1>0, HandlerElsewhere, StandStill
<1>3. NetworkWork(r) => /\ got'[r] = got[r] /\ diskBad'[r] = diskBad[r]
                        /\ pc'[r] = pc[r] \/ (pc[r] = "new" /\ pc'[r] = "hello")
  BY <1>0 DEF NetworkWork, NetworkStep, Reset, Start, ServerReads, ServerWrites, ServerCloses,
         ServerNotices, ClientNotices, clientVars, dataVars, Go, Known, Sending
<1>4. SameClient(r) => got'[r] = got[r] /\ diskBad'[r] = diskBad[r] /\ pc'[r] = pc[r]
  BY DEF SameClient
<1> QED
  BY <1>0, <1>1, <1>2, <1>3, <1>4, StepCases DEF Client

LEMMA StaysBad ==
    ASSUME Known, Requests, [Next]_vars, NEW r \in Receiver, diskBad[r]
    PROVE  diskBad'[r]
  BY OthersLeaveFile, ReceiverMoves DEF Requests

LEMMA StaysOver ==
    ASSUME Known, Requests, [Next]_vars, NEW r \in Receiver, pc[r] \in Over \cup {"flushing"}
    PROVE  pc'[r] \in Over \cup {"flushing"} /\ got'[r] = got[r]
<1>1. pc[r] \notin {"new", "receiving"}
  BY DEF Over
<1> QED
  BY <1>1, OthersLeaveFile, ReceiverMoves DEF Requests

-----------------------------------------------------------------------------
(* The stream from a sender to a receiver.                                 *)

(* What r has in its file are the first parts of what s has sent. *)
Prefix(s, r) ==
    /\ Len(got[r]) <= sent[s]
    /\ \A i \in 1 .. Len(got[r]) :
          got[r][i] = [file |-> FileOf[s], part |-> i, sound |-> TRUE]

(* s is the one sender that r can still hear from. *)
Served(s, r) ==
    /\ code[s] = code[r] /\ code[s] # None
    /\ Gone(r) /\ Only(s, r) /\ Prefix(s, r)

(* From the sender up to the main thread: y is the last number the main    *)
(* thread has passed on.                                                   *)
Way(s, y) ==
    \E u \in Nat :
        /\ CarriesOf(Mark(s), s, incoming, y, u)
        /\ u <= Count(Mark(s))
        /\ Follows(Mark(s), up[s], u)
        /\ link[s] /\ conn[s] = "open" => Whole(Mark(s), up[s], u)

(* From the sender up to the receiver's inbox, as long as it is filled. *)
Wire(s, r, x) ==
    link[r] => \E y \in Nat :
        /\ Carries(Mark(s), out[r], x, y)
        /\ conn[r] = "open" /\ sink[s] = r => Way(s, y)

(* From the sender up to the receiver's file, as long as it is written. *)
Flow(s, r) ==
    pc[r] = "receiving" /\ ~diskBad[r] => \E x \in Nat :
        /\ Carries(Mark(s), inbox[r], Len(got[r]), x)
        /\ Wire(s, r, x)

HasFinal(q) == \E i \in 1 .. Len(q) : q[i].id = "FinalChunk"

FinalSeen(s, r) == HasFinal(inbox[r]) \/ HasFinal(out[r]) => ended[s] /\ Quiet(s)

Feeds(s, r) == Served(s, r) /\ FinalSeen(s, r) /\ Flow(s, r)

(* r has all of s, and s has no more. *)
Complete(s, r) ==
    /\ Served(s, r)
    /\ sent[s] = Len(got[r]) /\ ended[s] /\ Quiet(s)
    /\ pc[r] \in Over \cup {"flushing"}

(* r has reported success, or says so. *)
HasSaid(r) ==
    \/ pc[r] \in {"flushing", "ok"}
    \/ \E i \in 1 .. Len(up[r]) : up[r][i].id = "FinishReceive"
    \/ \E i \in 1 .. Len(incoming) :
          incoming[i].remote = r /\ incoming[i].msg.id = "FinishReceive"

Done(r) == HasSaid(r) => diskBad[r] \/ \E s \in Sender : Complete(s, r)

Fed(r) == (Dry(r) /\ Sinkless(r)) \/ \E s \in Sender : Feeds(s, r)

(* s has been told of success, or is being told. *)
Assured(s) ==
    Has(inbox[s], "Success") \/ Has(out[s], "Success") \/ pc[s] = "ok" =>
        \E r \in Receiver : code[r] = code[s] /\ (diskBad[r] \/ Complete(s, r))

Streams ==
    /\ \A r \in Receiver : Fed(r) /\ Done(r)
    /\ \A s \in Sender : Assured(s)

LEMMA StaysServed ==
    ASSUME Known, Known', Codes, Requests, Finals, [Next]_vars,
           NEW s \in Sender, NEW r \in Receiver, Served(s, r), got'[r] = got[r]
    PROVE  Served(s, r)'
<1>1. s \in Client /\ r \in Client
  BY DEF Client
<1>2. code'[s] = code[s] /\ code'[r] = code[r]
  BY <1>1, StepKeepsCode DEF CodesStay, Served
<1>3. Gone(r)' /\ Only(s, r)'
  BY StaysGone, StaysOnly DEF Served
<1>4. /\ sent[s] \in Nat /\ sent'[s] \in Nat /\ sent[s] <= sent'[s]
      /\ Len(got[r]) \in Nat
  <2>1. sent[s] \in Nat /\ sent'[s] \in Nat /\ got[r] \in Seq(Body)
    BY DEF Known, Sending, ClientTypes
  <2>2. sent'[s] = sent[s] \/ sent[s] <= sent'[s]
    BY MarkGrows DEF Grows, Mark
  <2> QED
    BY <2>1, <2>2
<1>5. Prefix(s, r)'
  BY <1>4 DEF Served, Prefix
<1> QED
  BY <1>2, <1>3, <1>5 DEF Served

LEMMA StaysComplete ==
    ASSUME Known, Known', Codes, Requests, Finals, [Next]_vars,
           NEW s \in Sender, NEW r \in Receiver, Complete(s, r)
    PROVE  Complete(s, r)'
<1>1. pc'[r] \in Over \cup {"flushing"} /\ got'[r] = got[r]
  BY StaysOver DEF Complete
<1>2. Served(s, r)'
  BY <1>1, StaysServed DEF Complete
<1>3. ended'[s] /\ Quiet(s)'
  BY StaysQuiet DEF Complete
<1>4. sent'[s] = sent[s]
  BY MarkGrows DEF Grows, Mark, Complete
<1> QED
  BY <1>1, <1>2, <1>3, <1>4 DEF Complete

-----------------------------------------------------------------------------
(* The stream under the steps.                                             *)

(* The server says nothing to r that is of the stream. *)
Aside(r) ==
    \/ out'[r] = out[r]
    \/ \E a \in Server!Message : ~IsData(a) /\ out'[r] = Append(out[r], a)

LEMMA AsideCarries ==
    ASSUME Known, NEW r \in Receiver, Aside(r), NEW k \in Marks, NEW x \in Nat, NEW y \in Nat,
           Carries(k, out[r], x, y)
    PROVE  Carries(k, out'[r], x, y)
<1>1. out[r] \in Seq(Server!Message)
  BY UpType DEF Client
<1>2. ASSUME NEW a \in Server!Message, ~IsData(a), out'[r] = Append(out[r], a)
      PROVE  Carries(k, out'[r], x, y)
  <2>1. Tag(k, a) = 0
    BY <1>2, TagType
  <2> QED
    BY <1>1, <1>2, <2>1, CarriesAppend
<1> QED
  BY <1>2 DEF Aside

LEMMA AsideFinal ==
    ASSUME Known, NEW r \in Receiver, Aside(r)
    PROVE  /\ HasFinal(out'[r]) => HasFinal(out[r])
           /\ DryQueue(out[r]) => DryQueue(out'[r])
<1>1. out[r] \in Seq(Server!Message) /\ Len(out[r]) \in Nat
  BY UpType DEF Client
<1>2. ASSUME NEW a \in Server!Message, ~IsData(a), out'[r] = Append(out[r], a)
      PROVE  /\ HasFinal(out'[r]) => HasFinal(out[r])
             /\ DryQueue(out[r]) => DryQueue(out'[r])
  <2>1. \A i \in 1 .. Len(out'[r]) :
           \/ i \in 1 .. Len(out[r]) /\ out'[r][i] = out[r][i]
           \/ out'[r][i] = a
    BY <1>1, <1>2
  <2> QED
    BY <1>2, <2>1 DEF HasFinal, DryQueue, IsData
<1> QED
  BY <1>2 DEF Aside

(* As far as the server's queue, what is not touched stays. *)
LEMMA WireFrame ==
    ASSUME Known, NEW s \in Sender, NEW r \in Receiver,
           Mark(s) \in Marks, Mark(s)' \in Marks, Grows(Mark(s), Mark(s)'),
           NEW x \in Nat, Wire(s, r, x),
           Aside(r), link'[r] => link[r],
           conn'[r] = "open" /\ sink'[s] = r =>
               /\ conn[r] = "open" /\ sink[s] = r
               /\ \A y \in Nat : Way(s, y) => Way(s, y)'
    PROVE  Wire(s, r, x)'
<1>1. PICK k, k2 : k = Mark(s) /\ k2 = Mark(s)'
  OBVIOUS
<1>2. out[r] \in Seq(Server!Message)
  BY UpType DEF Client
<1> SUFFICES ASSUME link'[r]
             PROVE  \E y \in Nat :
                       /\ Carries(k2, out'[r], x, y)
                       /\ conn'[r] = "open" /\ sink'[s] = r => Way(s, y)'
  BY <1>1 DEF Wire
<1>3. PICK y \in Nat : /\ Carries(k, out[r], x, y)
                       /\ conn[r] = "open" /\ sink[s] = r => Way(s, y)
  BY <1>1 DEF Wire
<1>4. Carries(k2, out[r], x, y)
  BY <1>1, <1>2, <1>3, GrowCarries
<1>5. Carries(k2, out'[r], x, y)
  BY <1>1, <1>4, AsideCarries
<1> QED
  BY <1>3, <1>5

LEMMA FlowFrame ==
    ASSUME Known, NEW s \in Sender, NEW r \in Receiver,
           Mark(s) \in Marks, Mark(s)' \in Marks, Grows(Mark(s), Mark(s)'), Flow(s, r),
           got'[r] = got[r], inbox'[r] = inbox[r],
           pc'[r] = "receiving" => pc[r] = "receiving", diskBad[r] => diskBad'[r],
           \A x \in Nat : Wire(s, r, x) => Wire(s, r, x)'
    PROVE  Flow(s, r)'
<1>1. PICK k, k2 : k = Mark(s) /\ k2 = Mark(s)'
  OBVIOUS
<1>2. inbox[r] \in Seq(Server!Message) /\ Len(got[r]) \in Nat
  BY UpType DEF Client, Known, ClientTypes
<1> SUFFICES ASSUME pc'[r] = "receiving", ~diskBad'[r]
             PROVE  \E x \in Nat : Carries(k2, inbox'[r], Len(got'[r]), x) /\ Wire(s, r, x)'
  BY <1>1 DEF Flow
<1>3. PICK x \in Nat : Carries(k, inbox[r], Len(got[r]), x) /\ Wire(s, r, x)
  BY <1>1 DEF Flow
<1>4. Carries(k2, inbox[r], Len(got[r]), x)
  BY <1>1, <1>2, <1>3, GrowCarries
<1> QED
  BY <1>3, <1>4

(* What a step does to the way from the sender that is not one of its own. *)
LEMMA WayFrame ==
    ASSUME Known, NEW s \in Sender, Mark(s) \in Marks,
           Mark(s)' = Mark(s), up'[s] = up[s], link'[s] /\ conn'[s] = "open" => link[s] /\ conn[s] = "open",
           \/ incoming' = incoming
           \/ \E e \in Heard : e.remote # s /\ incoming' = Append(incoming, e)
           \/ /\ incoming # <<>> /\ incoming' = Tail(incoming)
              /\ Head(incoming).remote # s \/ ~IsData(Head(incoming).msg)
    PROVE  \A y \in Nat : Way(s, y) => Way(s, y)'
<1> SUFFICES ASSUME NEW y \in Nat, Way(s, y)
             PROVE  Way(s, y)'
  OBVIOUS
<1>1. PICK k \in Marks : k = Mark(s) /\ k = Mark(s)'
  OBVIOUS
<1>2. incoming \in Seq(Heard)
  BY UpType DEF Client
<1>3. PICK u \in Nat : /\ CarriesOf(k, s, incoming, y, u) /\ u <= Count(k)
                       /\ Follows(k, up[s], u)
                       /\ link[s] /\ conn[s] = "open" => Whole(k, up[s], u)
  BY <1>1 DEF Way
<1>4. CarriesOf(k, s, incoming', y, u)
  <2>1. ASSUME NEW e \in Heard, e.remote # s, incoming' = Append(incoming, e)
        PROVE  CarriesOf(k, s, incoming', y, u)
    BY <1>2, <1>3, <2>1, CarriesOfAppend
  <2>2. CASE /\ incoming # <<>> /\ incoming' = Tail(incoming)
             /\ Head(incoming).remote # s \/ ~IsData(Head(incoming).msg)
    <3>1. PICK e : e = Head(incoming)
      OBVIOUS
    <3>2. e.remote # s \/ Tag(k, e.msg) = 0
      BY <2>2, <3>1, TagType
    <3> QED
      BY <1>2, <1>3, <2>2, <3>1, <3>2, CarriesOfTail
  <2> QED
    BY <1>3, <2>1, <2>2
<1>5. \E v \in Nat : /\ CarriesOf(k, s, incoming', y, v) /\ v <= Count(k)
                     /\ Follows(k, up'[s], v)
                     /\ link'[s] /\ conn'[s] = "open" => Whole(k, up'[s], v)
  BY <1>3, <1>4
<1> QED
  BY <1>1, <1>5 DEF Way

(* The end of the connection from s is lost: nothing more has to follow. *)
LEMMA WayShorter ==
    ASSUME Known, NEW s \in Sender, Mark(s) \in Marks, Mark(s)' = Mark(s), incoming' = incoming,
           Shorter(up'[s], up[s]), up'[s] \in Seq(Server!ClientMessage),
           ~(link'[s] /\ conn'[s] = "open")
    PROVE  \A y \in Nat : Way(s, y) => Way(s, y)'
<1> SUFFICES ASSUME NEW y \in Nat, Way(s, y)
             PROVE  Way(s, y)'
  OBVIOUS
<1>1. PICK k \in Marks : k = Mark(s) /\ k = Mark(s)'
  OBVIOUS
<1>2. PICK u \in Nat : /\ CarriesOf(k, s, incoming, y, u) /\ u <= Count(k)
                       /\ Follows(k, up[s], u)
  BY <1>1 DEF Way
<1>3. up[s] \in Seq(Server!ClientMessage)
  BY UpType DEF Client
<1>4. Follows(k, up'[s], u)
  BY <1>2, <1>3, FollowsPrefix DEF Shorter
<1>5. \E v \in Nat : /\ CarriesOf(k, s, incoming', y, v) /\ v <= Count(k)
                     /\ Follows(k, up'[s], v)
                     /\ link'[s] /\ conn'[s] = "open" => Whole(k, up'[s], v)
  BY <1>2, <1>4
<1> QED
  BY <1>1, <1>5 DEF Way

(* The next number is sent, or nothing is because the connection is gone. *)
LEMMA WaySpeaks ==
    ASSUME Known, NEW s \in Sender, Mark(s) \in Marks, Mark(s)' \in Marks,
           Grows(Mark(s), Mark(s)'), Count(Mark(s)') = Count(Mark(s)) + 1,
           UNCHANGED <<incoming, link, conn>>,
           NEW m \in Server!ClientMessage, Queue(s, m), Tag(Mark(s)', m) = Count(Mark(s)')
    PROVE  \A y \in Nat : Way(s, y) => Way(s, y)'
<1> SUFFICES ASSUME NEW y \in Nat, Way(s, y)
             PROVE  Way(s, y)'
  OBVIOUS
<1>1. PICK k \in Marks, k2 \in Marks : k = Mark(s) /\ k2 = Mark(s)'
  OBVIOUS
<1>2. /\ Grows(k, k2) /\ Count(k2) = Count(k) + 1 /\ Tag(k2, m) = Count(k2)
      /\ Count(k) \in Nat
  BY <1>1 DEF Count, Marks
<1>3. PICK u \in Nat : /\ CarriesOf(k, s, incoming, y, u) /\ u <= Count(k)
                       /\ Follows(k, up[s], u)
                       /\ link[s] /\ conn[s] = "open" => Whole(k, up[s], u)
  BY <1>1 DEF Way
<1>4. s \in Client /\ up[s] \in Seq(Server!ClientMessage) /\ incoming \in Seq(Heard)
  BY UpType DEF Client
<1>5. /\ CarriesOf(k2, s, incoming, y, u)
      /\ Follows(k2, up[s], u) /\ Tags(k2, up[s]) = Tags(k, up[s])
  BY <1>2, <1>3, <1>4, GrowCarries
<1>6. CASE link[s] /\ conn[s] = "open"
  <2>1. up'[s] = Append(up[s], m)
    BY <1>4, <1>6 DEF Queue, Put, Known, Sending
  <2>2. Tag(k2, m) > u
    BY <1>2, <1>3
  <2>3. \A i \in 1 .. Len(up[s]) : Tag(k2, up[s][i]) < Tag(k2, m)
    <3>1. ASSUME NEW i \in 1 .. Len(up[s])
          PROVE  Tag(k2, up[s][i]) = Tag(k, up[s][i]) /\ Tag(k, up[s][i]) \in Int
                 /\ Tag(k, up[s][i]) <= Count(k)
      <4>1. Tags(k2, up[s])[i] = Tag(k2, up[s][i]) /\ Tags(k, up[s])[i] = Tag(k, up[s][i])
        BY DEF Tags
      <4> QED
        BY <1>5, <4>1, TagType
    <3> QED
      BY <1>2, <3>1
  <2>4. Full(Tags(k2, up[s]), Len(up[s]), u, Count(k2) - 1)
    <3>1. Count(k2) - 1 = Count(k)
      BY <1>2
    <3> QED
      BY <1>3, <1>5, <1>6, <3>1 DEF Whole
  <2>5. Follows(k2, up'[s], u) /\ Whole(k2, up'[s], u)
    BY <1>2, <1>4, <1>5, <2>1, <2>2, <2>3, <2>4, FollowsAppend
  <2>6. u <= Count(k2)
    BY <1>2, <1>3
  <2>7. \E v \in Nat : /\ CarriesOf(k2, s, incoming', y, v) /\ v <= Count(k2)
                       /\ Follows(k2, up'[s], v)
                       /\ link'[s] /\ conn'[s] = "open" => Whole(k2, up'[s], v)
    BY <1>5, <2>5, <2>6
  <2> QED
    BY <1>1, <2>7 DEF Way
<1>7. CASE ~(link[s] /\ conn[s] = "open")
  <2>1. up'[s] = up[s]
    BY <1>4, <1>7 DEF Queue, Put, Known, Sending
  <2>2. u <= Count(k2)
    BY <1>2, <1>3
  <2>3. \E v \in Nat : /\ CarriesOf(k2, s, incoming', y, v) /\ v <= Count(k2)
                       /\ Follows(k2, up'[s], v)
                       /\ link'[s] /\ conn'[s] = "open" => Whole(k2, up'[s], v)
    BY <1>5, <1>7, <2>1, <2>2
  <2> QED
    BY <1>1, <2>3 DEF Way
<1> QED
  BY <1>6, <1>7

(* The server reads the next one of s. *)
LEMMA WayReads ==
    ASSUME Known, NEW s \in Sender, Mark(s) \in Marks, Mark(s)' = Mark(s),
           up[s] # <<>>, up'[s] = Tail(up[s]), UNCHANGED <<link, conn>>,
           incoming' = Append(incoming, [remote |-> s, msg |-> Head(up[s])])
    PROVE  \A y \in Nat : Way(s, y) => Way(s, y)'
<1> SUFFICES ASSUME NEW y \in Nat, Way(s, y)
             PROVE  Way(s, y)'
  OBVIOUS
<1>1. PICK k \in Marks : k = Mark(s) /\ k = Mark(s)'
  OBVIOUS
<1>2. PICK u \in Nat : /\ CarriesOf(k, s, incoming, y, u) /\ u <= Count(k)
                       /\ Follows(k, up[s], u)
                       /\ link[s] /\ conn[s] = "open" => Whole(k, up[s], u)
  BY <1>1 DEF Way
<1>3. s \in Client /\ up[s] \in Seq(Speech(s)) /\ incoming \in Seq(Heard)
      /\ Speech(s) \subseteq Server!ClientMessage
  BY DEF Client, Known, Kinds, Speech, SenderMessage, ReceiverMessage
<1>4. PICK m \in Speech(s) : m = Head(up[s])
  BY <1>3, HeadTail
<1>5. PICK e \in Heard : e = [remote |-> s, msg |-> m]
  BY <1>3 DEF Heard
<1>6. incoming' = Append(incoming, e) /\ e.remote = s /\ e.msg = m
  BY <1>4, <1>5
<1>7. \E v \in Nat : /\ CarriesOf(k, s, incoming', y, v) /\ v <= Count(k)
                     /\ Follows(k, up'[s], v)
                     /\ link'[s] /\ conn'[s] = "open" => Whole(k, up'[s], v)
  <2>1. CASE Tag(k, m) = 0
    <3>1. CarriesOf(k, s, incoming', y, u)
      BY <1>2, <1>3, <1>6, <2>1, CarriesOfAppend
    <3>2. Follows(k, up'[s], u) /\ (Whole(k, up[s], u) => Whole(k, up'[s], u))
      BY <1>2, <1>3, <1>4, <2>1, FollowsTail
    <3> QED
      BY <1>2, <3>1, <3>2
  <2>2. CASE Tag(k, m) # 0
    <3>1. /\ Tag(k, m) = u + 1 /\ Follows(k, up'[s], u + 1)
          /\ Whole(k, up[s], u) => Whole(k, up'[s], u + 1)
      BY <1>2, <1>3, <1>4, <2>2, FollowsTail
    <3>2. CarriesOf(k, s, incoming', y, u + 1)
      BY <1>2, <1>3, <1>6, <3>1, CarriesOfAppend
    <3>3. u + 1 <= Count(k) /\ u + 1 \in Nat
      BY <3>1, TagType
    <3> QED
      BY <1>2, <3>1, <3>2, <3>3
  <2> QED
    BY <2>1, <2>2
<1> QED
  BY <1>1, <1>7 DEF Way

(* A flipped bit leaves the numbers as they are. *)
LEMMA WayCorrupt ==
    ASSUME Known, NEW s \in Sender, Mark(s) \in Marks, Corrupt(s)
    PROVE  \A y \in Nat : Way(s, y) => Way(s, y)'
<1> SUFFICES ASSUME NEW y \in Nat, Way(s, y)
             PROVE  Way(s, y)'
  OBVIOUS
<1>1. /\ up'[s] \in Seq(Server!ClientMessage) /\ Len(up'[s]) = Len(up[s])
      /\ \A j \in 1 .. Len(up[s]) :
            /\ up'[s][j].id = up[s][j].id
            /\ up[s][j].id = "Chunk" => /\ up'[s][j].body.file = up[s][j].body.file
                                        /\ up'[s][j].body.part = up[s][j].body.part
      /\ UNCHANGED <<incoming, conn, link, sent, ended>>
  BY CorruptFacts DEF serverVars, dataVars
<1>2. PICK k \in Marks : k = Mark(s) /\ k = Mark(s)'
  BY <1>1 DEF Mark
<1>3. \A j \in 1 .. Len(up[s]) : Tag(k, up'[s][j]) = Tag(k, up[s][j])
  BY <1>1 DEF Tag, IsData
<1>4. Tags(k, up'[s]) = Tags(k, up[s])
  BY <1>1, <1>3 DEF Tags
<1>5. \A v : /\ Follows(k, up[s], v) => Follows(k, up'[s], v)
             /\ Whole(k, up[s], v) => Whole(k, up'[s], v)
  BY <1>1, <1>4 DEF Follows, Whole
<1>6. PICK u \in Nat : /\ CarriesOf(k, s, incoming, y, u) /\ u <= Count(k)
                       /\ Follows(k, up[s], u)
                       /\ link[s] /\ conn[s] = "open" => Whole(k, up[s], u)
  BY <1>2 DEF Way
<1>7. \E v \in Nat : /\ CarriesOf(k, s, incoming', y, v) /\ v <= Count(k)
                     /\ Follows(k, up'[s], v)
                     /\ link'[s] /\ conn'[s] = "open" => Whole(k, up'[s], v)
  BY <1>1, <1>5, <1>6
<1> QED
  BY <1>2, <1>7 DEF Way

LEMMA WayWorks ==
    ASSUME Known, Known', Finals, Codes, [Next]_vars, NEW s \in Sender, code[s] # None,
           SenderWork(s), UNCHANGED serverVars
    PROVE  \A y \in Nat : Way(s, y) => Way(s, y)'
<1>0. /\ s \in Client /\ Final(s) /\ Code(s) /\ UNCHANGED <<incoming, conn>>
      /\ up[s] \in Seq(Server!ClientMessage) /\ sent[s] \in Nat /\ sent \in [Sender -> Nat]
      /\ ended \in [Sender -> BOOLEAN]
  BY UpType DEF Client, Finals, Codes, serverVars, Known, Sending, ClientTypes
<1>1. Mark(s) \in Marks /\ Mark(s)' \in Marks /\ Grows(Mark(s), Mark(s)')
  BY MarkGrows
<1>2. ASSUME NEW result \in Over, Leave(s, result, up[s]), UNCHANGED <<sent, ended>>
      PROVE  \A y \in Nat : Way(s, y) => Way(s, y)'
  <2>1. /\ Shorter(up'[s], up[s]) /\ up'[s] \in Seq(Server!ClientMessage) /\ ~link'[s]
    BY <1>0, <1>2, LeaveShorter
  <2>2. Mark(s)' = Mark(s)
    BY <1>2 DEF Mark
  <2> QED
    BY <1>0, <1>1, <2>1, <2>2, WayShorter
<1>3. ASSUME UNCHANGED <<up, link, sent, ended>>
      PROVE  \A y \in Nat : Way(s, y) => Way(s, y)'
  <2>1. Mark(s)' = Mark(s)
    BY <1>3 DEF Mark
  <2> QED
    BY <1>0, <1>1, <1>3, <2>1, WayFrame
<1>4. ~Announce(s)
  BY <1>0 DEF Announce, Code
<1>5. CASE AwaitReceiver(s)
  BY <1>2, <1>3, <1>5 DEF AwaitReceiver, Answer, Over
<1>6. CASE SendChunk(s)
  <2>1. PICK b : b = Contents(FileOf[s])[sent[s] + 1]
    OBVIOUS
  <2>2. /\ b = [file |-> FileOf[s], part |-> sent[s] + 1, sound |-> TRUE] /\ b \in Body
        /\ sent'[s] = sent[s] + 1 /\ ended' = ended /\ link' = link
        /\ Queue(s, Server!Chunk(b)) /\ ~ended[s]
    <3>1. sent[s] < Parts[FileOf[s]] /\ Parts[FileOf[s]] \in Nat
      BY <1>6, FilesAssumption DEF SendChunk
    <3>2. b = [file |-> FileOf[s], part |-> sent[s] + 1, sound |-> TRUE]
      BY <1>0, <2>1, <3>1 DEF Contents
    <3>3. b \in Body
      BY <2>1, <3>1, NextChunk
    <3>4. pc[s] = "sending"
      BY <1>6 DEF SendChunk
    <3>5. ~ended[s]
      BY <1>0, <3>4 DEF Final, Reading, Over
    <3> QED
      BY <1>0, <1>6, <2>1, <3>2, <3>3, <3>5 DEF SendChunk
  <2>3. PICK m \in Server!ClientMessage : m = Server!Chunk(b)
    BY <2>2, ChunkIsClientMessage
  <2>4. m.id = "Chunk" /\ m.body = b
    BY <2>3 DEF Server!Chunk, Server!Encode
  <2>5. Count(Mark(s)') = Count(Mark(s)) + 1 /\ Count(Mark(s)') = sent[s] + 1
    BY <2>2 DEF Count, Mark
  <2>6. Tag(Mark(s)', m) = sent[s] + 1
    <3>1. PICK k2 : k2 = Mark(s)'
      OBVIOUS
    <3>2. k2.file = FileOf[s] /\ k2.sent = sent[s] + 1
      BY <2>2, <3>1 DEF Mark
    <3>3. Tag(k2, m) = sent[s] + 1
      BY <1>0, <2>2, <2>4, <3>2 DEF Tag
    <3> QED
      BY <3>1, <3>3
  <2> QED
    BY <1>0, <1>1, <2>2, <2>3, <2>5, <2>6, WaySpeaks
<1>7. CASE EndOfInput(s)
  <2>1. /\ sent' = sent /\ ended'[s] /\ link' = link /\ ~ended[s] /\ ended'[s] \in BOOLEAN
        /\ Queue(s, Server!Signal("FinalChunk"))
    <3>1. pc[s] = "sending"
      BY <1>7 DEF EndOfInput
    <3>2. ~ended[s]
      BY <1>0, <3>1 DEF Final, Reading, Over
    <3> QED
      BY <1>0, <1>7, <3>2 DEF EndOfInput
  <2>2. PICK m \in Server!ClientMessage : m = Server!Signal("FinalChunk")
    BY SignalIsClientMessage
  <2>3. m.id = "FinalChunk"
    BY <2>2 DEF Server!Signal, Server!Encode
  <2>4. Count(Mark(s)') = Count(Mark(s)) + 1 /\ Count(Mark(s)') = sent[s] + 1
    BY <2>1 DEF Count, Mark
  <2>5. Tag(Mark(s)', m) = sent[s] + 1
    <3>1. PICK k2 : k2 = Mark(s)'
      OBVIOUS
    <3>2. k2.ended /\ k2.sent = sent[s]
      BY <2>1, <3>1 DEF Mark
    <3>3. Tag(k2, m) = sent[s] + 1
      BY <2>3, <3>2 DEF Tag
    <3> QED
      BY <3>1, <3>3
  <2> QED
    BY <1>0, <1>1, <2>1, <2>2, <2>4, <2>5, WaySpeaks
<1>8. CASE StopSending(s)
  <2>1. ~link[s] /\ UNCHANGED <<sent, ended>>
    BY <1>8, NeverAborted DEF StopSending, dataVars
  <2>2. Leave(s, "failed", up[s])
    BY <1>8, <2>1 DEF StopSending, Put
  <2> QED
    BY <1>2, <2>1, <2>2 DEF Over
<1>9. CASE Confirm(s)
  <2>1. \/ Leave(s, "ok", up[s])
        \/ Leave(s, "failed", up[s])
        \/ UNCHANGED <<pc, link, up>>
    BY <1>9 DEF Confirm
  <2>2. UNCHANGED <<sent, ended>>
    BY <1>9 DEF Confirm, dataVars
  <2> QED
    BY <1>2, <1>3, <2>1, <2>2 DEF Over
<1>10. CASE Crash(s) \/ FileGone(s)
  BY <1>2, <1>10 DEF Crash, FileGone, dataVars, Over
<1> QED
  BY <1>4, <1>5, <1>6, <1>7, <1>8, <1>9, <1>10
     DEF SenderWork, SenderStep, FinishSending, ReadError

LEMMA WayNetwork ==
    ASSUME Known, Codes, NEW s \in Sender, code[s] # None, Mark(s) \in Marks, NetworkWork(s)
    PROVE  \A y \in Nat : Way(s, y) => Way(s, y)'
<1>0. /\ s \in Client /\ Code(s) /\ up[s] \in Seq(Server!ClientMessage)
      /\ conn \in [Client -> {"absent", "open", "closed"}]
  BY UpType DEF Client, Codes, Known, ServerSafe, Server!TypeOK
<1>1. Mark(s)' = Mark(s)
  BY DEF NetworkWork, NetworkStep, Reset, Start, ServerReads, ServerWrites, ServerCloses,
         ServerNotices, ClientNotices, clientVars, dataVars, Mark
<1>2. ~Start(s)
  BY <1>0 DEF Start, Code
<1>3. CASE ServerReads(s)
  <2>1. /\ up[s] # <<>> /\ up'[s] = Tail(up[s]) /\ UNCHANGED <<link, conn>>
        /\ incoming' = Append(incoming, [remote |-> s, msg |-> Head(up[s])])
    BY <1>0, <1>3 DEF ServerReads, Server!Arrive, Known, Sending
  <2> QED
    BY <1>1, <2>1, WayReads
<1>4. CASE ServerWrites(s)
  <2>1. UNCHANGED <<incoming, up, link, conn>>
    BY <1>4 DEF ServerWrites, Server!WriteDone
  <2> QED
    BY <1>1, <2>1, WayFrame
<1>5. CASE ServerCloses(s) \/ ServerNotices(s) \/ ClientNotices(s) \/ Reset(s)
  <2>1. /\ incoming' = incoming /\ (Unread(s) \/ up' = up)
        /\ ~(link'[s] /\ conn'[s] = "open")
    BY <1>0, <1>5 DEF ServerCloses, ServerNotices, ClientNotices, Reset, Server!CloseFlushed,
       Server!ConnectionLost, Server!Close, serverVars, clientVars, Known, ClientTypes
  <2>2. Shorter(up'[s], up[s]) /\ up'[s] \in Seq(Server!ClientMessage)
    BY <1>0, <2>1, UnreadShorter
  <2> QED
    BY <1>1, <2>1, <2>2, WayShorter
<1> QED
  BY <1>2, <1>3, <1>4, <1>5 DEF NetworkWork, NetworkStep

(* The network brings a message of its own client, or none. *)
LEMMA NetworkBrings ==
    ASSUME Known, NEW c \in Client, NetworkWork(c)
    PROVE  \/ incoming' = incoming
           \/ \E e \in Heard : e.remote = c /\ incoming' = Append(incoming, e)
<1>1. CASE ServerReads(c)
  <2>1. up[c] # <<>> /\ incoming' = Append(incoming, [remote |-> c, msg |-> Head(up[c])])
    BY <1>1 DEF ServerReads, Server!Arrive
  <2>2. up[c] \in Seq(Speech(c)) /\ Speech(c) \subseteq Server!ClientMessage
    BY DEF Known, Kinds, Speech, SenderMessage, ReceiverMessage
  <2>3. PICK m \in Speech(c) : m = Head(up[c])
    BY <2>1, <2>2, HeadTail
  <2>4. PICK e \in Heard : e = [remote |-> c, msg |-> m]
    BY <2>2 DEF Heard
  <2> QED
    BY <2>1, <2>3, <2>4
<1>2. CASE ~ServerReads(c)
  BY <1>2 DEF NetworkWork, NetworkStep, Reset, Start, ServerWrites, ServerCloses,
         ServerNotices, ClientNotices, Server!Connect, Server!storage, Server!CloseFlushed,
         Server!WriteDone, Server!ConnectionLost, Server!Close, serverVars
<1> QED
  BY <1>1, <1>2

LEMMA WayStays ==
    ASSUME Known, Known', Finals, Codes, [Next]_vars, NEW s \in Sender, code[s] # None,
           ServerHandles => Head(incoming).remote # s \/ ~IsData(Head(incoming).msg)
    PROVE  \A y \in Nat : Way(s, y) => Way(s, y)'
<1>0. s \in Client /\ s \notin Receiver /\ Mark(s) \in Marks
  BY ClientsAssumption, MarkGrows DEF Client
<1>1. ASSUME SameClient(s), conn'[s] = conn[s],
             \/ incoming' = incoming
             \/ \E e \in Heard : e.remote # s /\ incoming' = Append(incoming, e)
             \/ /\ incoming # <<>> /\ incoming' = Tail(incoming)
                /\ Head(incoming).remote # s \/ ~IsData(Head(incoming).msg)
      PROVE  \A y \in Nat : Way(s, y) => Way(s, y)'
  <2>1. Mark(s)' = Mark(s) /\ up'[s] = up[s] /\ link'[s] = link[s]
    BY <1>1 DEF SameClient, Mark
  <2> QED
    BY <1>0, <1>1, <2>1, WayFrame
<1>2. CASE ServerHandles
  <2>1. SameClient(s) /\ conn' = conn
    BY <1>2, HandlerElsewhere
  <2>2. incoming # <<>> /\ incoming' = Tail(incoming)
    BY <1>2 DEF ServerHandles, Server!Update
  <2> QED
    BY <1>1, <1>2, <2>1, <2>2
<1>3. ASSUME NEW c \in Client, c # s, Elsewhere(c), NetworkWork(c) \/ UNCHANGED serverVars
      PROVE  \A y \in Nat : Way(s, y) => Way(s, y)'
  <2>1. SameClient(s) /\ conn'[s] = conn[s]
    BY <1>0, <1>3 DEF Elsewhere, SameTablesOf
  <2>2. \/ incoming' = incoming
        \/ \E e \in Heard : e.remote # s /\ incoming' = Append(incoming, e)
    BY <1>3, NetworkBrings DEF serverVars
  <2> QED
    BY <1>1, <2>1, <2>2
<1>4. CASE NetworkWork(s)
  BY <1>0, <1>4, WayNetwork
<1>5. CASE SenderWork(s) /\ UNCHANGED serverVars
  BY <1>0, <1>5, WayWorks
<1>6. CASE Corrupt(s)
  BY <1>0, <1>6, WayCorrupt
<1>7. CASE UNCHANGED vars
  <2>1. SameClient(s) /\ conn'[s] = conn[s] /\ incoming' = incoming
    BY <1>0, <1>7, StandStill DEF SameTablesOf, vars, serverVars
  <2> QED
    BY <1>1, <2>1
<1> QED
  BY <1>0, <1>2, <1>3, <1>4, <1>5, <1>6, <1>7, StepCases DEF Client

-----------------------------------------------------------------------------
(* What a receiver is fed stays fed.                                       *)

(* The end of the stream, once it has been seen, is the end. *)
LEMMA StaysFinal ==
    ASSUME Known, Finals, [Next]_vars, NEW s \in Sender, NEW r \in Receiver, FinalSeen(s, r),
           HasFinal(inbox'[r]) \/ HasFinal(out'[r]) => HasFinal(inbox[r]) \/ HasFinal(out[r])
    PROVE  FinalSeen(s, r)'
<1> SUFFICES ASSUME HasFinal(inbox'[r]) \/ HasFinal(out'[r])
             PROVE  ended'[s] /\ Quiet(s)'
  BY DEF FinalSeen
<1>1. ended[s] /\ Quiet(s)
  BY DEF FinalSeen
<1> QED
  BY <1>1, StaysQuiet

(* A step that leaves alone what the receiver has and what of the stream   *)
(* is on its way to it.                                                    *)
LEMMA FeedsFrame ==
    ASSUME Known, Known', Codes, Requests, Finals, [Next]_vars,
           NEW s \in Sender, NEW r \in Receiver, Feeds(s, r),
           sink'[s] = r /\ ServerHandles =>
               Head(incoming).remote # s \/ ~IsData(Head(incoming).msg),
           got'[r] = got[r], inbox'[r] = inbox[r], Aside(r),
           link'[r] => link[r], conn'[r] = "open" => conn[r] = "open"
    PROVE  Feeds(s, r)'
<1>1. Served(s, r)'
  BY StaysServed DEF Feeds
<1>2. FinalSeen(s, r)'
  BY StaysFinal, AsideFinal DEF Feeds
<1>3. Mark(s) \in Marks /\ Mark(s)' \in Marks /\ Grows(Mark(s), Mark(s)')
  BY MarkGrows
<1>4. sink'[s] = r => \A y \in Nat : Way(s, y) => Way(s, y)'
  BY WayStays DEF Feeds, Served
<1>5. sink'[s] = r => sink[s] = r
  <2>1. ~Accepted(r, 1)
    BY DEF Feeds, Served, Gone, Pending
  <2> QED
    BY <2>1, NewSession
<1>6. \A x \in Nat : Wire(s, r, x) => Wire(s, r, x)'
  BY <1>3, <1>4, <1>5, WireFrame
<1>7. pc'[r] = "receiving" => pc[r] = "receiving"
  BY OthersLeaveFile, ReceiverMoves DEF Requests, Feeds, Served, Gone, Asking
<1>8. diskBad[r] => diskBad'[r]
  BY StaysBad
<1>9. Flow(s, r)'
  BY <1>3, <1>6, <1>7, <1>8, FlowFrame DEF Feeds
<1> QED
  BY <1>1, <1>2, <1>9 DEF Feeds

(* The receiver takes a message: a chunk is the next one. *)
LEMMA TakeFeeds ==
    ASSUME Known, Known', Codes, Requests, Finals, [Next]_vars, ~ServerHandles,
           NEW s \in Sender, NEW r \in Receiver, Feeds(s, r), UNCHANGED serverVars,
           pc[r] = "receiving", inbox[r] # <<>>, NEW m, m = Head(inbox[r]),
           ~Refused(m), Taken(r, m)
    PROVE  Feeds(s, r)'
<1>0. /\ r \in Client /\ inbox[r] \in Seq(ReceiverAnswer) /\ got[r] \in Seq(Body)
      /\ Len(got[r]) \in Nat /\ sent[s] \in Nat /\ sent'[s] \in Nat /\ code[s] # None
      /\ m \in ReceiverAnswer
  <2>1. r \in Client /\ r \notin Sender
    BY ClientsAssumption DEF Client
  <2>2. /\ inbox[r] \in Seq(ReceiverAnswer) /\ got[r] \in Seq(Body)
        /\ sent[s] \in Nat /\ sent'[s] \in Nat
    BY <2>1 DEF Known, Kinds, Answers, ClientTypes, Sending
  <2>3. m \in ReceiverAnswer
    BY <2>2, HeadTail
  <2> QED
    BY <2>1, <2>2, <2>3 DEF Feeds, Served
<1>1. PICK k \in Marks, k2 \in Marks : k = Mark(s) /\ k2 = Mark(s)' /\ Grows(k, k2)
  BY MarkGrows
<1>2. k.file = FileOf[s] /\ k.sent = sent[s] /\ sent[s] <= sent'[s]
  <2>1. sent'[s] = sent[s] \/ sent[s] <= sent'[s]
    BY <1>1 DEF Grows, Mark
  <2> QED
    BY <1>0, <1>1, <2>1 DEF Mark
<1>3. inbox'[r] = Tail(inbox[r]) /\ out' = out
  BY DEF Taken, serverVars
<1>4. FinalSeen(s, r)'
  <2>1. HasFinal(inbox'[r]) => HasFinal(inbox[r])
    <3>1. \A i \in 1 .. Len(inbox'[r]) :
             i + 1 \in 1 .. Len(inbox[r]) /\ inbox'[r][i] = inbox[r][i + 1]
      BY <1>0, <1>3, HeadTail
    <3> QED
      BY <3>1 DEF HasFinal
  <2> QED
    BY <1>3, <2>1, StaysFinal DEF Feeds
<1>5. \A x \in Nat : link'[r] = link[r] => (Wire(s, r, x) => Wire(s, r, x)')
  <2>1. \A y \in Nat : Way(s, y) => Way(s, y)'
    BY <1>0, WayStays
  <2>2. sink' = sink /\ conn' = conn /\ Aside(r)
    BY <1>3 DEF serverVars, Aside
  <2> QED
    BY <1>1, <2>1, <2>2, WireFrame
<1>6. CASE m.id # "Chunk" \/ diskBad'[r]
  <2>1. got'[r] = got[r]
    BY <1>6 DEF Taken
  <2>2. Served(s, r)'
    BY <2>1, StaysServed DEF Feeds
  <2>3. Flow(s, r)'
    <3> SUFFICES ASSUME pc'[r] = "receiving", ~diskBad'[r]
                 PROVE  \E x \in Nat : /\ Carries(k2, inbox'[r], Len(got'[r]), x)
                                       /\ Wire(s, r, x)'
      BY <1>1 DEF Flow
    <3>1. /\ UNCHANGED <<pc, link, up>> /\ m.id # "FinalChunk" /\ m.id # "Chunk"
          /\ ~diskBad[r]
      BY <1>0, <1>6 DEF Taken, ReportSuccess, Go, Known, Sending
    <3>2. PICK x \in Nat : Carries(k, inbox[r], Len(got[r]), x) /\ Wire(s, r, x)
      BY <1>1, <3>1 DEF Feeds, Flow
    <3>3. Tag(k, m) = 0
      BY <3>1, TagType DEF IsData
    <3>4. Carries(k, inbox'[r], Len(got[r]), x) /\ inbox'[r] \in Seq(ReceiverAnswer)
      BY <1>0, <1>3, <3>2, <3>3, CarriesTail, HeadTail
    <3>5. Carries(k2, inbox'[r], Len(got[r]), x)
      BY <1>0, <1>1, <3>4, GrowCarries
    <3> QED
      BY <1>5, <2>1, <3>1, <3>2, <3>5
  <2> QED
    BY <1>4, <2>2, <2>3 DEF Feeds
<1>7. CASE m.id = "Chunk" /\ ~diskBad'[r]
  <2>1. got'[r] = Append(got[r], m.body) /\ ~diskBad[r]
    BY <1>7 DEF Taken
  <2>2. PICK x \in Nat : Carries(k, inbox[r], Len(got[r]), x) /\ Wire(s, r, x)
    BY <1>1, <2>1 DEF Feeds, Flow
  <2>3. Tag(k, m) # 0
    BY <1>7, TagType DEF IsData
  <2>4. /\ Tag(k, m) = Len(got[r]) + 1
        /\ Carries(k, inbox'[r], Len(got[r]) + 1, x) /\ inbox'[r] \in Seq(ReceiverAnswer)
    BY <1>0, <1>3, <2>2, <2>3, CarriesTail, HeadTail
  <2>5. m.body \in Body /\ m.body.sound
    BY <1>0, <1>7 DEF Refused, ReceiverAnswer
  <2>6. m.body.file = FileOf[s] /\ m.body.part = Len(got[r]) + 1 /\ Len(got[r]) + 1 <= sent[s]
    BY <1>0, <1>2, <1>7, <2>4 DEF Tag, IsData
  <2>7. m.body = [file |-> FileOf[s], part |-> Len(got[r]) + 1, sound |-> TRUE]
    <3>1. PICK f \in File : m.body \in [file : {f}, part : 1 .. Parts[f], sound : BOOLEAN]
      BY <2>5 DEF Body
    <3>2. /\ m.body = [file |-> m.body.file, part |-> m.body.part, sound |-> m.body.sound]
          /\ m.body.sound = TRUE
      BY <2>5, <3>1
    <3> QED
      BY <2>6, <3>2
  <2>8. Prefix(s, r)'
    <3>1. /\ Len(got'[r]) = Len(got[r]) + 1
          /\ \A i \in 1 .. Len(got[r]) : got'[r][i] = got[r][i]
          /\ got'[r][Len(got[r]) + 1] = m.body
      BY <1>0, <2>1, <2>5, AppendFacts
    <3>2. \A i \in 1 .. Len(got[r]) :
             got[r][i] = [file |-> FileOf[s], part |-> i, sound |-> TRUE]
      BY DEF Feeds, Served, Prefix
    <3>3. Len(got'[r]) <= sent'[s]
      BY <1>0, <1>2, <2>6, <3>1
    <3>4. \A i \in 1 .. Len(got'[r]) :
             got'[r][i] = [file |-> FileOf[s], part |-> i, sound |-> TRUE]
      <4>1. PICK n \in Nat : n = Len(got[r])
        BY <1>0
      <4>2. ASSUME NEW i \in 1 .. Len(got'[r]), i # n + 1
            PROVE  i \in 1 .. n
        BY <3>1, <4>1, <4>2
      <4>3. got'[r][n + 1] = [file |-> FileOf[s], part |-> n + 1, sound |-> TRUE]
        BY <2>7, <3>1, <4>1
      <4> QED
        BY <3>1, <3>2, <4>1, <4>2, <4>3
    <3> QED
      BY <3>3, <3>4 DEF Prefix
  <2>9. Served(s, r)'
    <3>1. code'[s] = code[s] /\ code'[r] = code[r]
      BY <1>0, StepKeepsCode DEF CodesStay, Feeds, Served, Client
    <3>2. Gone(r)' /\ Only(s, r)'
      BY StaysGone, StaysOnly DEF Feeds, Served
    <3> QED
      BY <2>8, <3>1, <3>2 DEF Feeds, Served
  <2>10. Flow(s, r)'
    <3> SUFFICES ASSUME pc'[r] = "receiving"
                 PROVE  \E z \in Nat : /\ Carries(k2, inbox'[r], Len(got'[r]), z)
                                       /\ Wire(s, r, z)'
      BY <1>1 DEF Flow
    <3>1. UNCHANGED <<pc, link, up>>
      BY <1>0 DEF Taken, ReportSuccess, Go, Known, Sending
    <3>2. Carries(k2, inbox'[r], Len(got[r]) + 1, x)
      <4>1. Len(got[r]) + 1 \in Nat
        BY <1>0
      <4> QED
        BY <1>1, <2>4, <4>1, GrowCarries
    <3>3. Len(got'[r]) = Len(got[r]) + 1
      BY <1>0, <2>1, <2>5, AppendFacts
    <3> QED
      BY <1>5, <2>2, <3>1, <3>2, <3>3
  <2> QED
    BY <1>4, <2>9, <2>10 DEF Feeds
<1> QED
  BY <1>6, <1>7

(* The receiver's own steps. *)
LEMMA ReceiverFeeds ==
    ASSUME Known, Known', Codes, Requests, Finals, [Next]_vars, ~ServerHandles,
           NEW s \in Sender, NEW r \in Receiver, Feeds(s, r),
           ReceiverWork(r), UNCHANGED serverVars
    PROVE  Feeds(s, r)'
<1>0. r \in Client /\ pc[r] \notin Asking
  BY DEF Client, Feeds, Served, Gone
<1>1. ASSUME pc'[r] # "receiving", inbox'[r] = <<>>, got'[r] = got[r]
      PROVE  Feeds(s, r)'
  <2>1. Served(s, r)' /\ Flow(s, r)'
    BY <1>1, StaysServed DEF Feeds, Flow
  <2>2. ~HasFinal(inbox'[r]) /\ out' = out
    BY <1>1 DEF HasFinal, serverVars
  <2>3. FinalSeen(s, r)'
    BY <2>2, StaysFinal DEF Feeds
  <2> QED
    BY <2>1, <2>3 DEF Feeds
<1>2. CASE Crash(r)
  <2>1. Leave(r, "failed", up[r]) /\ got' = got
    BY <1>2 DEF Crash, dataVars
  <2> QED
    <3>1. pc'[r] = "failed" /\ inbox'[r] = <<>>
      BY <1>0, <2>1, LeaveFacts
    <3> QED
      BY <1>1, <2>1, <3>1
<1>3. CASE Flushed(r)
  <2>1. pc'[r] = "ok" /\ inbox'[r] = <<>> /\ got' = got
    BY <1>0, <1>3 DEF Flushed, Go, dataVars, Known, Sending, ClientTypes
  <2> QED
    BY <1>1, <2>1
<1>4. CASE \E written \in BOOLEAN : TakeMessage(r, written)
  <2>1. PICK written \in BOOLEAN : TakeMessage(r, written)
    BY <1>4
  <2>2. PICK m : m = Head(inbox[r])
    OBVIOUS
  <2>3. /\ pc[r] = "receiving" /\ inbox[r] # <<>>
        /\ \/ Leave(r, "failed", up[r]) /\ got'[r] = got[r]
           \/ ~Refused(m) /\ Taken(r, m)
    BY <2>1, <2>2, TakeFacts
  <2>4. CASE Leave(r, "failed", up[r]) /\ got'[r] = got[r]
    <3>1. pc'[r] = "failed" /\ inbox'[r] = <<>>
      BY <1>0, <2>4, LeaveFacts
    <3> QED
      BY <1>1, <2>4, <3>1
  <2>5. CASE ~Refused(m) /\ Taken(r, m)
    BY <2>2, <2>3, <2>5, TakeFeeds
  <2> QED
    BY <2>3, <2>4, <2>5
<1>5. ~(Ask(r) \/ AwaitOffer(r) \/ Decline(r) \/ Consent(r) \/ OpenError(r))
  BY <1>0 DEF Ask, AwaitOffer, Decline, Consent, OpenError, Asking
<1> QED
  BY <1>2, <1>3, <1>4, <1>5 DEF ReceiverWork, ReceiverStep, ReceiveMessage, WriteError

(* The next message is written to the receiver. *)
LEMMA WritesFeeds ==
    ASSUME Known, Known', Codes, Requests, Finals, [Next]_vars, ~ServerHandles,
           NEW s \in Sender, NEW r \in Receiver, Feeds(s, r), ServerWrites(r)
    PROVE  Feeds(s, r)'
<1>0. /\ r \in Client /\ inbox[r] \in Seq(Server!Message) /\ out[r] \in Seq(Server!Message)
      /\ Len(got[r]) \in Nat /\ Len(inbox[r]) \in Nat
  BY UpType DEF Client, Known, ClientTypes
<1>1. /\ out[r] # <<>> /\ out'[r] = Tail(out[r])
      /\ UNCHANGED <<pc, link, up, dataVars, conn, sink>>
      /\ inbox'[r] = IF link[r] THEN Append(inbox[r], Head(out[r])) ELSE inbox[r]
  BY <1>0 DEF ServerWrites, Server!WriteDone, Server!storage, Known, ServerSafe, Server!TypeOK,
     ClientTypes
<1>2. PICK m \in Server!Message : m = Head(out[r])
  BY <1>0, <1>1, HeadTail
<1>3. PICK k \in Marks, k2 \in Marks : k = Mark(s) /\ k2 = Mark(s)' /\ Grows(k, k2)
  BY MarkGrows
<1>4. got' = got /\ diskBad' = diskBad
  BY <1>1 DEF dataVars
<1>5. Served(s, r)'
  BY <1>4, StaysServed DEF Feeds
<1>6. FinalSeen(s, r)'
  <2>1. /\ m = out[r][1] /\ 1 \in 1 .. Len(out[r])
        /\ \A i \in 1 .. Len(out'[r]) : i + 1 \in 1 .. Len(out[r]) /\ out'[r][i] = out[r][i + 1]
    BY <1>0, <1>1, <1>2, HeadTail
  <2>2. \A i \in 1 .. Len(inbox'[r]) :
           \/ i \in 1 .. Len(inbox[r]) /\ inbox'[r][i] = inbox[r][i]
           \/ inbox'[r][i] = m
    BY <1>0, <1>1, <1>2
  <2>3. HasFinal(inbox'[r]) \/ HasFinal(out'[r]) => HasFinal(inbox[r]) \/ HasFinal(out[r])
    BY <2>1, <2>2 DEF HasFinal
  <2> QED
    BY <2>3, StaysFinal DEF Feeds
<1>7. \A y \in Nat : Way(s, y) => Way(s, y)'
  BY WayStays DEF Feeds, Served
<1>8. Flow(s, r)'
  <2> SUFFICES ASSUME pc'[r] = "receiving", ~diskBad'[r]
               PROVE  \E x \in Nat : /\ Carries(k2, inbox'[r], Len(got'[r]), x)
                                     /\ Wire(s, r, x)'
    BY <1>3 DEF Flow
  <2>1. PICK x \in Nat : Carries(k, inbox[r], Len(got[r]), x) /\ Wire(s, r, x)
    BY <1>1, <1>3, <1>4 DEF Feeds, Flow
  <2>2. CASE ~link[r]
    <3>1. Wire(s, r, x)'
      BY <1>1, <2>2 DEF Wire
    <3>2. Carries(k2, inbox[r], Len(got[r]), x)
      BY <1>0, <1>3, <2>1, GrowCarries
    <3> QED
      BY <1>1, <1>4, <2>2, <3>1, <3>2
  <2>3. CASE link[r]
    <3>1. PICK y \in Nat : /\ Carries(k, out[r], x, y)
                           /\ conn[r] = "open" /\ sink[s] = r => Way(s, y)
      BY <1>3, <2>1, <2>3 DEF Wire
    <3>2. ASSUME NEW z \in Nat, Carries(k, inbox'[r], Len(got[r]), z), Carries(k, out'[r], z, y)
          PROVE  Carries(k2, inbox'[r], Len(got'[r]), z) /\ Wire(s, r, z)'
      <4>1. inbox'[r] \in Seq(Server!Message) /\ out'[r] \in Seq(Server!Message)
        BY <1>0, <1>1, <1>2, <2>3, AppendFacts, HeadTail
      <4>2. Carries(k2, inbox'[r], Len(got[r]), z) /\ Carries(k2, out'[r], z, y)
        BY <1>0, <1>3, <3>2, <4>1, GrowCarries
      <4>3. Wire(s, r, z)'
        BY <1>1, <1>3, <1>7, <3>1, <4>2 DEF Wire
      <4> QED
        BY <1>4, <4>2, <4>3
    <3>3. CASE Tag(k, m) = 0
      <4>1. Carries(k, inbox'[r], Len(got[r]), x) /\ Carries(k, out'[r], x, y)
        BY <1>0, <1>1, <1>2, <2>1, <2>3, <3>1, <3>3, CarriesAppend, CarriesTail
      <4> QED
        BY <3>2, <4>1
    <3>4. CASE Tag(k, m) # 0
      <4>1. Tag(k, m) = x + 1 /\ Carries(k, out'[r], x + 1, y)
        BY <1>0, <1>1, <1>2, <3>1, <3>4, CarriesTail
      <4>2. Carries(k, inbox'[r], Len(got[r]), x + 1) /\ x + 1 \in Nat
        BY <1>0, <1>1, <1>2, <2>1, <2>3, <4>1, CarriesAppend
      <4> QED
        BY <3>2, <4>1, <4>2
    <3> QED
      BY <3>3, <3>4
  <2> QED
    BY <2>2, <2>3
<1> QED
  BY <1>5, <1>6, <1>8 DEF Feeds

(* The server's end of the receiver's connection closes. *)
LEMMA CloseFeeds ==
    ASSUME Known, Known', Codes, Requests, Finals, [Next]_vars,
           NEW s \in Sender, NEW r \in Receiver, Feeds(s, r), Server!Close(r),
           UNCHANGED <<pc, inbox, got, diskBad>>
    PROVE  Feeds(s, r)'
<1>0. /\ r \in Client /\ inbox[r] \in Seq(Server!Message) /\ Len(got[r]) \in Nat
  BY UpType DEF Client, Known, ClientTypes
<1>1. out'[r] = <<>> /\ conn'[r] = "closed"
  BY <1>0 DEF Server!Close, Known, ServerSafe, Server!TypeOK
<1>2. PICK k \in Marks, k2 \in Marks : k = Mark(s) /\ k2 = Mark(s)' /\ Grows(k, k2)
  BY MarkGrows
<1>3. Served(s, r)'
  BY StaysServed DEF Feeds
<1>4. FinalSeen(s, r)'
  <2>1. ~HasFinal(out'[r])
    BY <1>1 DEF HasFinal
  <2> QED
    BY <2>1, StaysFinal DEF Feeds
<1>5. Flow(s, r)'
  <2> SUFFICES ASSUME pc'[r] = "receiving", ~diskBad'[r]
               PROVE  \E x \in Nat : /\ Carries(k2, inbox'[r], Len(got'[r]), x)
                                     /\ Wire(s, r, x)'
    BY <1>2 DEF Flow
  <2>1. PICK x \in Nat : Carries(k, inbox[r], Len(got[r]), x)
    BY <1>2 DEF Feeds, Flow
  <2>2. Carries(k2, inbox[r], Len(got[r]), x)
    BY <1>0, <1>2, <2>1, GrowCarries
  <2>3. Carries(k2, out'[r], x, x)
    <3>1. <<>> \in Seq(Server!Message) /\ DryQueue(<<>>)
      BY DEF DryQueue
    <3> QED
      BY <1>1, <3>1, DryCarries
  <2>4. Wire(s, r, x)'
    BY <1>1, <1>2, <2>3 DEF Wire
  <2> QED
    BY <2>2, <2>4
<1> QED
  BY <1>3, <1>4, <1>5 DEF Feeds

LEMMA NetworkFeeds ==
    ASSUME Known, Known', Codes, Requests, Finals, [Next]_vars, ~ServerHandles,
           NEW s \in Sender, NEW r \in Receiver, Feeds(s, r), NetworkWork(r)
    PROVE  Feeds(s, r)'
<1>1. ~Start(r)
  BY DEF Start, Feeds, Served, Gone, Asking
<1>2. CASE ServerCloses(r) \/ Reset(r) \/ ServerNotices(r)
  <2>1. Server!Close(r) /\ UNCHANGED <<pc, inbox, got, diskBad>>
    BY <1>2 DEF ServerCloses, ServerNotices, Reset, Server!CloseFlushed, Server!ConnectionLost,
       clientVars, dataVars
  <2> QED
    BY <2>1, CloseFeeds
<1>3. CASE ServerReads(r) \/ ClientNotices(r)
  <2>1. /\ UNCHANGED <<inbox, got, out, conn>>
        /\ link'[r] => link[r]
    BY <1>3 DEF ServerReads, ClientNotices, Server!Arrive, serverVars, dataVars
  <2>2. Aside(r) /\ got'[r] = got[r] /\ inbox'[r] = inbox[r] /\ conn'[r] = conn[r]
    BY <2>1 DEF Aside
  <2> QED
    BY <2>1, <2>2, FeedsFrame
<1> QED
  BY <1>1, <1>2, <1>3, WritesFeeds DEF NetworkWork, NetworkStep

(* What the main thread passes on of s to the receiver is the next of s.   *)
LEMMA RelayFeeds ==
    ASSUME Known, Known', Codes, Requests, Finals, [Next]_vars, ServerHandles,
           NEW s \in Sender, NEW r \in Receiver, Feeds(s, r),
           NEW e, e = Head(incoming), e.remote = s, Relayed(e), sink[s] = r
    PROVE  Feeds(s, r)'
<1>0. /\ r \in Client /\ s \in Client /\ out[r] \in Seq(Server!Message)
      /\ inbox[r] \in Seq(Server!Message) /\ Len(got[r]) \in Nat
      /\ incoming \in Seq(Heard) /\ incoming # <<>> /\ incoming' = Tail(incoming)
      /\ code[s] # None
  BY UpType DEF Client, Known, ClientTypes, ServerHandles, Server!Update, Feeds, Served
<1>1. /\ SameClient(s) /\ SameClient(r) /\ conn' = conn /\ e \in Heard /\ e = incoming[1]
      /\ 1 \in 1 .. Len(incoming)
  BY <1>0, HandlerElsewhere
<1>2. /\ pc'[r] = pc[r] /\ inbox'[r] = inbox[r] /\ got'[r] = got[r] /\ diskBad'[r] = diskBad[r]
      /\ link'[r] = link[r] /\ up'[s] = up[s] /\ link'[s] = link[s]
      /\ sent'[s] = sent[s] /\ ended'[s] = ended[s]
  BY <1>1 DEF SameClient
<1>3. PICK k \in Marks : k = Mark(s) /\ k = Mark(s)'
  BY <1>2, MarkGrows DEF Mark
<1>4. /\ e.msg \in Server!Message /\ IsData(e.msg) /\ Tag(k, e.msg) # 0
      /\ conn[r] = "open" => out'[r] = Append(out[r], e.msg)
      /\ conn[r] # "open" => out'[r] = out[r]
  <2>1. e.msg.id \in {"Chunk", "FinalChunk"} /\ out' = Server!SendTo(r, e.msg)
    BY DEF Relayed
  <2>2. e.msg \in Server!Message
    BY <1>1, Payload DEF Heard
  <2>3. /\ conn[r] = "open" => out'[r] = Append(out[r], e.msg)
        /\ conn[r] # "open" => out'[r] = out[r]
    BY <1>0, <2>1, SendToFacts
  <2> QED
    BY <2>1, <2>2, <2>3, TagType DEF IsData
<1>5. Served(s, r)'
  BY <1>2, StaysServed DEF Feeds
<1>6. FinalSeen(s, r)'
  <2>1. CASE e.msg.id = "FinalChunk"
    <3>1. /\ ended[s] /\ up[s] = <<>>
          /\ \A j \in 1 .. Len(incoming) : incoming[j].remote = s => j <= 1
      BY <1>1, <2>1 DEF Finals, Final, FinalHeard
    <3>2. \A i \in 1 .. Len(incoming') :
             i + 1 \in 1 .. Len(incoming) /\ incoming'[i] = incoming[i + 1]
      BY <1>0, HeadTail
    <3>3. NoneHeard(s)'
      BY <3>1, <3>2 DEF NoneHeard
    <3> QED
      BY <1>2, <3>1, <3>3 DEF FinalSeen, Quiet
  <2>2. CASE e.msg.id # "FinalChunk"
    <3>1. \A i \in 1 .. Len(out'[r]) :
             \/ i \in 1 .. Len(out[r]) /\ out'[r][i] = out[r][i]
             \/ out'[r][i] = e.msg
      <4>1. CASE conn[r] = "open"
        <5>1. PICK q, m : q = out[r] /\ m = e.msg
          OBVIOUS
        <5>2. out'[r] = Append(q, m) /\ q \in Seq(Server!Message) /\ m \in Server!Message
          BY <1>0, <1>4, <4>1, <5>1
        <5>3. /\ Len(out'[r]) = Len(q) + 1 /\ Len(q) \in Nat
              /\ \A i \in 1 .. Len(q) : out'[r][i] = q[i]
              /\ out'[r][Len(q) + 1] = m
          BY <5>2
        <5> QED
          BY <5>1, <5>3
      <4>2. CASE conn[r] # "open"
        BY <1>4, <4>2
      <4> QED
        BY <4>1, <4>2
    <3>2. HasFinal(out'[r]) => HasFinal(out[r])
      BY <2>2, <3>1 DEF HasFinal
    <3> QED
      BY <1>2, <3>2, StaysFinal DEF Feeds
  <2> QED
    BY <2>1, <2>2
<1>7. Flow(s, r)'
  <2> SUFFICES ASSUME pc[r] = "receiving", ~diskBad[r]
               PROVE  \E x \in Nat : Carries(k, inbox[r], Len(got[r]), x) /\ Wire(s, r, x)'
    BY <1>2, <1>3 DEF Flow
  <2>1. PICK x \in Nat : Carries(k, inbox[r], Len(got[r]), x) /\ Wire(s, r, x)
    BY <1>3 DEF Feeds, Flow
  <2>2. CASE ~link[r]
    BY <1>2, <2>1, <2>2 DEF Wire
  <2>3. CASE link[r]
    <3>1. PICK y \in Nat : /\ Carries(k, out[r], x, y)
                           /\ conn[r] = "open" => Way(s, y)
      BY <1>3, <2>1, <2>3 DEF Wire
    <3>2. CASE conn[r] # "open"
      BY <1>1, <1>3, <1>4, <2>1, <3>1, <3>2 DEF Wire
    <3>3. CASE conn[r] = "open"
      <4>1. PICK u \in Nat : /\ CarriesOf(k, s, incoming, y, u) /\ u <= Count(k)
                             /\ Follows(k, up[s], u)
                             /\ link[s] /\ conn[s] = "open" => Whole(k, up[s], u)
        BY <1>3, <3>1, <3>3 DEF Way
      <4>2. Tag(k, e.msg) = y + 1 /\ CarriesOf(k, s, incoming', y + 1, u)
        <5>1. /\ k \in Marks /\ y \in Nat /\ u \in Nat /\ CarriesOf(k, s, incoming, y, u)
              /\ incoming \in Seq(Heard) /\ incoming # <<>>
          BY <1>0, <1>3, <3>1, <4>1
        <5>2. Tag(k, e.msg) = y + 1 /\ CarriesOf(k, s, Tail(incoming), y + 1, u)
          BY <1>4, <5>1, CarriesOfNext
        <5> QED
          BY <1>0, <1>4, <5>2
      <4>3. y + 1 \in Nat
        OBVIOUS
      <4>4. Way(s, y + 1)'
        <5>1. \E v \in Nat : /\ CarriesOf(k, s, incoming', y + 1, v) /\ v <= Count(k)
                             /\ Follows(k, up'[s], v)
                             /\ link'[s] /\ conn'[s] = "open" => Whole(k, up'[s], v)
          BY <1>1, <1>2, <4>1, <4>2
        <5> QED
          BY <1>3, <5>1 DEF Way
      <4>5. Carries(k, out'[r], x, y + 1)
        <5>1. PICK m \in Server!Message : m = e.msg
          BY <1>4
        <5>2. /\ k \in Marks /\ out[r] \in Seq(Server!Message) /\ x \in Nat /\ y \in Nat
              /\ Carries(k, out[r], x, y) /\ Tag(k, m) = y + 1
          BY <1>0, <1>3, <2>1, <3>1, <4>2, <5>1
        <5>3. Carries(k, Append(out[r], m), x, y + 1)
          BY <5>2, CarriesAppend
        <5> QED
          BY <1>4, <3>3, <5>1, <5>3
      <4>6. Wire(s, r, x)'
        BY <1>3, <4>3, <4>4, <4>5 DEF Wire
      <4> QED
        BY <2>1, <4>6
    <3> QED
      BY <3>2, <3>3
  <2> QED
    BY <2>2, <2>3
<1> QED
  BY <1>5, <1>6, <1>7 DEF Feeds

(* Whatever else the main thread says to a receiver. *)
LEMMA AnswerIsAside ==
    ASSUME Known, NEW r \in Receiver, NEW c \in Client, NEW a \in Server!Message, ~IsData(a),
           out' = Server!SendTo(c, a)
    PROVE  Aside(r)
<1>1. r \in Client
  BY DEF Client
<1> QED
  BY <1>1, SendToFacts DEF Aside

LEMMA HandlerAside ==
    ASSUME Known, ServerHandles, NEW e, e = Head(incoming), NEW r \in Receiver,
           ~(Relayed(e) /\ sink[e.remote] = r)
    PROVE  Aside(r)
<1>0. /\ Handled(e) /\ e \in Heard /\ r \in Client /\ r \notin Sender /\ Sender \subseteq Client
      /\ Receiver \subseteq Client
  BY ClientsAssumption, HandlerElsewhere DEF Client
<1>1. CASE Relayed(e)
  BY <1>0, <1>1, SendToFacts DEF Relayed, Aside
<1>2. CASE Ignored(e) \/ Offered(e)
  BY <1>2 DEF Ignored, Offered, Aside
<1>3. CASE Answered(e)
  <2>1. PICK a \in ReceiverAnswer : a.id \in {"Accept", "Reject"} /\ out' = Server!SendTo(e.remote, a)
    BY <1>3 DEF Answered
  <2>2. a \in Server!Message /\ ~IsData(a) /\ e.remote \in Client
    BY <1>0, <2>1 DEF ReceiverAnswer, IsData, Heard
  <2> QED
    BY <2>1, <2>2, AnswerIsAside
<1>4. /\ Server!Signal("Abort") \in Server!Message /\ ~IsData(Server!Signal("Abort"))
      /\ Server!Signal("Success") \in Server!Message /\ ~IsData(Server!Signal("Success"))
  BY DEF Server!Signal, Server!Encode, Server!Message, Server!MessageType, Server!ServerReply, IsData
<1>5. CASE Refusal(e)
  BY <1>0, <1>4, <1>5, AnswerIsAside DEF Refusal
<1>6. ASSUME NEW t \in Sender, Completed(e, t)
      PROVE  Aside(r)
  BY <1>0, <1>4, <1>6, AnswerIsAside DEF Completed
<1>7. ASSUME NEW t \in Sender, BrokenOff(e, t)
      PROVE  Aside(r)
  BY <1>0, <1>4, <1>7, AnswerIsAside DEF BrokenOff
<1>8. ASSUME NEW t \in Sender, Joined(e, t)
      PROVE  Aside(r)
  <2>1. out'[r] = out[r]
    BY <1>0, <1>8, SendToFacts DEF Joined
  <2> QED
    BY <2>1 DEF Aside
<1> QED
  BY <1>0, <1>1, <1>2, <1>3, <1>5, <1>6, <1>7, <1>8 DEF Handled

LEMMA HandlerFeeds ==
    ASSUME Known, Known', Codes, Requests, Finals, [Next]_vars, ServerHandles,
           NEW s \in Sender, NEW r \in Receiver, Feeds(s, r)
    PROVE  Feeds(s, r)'
<1>0. s \in Client /\ r \in Client /\ s \notin Receiver /\ r # None /\ Sender \subseteq Client
  BY ClientsAssumption DEF Client
<1>1. PICK e : e = Head(incoming)
  OBVIOUS
<1>2. /\ SameClient(r) /\ conn' = conn /\ Handled(e) /\ e \in Heard
  BY <1>1, HandlerElsewhere
<1>3. CASE Relayed(e) /\ sink[e.remote] = r
  <2>1. e.remote = s
    BY <1>3 DEF Relayed, Feeds, Served, Only
  <2> QED
    BY <1>1, <1>3, <2>1, RelayFeeds
<1>4. CASE ~(Relayed(e) /\ sink[e.remote] = r)
  <2>1. Aside(r)
    BY <1>1, <1>4, HandlerAside
  <2>2. sink'[s] = r => e.remote # s \/ ~IsData(e.msg)
    <3> SUFFICES ASSUME sink'[s] = r, e.remote = s, IsData(e.msg)
                 PROVE  FALSE
      OBVIOUS
    <3>1. ~Offered(e) /\ ~Answered(e) /\ ~Refusal(e)
      BY <1>0 DEF Offered, Answered, Refusal, IsData
    <3>2. ~Ignored(e)
      BY <1>0 DEF Ignored
    <3>3. ~Relayed(e)
      BY <1>4 DEF Relayed
    <3>4. \A t \in Sender : ~Joined(e, t) /\ ~Completed(e, t)
      BY <1>0 DEF Joined, Completed
    <3>5. ASSUME NEW t \in Sender, BrokenOff(e, t)
          PROVE  FALSE
      <4>1. t = s /\ Withdrawn(s)
        BY <1>0, <3>5 DEF BrokenOff
      <4> QED
        BY <1>0, <4>1, WithdrawnFacts
    <3> QED
      BY <1>2, <3>1, <3>2, <3>3, <3>4, <3>5 DEF Handled
  <2>3. /\ got'[r] = got[r] /\ inbox'[r] = inbox[r] /\ link'[r] = link[r]
    BY <1>2 DEF SameClient
  <2> QED
    BY <1>1, <1>2, <2>1, <2>2, <2>3, FeedsFrame
<1> QED
  BY <1>3, <1>4

(* All steps. *)
LEMMA StaysFeeds ==
    ASSUME Known, Known', Codes, Requests, Finals, [Next]_vars,
           NEW s \in Sender, NEW r \in Receiver, Feeds(s, r)
    PROVE  Feeds(s, r)'
<1>0. r \in Client /\ r \notin Sender
  BY ClientsAssumption DEF Client
<1>1. CASE ServerHandles
  BY <1>1, HandlerFeeds
<1>2. CASE ~ServerHandles
  <2>1. ASSUME SameClient(r), SameTablesOf(r)
        PROVE  Feeds(s, r)'
    <3>1. /\ got'[r] = got[r] /\ inbox'[r] = inbox[r] /\ link'[r] = link[r]
          /\ conn'[r] = conn[r] /\ Aside(r)
      BY <2>1 DEF SameClient, SameTablesOf, Aside
    <3> QED
      BY <1>2, <3>1, FeedsFrame
  <2>2. \A c \in Client : c # r /\ Elsewhere(c) => SameClient(r) /\ SameTablesOf(r)
    BY <1>0 DEF Elsewhere
  <2>3. UNCHANGED vars => SameClient(r) /\ SameTablesOf(r)
    BY <1>0, StandStill
  <2> QED
    BY <1>0, <1>2, <2>1, <2>2, <2>3, NetworkFeeds, ReceiverFeeds, StepCases DEF Client
<1> QED
  BY <1>1, <1>2
-----------------------------------------------------------------------------
(* A receiver that nothing has reached, and how the stream to it begins.   *)

Idle(r) == Dry(r) /\ Sinkless(r)

LEMMA ReceiverStaysDry ==
    ASSUME Known, NEW r \in Receiver, Dry(r), ReceiverWork(r), UNCHANGED serverVars
    PROVE  Dry(r)'
<1>0. /\ r \in Client /\ inbox[r] \in Seq(Server!Message) /\ inbox \in [Client -> Seq(Server!Message)]
      /\ out' = out
  BY UpType DEF Client, Known, ClientTypes, serverVars
<1>1. ASSUME Emptier(r), got'[r] = got[r], diskBad'[r] = diskBad[r]
      PROVE  Dry(r)'
  BY <1>0, <1>1, EmptierFacts DEF Dry
<1>2. ASSUME NEW result, NEW q, Leave(r, result, q)
      PROVE  Emptier(r)
  BY <1>0, <1>2, LeaveFacts DEF Emptier
<1>3. CASE \E written \in BOOLEAN : TakeMessage(r, written)
  <2>1. PICK written \in BOOLEAN : TakeMessage(r, written)
    BY <1>3
  <2>2. PICK m : m = Head(inbox[r])
    OBVIOUS
  <2>3. /\ inbox[r] # <<>>
        /\ \/ Leave(r, "failed", up[r]) /\ got'[r] = got[r] /\ diskBad'[r] = diskBad[r]
           \/ Taken(r, m)
    BY <2>1, <2>2, TakeFacts
  <2>4. m.id # "Chunk"
    <3>1. m = inbox[r][1] /\ 1 \in 1 .. Len(inbox[r])
      BY <1>0, <2>2, <2>3, HeadTail
    <3> QED
      BY <3>1 DEF Dry, DryQueue, IsData
  <2>5. CASE Taken(r, m)
    BY <1>1, <2>3, <2>4, <2>5 DEF Taken, Emptier
  <2> QED
    BY <1>1, <1>2, <2>3, <2>5
<1>4. CASE Ask(r) \/ AwaitOffer(r) \/ Decline(r) \/ Consent(r) \/ OpenError(r)
           \/ Crash(r) \/ Flushed(r)
  <2>1. got' = got /\ diskBad' = diskBad
    BY <1>4 DEF Ask, AwaitOffer, Decline, Consent, OpenError, Crash, Flushed, dataVars
  <2>2. Ask(r) \/ Consent(r) \/ Flushed(r) => Emptier(r)
    BY <1>0 DEF Ask, Consent, Flushed, Emptier
  <2>3. Decline(r) \/ OpenError(r) \/ Crash(r) => Emptier(r)
    BY <1>2 DEF Decline, OpenError, Crash
  <2>4. AwaitOffer(r) => Emptier(r)
    <3> SUFFICES ASSUME Answer(r, "prompt")
                 PROVE  Emptier(r)
      BY DEF AwaitOffer
    <3>1. CASE Head(inbox[r]).id = "Reject"
      BY <1>2, <3>1 DEF Answer
    <3>2. CASE Head(inbox[r]).id # "Reject"
      BY <1>0, <3>2 DEF Answer, Emptier
    <3> QED
      BY <3>1, <3>2
  <2> QED
    BY <1>1, <1>4, <2>1, <2>2, <2>3, <2>4
<1> QED
  BY <1>3, <1>4 DEF ReceiverWork, ReceiverStep, ReceiveMessage, WriteError

LEMMA NetworkStaysDry ==
    ASSUME Known, NEW r \in Receiver, Dry(r), NetworkWork(r)
    PROVE  Dry(r)'
<1>0. /\ r \in Client /\ inbox[r] \in Seq(Server!Message) /\ out[r] \in Seq(Server!Message)
  BY UpType DEF Client
<1>1. CASE ServerWrites(r)
  <2>1. /\ out[r] # <<>> /\ out'[r] = Tail(out[r]) /\ UNCHANGED dataVars
        /\ inbox'[r] = IF link[r] THEN Append(inbox[r], Head(out[r])) ELSE inbox[r]
    BY <1>0, <1>1 DEF ServerWrites, Server!WriteDone, Known, ServerSafe, Server!TypeOK,
       ClientTypes
  <2>2. PICK m \in Server!Message : m = Head(out[r])
    BY <1>0, <2>1, HeadTail
  <2>3. /\ m = out[r][1] /\ 1 \in 1 .. Len(out[r])
        /\ \A i \in 1 .. Len(out'[r]) : i + 1 \in 1 .. Len(out[r]) /\ out'[r][i] = out[r][i + 1]
    BY <1>0, <2>1, <2>2, HeadTail
  <2>4. \A i \in 1 .. Len(inbox'[r]) :
           \/ i \in 1 .. Len(inbox[r]) /\ inbox'[r][i] = inbox[r][i]
           \/ inbox'[r][i] = m
    BY <1>0, <2>1, <2>2
  <2> QED
    BY <2>1, <2>3, <2>4 DEF Dry, DryQueue, dataVars
<1>2. CASE ServerCloses(r) \/ ServerNotices(r) \/ Reset(r)
  <2>1. Server!Close(r) /\ UNCHANGED <<inbox, got, diskBad>>
    BY <1>2 DEF ServerCloses, ServerNotices, Reset, Server!CloseFlushed, Server!ConnectionLost,
       clientVars, dataVars
  <2>2. out'[r] = <<>>
    BY <1>0, <2>1 DEF Server!Close, Known, ServerSafe, Server!TypeOK
  <2> QED
    BY <2>1, <2>2 DEF Dry, DryQueue
<1>3. CASE ServerReads(r) \/ ClientNotices(r) \/ Start(r)
  BY <1>3 DEF ServerReads, ClientNotices, Start, Server!Arrive, Server!Connect, serverVars,
     dataVars, Dry
<1> QED
  BY <1>1, <1>2, <1>3 DEF NetworkWork, NetworkStep

(* The stream begins with the Receive: nothing of it is under way yet, and *)
(* a sender that is still there is at the start of its file.               *)
LEMMA JoinFeeds ==
    ASSUME Known, Known', Codes, Requests, Finals, Offers, [Next]_vars,
           NEW r \in Receiver, Idle(r), NEW s \in Sender, sink'[s] = r
    PROVE  Feeds(s, r)'
<1>0. /\ r \in Client /\ s \in Client /\ sink[s] # r /\ inbox[r] \in Seq(Server!Message)
      /\ out[r] \in Seq(Server!Message) /\ out'[r] \in Seq(Server!Message)
      /\ incoming' \in Seq(Heard) /\ Sender \subseteq Client /\ s \notin Receiver
  <2>1. r \in Client /\ s \in Client /\ sink[s] # r /\ Sender \subseteq Client /\ s \notin Receiver
    BY ClientsAssumption DEF Client, Idle, Sinkless
  <2>2. inbox[r] \in Seq(Server!Message) /\ out[r] \in Seq(Server!Message)
    BY <2>1, UpType
  <2>3. out'[r] \in Seq(Server!Message) /\ incoming' \in Seq(Heard)
    BY <2>1 DEF Known, ServerSafe, Server!TypeOK, Kinds
  <2> QED
    BY <2>1, <2>2, <2>3
<1>1. PICK e : e = incoming[1]
  OBVIOUS
<1>2. /\ ServerHandles /\ Joined(e, s) /\ e.remote = r /\ e.msg.id = "Receive"
      /\ incoming' = Tail(incoming) /\ incoming # <<>> /\ sink[s] = None
      /\ 1 \in 1 .. Len(incoming)
  BY <1>0, <1>1, NewSession DEF Accepted
<1>3. /\ SameClient(r) /\ SameClient(s) /\ NoNews(s) /\ conn' = conn
      /\ e \in Heard /\ e = Head(incoming)
  BY <1>1, <1>2, HandlerElsewhere
<1>4. code[s] = code[r] /\ code[s] # None
  <2>1. e.msg.code \in Phrase
    BY <1>2, <1>3, Payload DEF Heard
  <2>2. phrase[s] = e.msg.code /\ e.msg.code # None
    BY <1>2, <2>1, NoneAssumption DEF Joined
  <2>3. phrase[s] = code[s]
    BY <1>0, <2>2 DEF Codes, Code
  <2>4. e.msg.code = code[r]
    BY <1>0, <1>1, <1>2 DEF Codes, Code, HeardTruthful, Truthful
  <2> QED
    BY <2>2, <2>3, <2>4
<1>5. /\ pc'[r] = pc[r] /\ up'[r] = up[r] /\ inbox'[r] = inbox[r] /\ code'[r] = code[r]
      /\ got'[r] = got[r] /\ diskBad'[r] = diskBad[r]
      /\ code'[s] = code[s] /\ up'[s] = up[s] /\ link'[s] = link[s] /\ pc'[s] = pc[s]
      /\ sent'[s] = sent[s] /\ ended'[s] = ended[s]
  BY <1>3 DEF SameClient
<1>6. Served(s, r)'
  <2>1. Gone(r)'
    <3>1. /\ pc[r] \notin Asking
          /\ \A i \in Nat : ~Accepts(r, i) /\ ~Accepted(r, i)'
      BY <1>1, <1>2, ReceiveIsHeard DEF Requests
    <3>2. \A i \in Nat : ~Accepts(r, i)'
      BY <1>5, <3>1 DEF Accepts
    <3> QED
      BY <1>5, <3>1, <3>2 DEF Gone, Pending
  <2>2. Only(s, r)'
    BY <1>0, <1>2, JoinedFacts DEF Only, Idle, Sinkless
  <2>3. Prefix(s, r)'
    <3>1. got'[r] = <<>> /\ sent'[s] \in Nat
      BY <1>5 DEF Idle, Dry, Known, Sending
    <3> QED
      BY <3>1 DEF Prefix
  <2> QED
    BY <1>4, <1>5, <2>1, <2>2, <2>3 DEF Served
<1>7. DryQueue(inbox'[r]) /\ DryQueue(out'[r])
  <2>1. Aside(r)
    BY <1>2, <1>3, HandlerAside DEF Relayed
  <2> QED
    BY <1>5, <2>1, AsideFinal DEF Idle, Dry
<1>8. FinalSeen(s, r)'
  BY <1>7 DEF FinalSeen, HasFinal, DryQueue, IsData
<1>9. Flow(s, r)'
  <2>1. PICK k \in Marks : k = Mark(s) /\ k = Mark(s)'
    BY <1>5, MarkGrows DEF Mark
  <2>2. Quiet(s) /\ pc[s] \in {"await", "failed"} /\ Reading(s)
    <3>1. phrase[s] # None
      <4>1. e.msg.code \in Phrase
        BY <1>2, <1>3, Payload DEF Heard
      <4> QED
        BY <1>2, <4>1, NoneAssumption DEF Joined
    <3> QED
      BY <1>2, <3>1 DEF Offers, Offer, Waiting, Finals, Final
  <2>3. up'[s] = <<>> /\ NoneHeard(s)'
    BY <1>3, <1>5, <2>2, NoNewsNone DEF Quiet
  <2>4. link'[s] => Count(k) = 0
    BY <1>5, <2>1, <2>2 DEF Reading, Over, Count, Mark
  <2>5. CarriesOf(k, s, incoming', 0, 0)
    BY <1>0, <2>3, NoneCarries DEF NoneHeard
  <2>6. Follows(k, up'[s], 0) /\ (link'[s] => Whole(k, up'[s], 0))
    <3>1. <<>> \in Seq(Server!Message) /\ DryQueue(<<>>)
      BY DEF DryQueue
    <3>2. Follows(k, <<>>, 0)
      BY <3>1, DryCarries
    <3>3. Count(k) = 0 => Whole(k, <<>>, 0)
      BY DEF Whole, Full
    <3> QED
      BY <2>3, <2>4, <3>2, <3>3
  <2>7. Way(s, 0)'
    <3>1. 0 <= Count(k)
      BY DEF Count, Marks
    <3>2. \E v \in Nat : /\ CarriesOf(k, s, incoming', 0, v) /\ v <= Count(k)
                         /\ Follows(k, up'[s], v)
                         /\ link'[s] /\ conn'[s] = "open" => Whole(k, up'[s], v)
      BY <2>5, <2>6, <3>1
    <3> QED
      BY <2>1, <3>2 DEF Way
  <2>8. Carries(k, inbox'[r], 0, 0) /\ Carries(k, out'[r], 0, 0)
    BY <1>0, <1>5, <1>7, DryCarries
  <2>9. Len(got'[r]) = 0
    BY <1>5 DEF Idle, Dry
  <2>10. Wire(s, r, 0)'
    BY <2>1, <2>7, <2>8 DEF Wire
  <2>11. \E x \in Nat : Carries(k, inbox'[r], Len(got'[r]), x) /\ Wire(s, r, x)'
    BY <2>8, <2>9, <2>10
  <2> QED
    BY <2>1, <2>11 DEF Flow
<1> QED
  BY <1>6, <1>8, <1>9 DEF Feeds

LEMMA StaysFed ==
    ASSUME Known, Known', Codes, Requests, Finals, Offers, [Next]_vars,
           NEW r \in Receiver, Fed(r)
    PROVE  Fed(r)'
<1>0. r \in Client /\ r \notin Sender
  BY ClientsAssumption DEF Client
<1>1. ASSUME NEW s \in Sender, Feeds(s, r)
      PROVE  Fed(r)'
  BY <1>1, StaysFeeds DEF Fed
<1>2. CASE Idle(r) /\ Sinkless(r)'
  <2>1. ASSUME SameClient(r), out'[r] = out[r]
        PROVE  Dry(r)'
    BY <1>2, <2>1 DEF SameClient, Idle, Dry
  <2>2. ASSUME ServerHandles
        PROVE  Dry(r)'
    <3>1. PICK e : e = Head(incoming)
      OBVIOUS
    <3>2. Handled(e) /\ SameClient(r)
      BY <2>2, <3>1, HandlerElsewhere
    <3>3. Aside(r)
      BY <1>2, <2>2, <3>1, HandlerAside DEF Idle, Sinkless, Relayed
    <3> QED
      BY <1>2, <3>2, <3>3, AsideFinal DEF Idle, Dry, SameClient
  <2>3. \A c \in Client : c # r /\ Elsewhere(c) => SameClient(r) /\ out'[r] = out[r]
    BY <1>0 DEF Elsewhere, SameTablesOf
  <2>4. UNCHANGED vars => SameClient(r) /\ out'[r] = out[r]
    BY <1>0, StandStill DEF SameTablesOf
  <2>5. ReceiverWork(r) /\ UNCHANGED serverVars => Dry(r)'
    BY <1>2, ReceiverStaysDry DEF Idle
  <2>6. NetworkWork(r) => Dry(r)'
    BY <1>2, NetworkStaysDry DEF Idle
  <2>7. Dry(r)'
    BY <1>0, <2>1, <2>2, <2>3, <2>4, <2>5, <2>6, StepCases DEF Client
  <2> QED
    BY <1>2, <2>7 DEF Fed
<1>3. CASE Idle(r) /\ ~Sinkless(r)'
  <2>1. PICK s \in Sender : sink'[s] = r
    BY <1>3 DEF Sinkless
  <2>2. Feeds(s, r)'
    BY <1>3, <2>1, JoinFeeds
  <2> QED
    BY <2>2 DEF Fed
<1> QED
  BY <1>1, <1>2, <1>3 DEF Fed, Idle

-----------------------------------------------------------------------------
(* What a receiver reports. *)

Reports(q) == \E i \in 1 .. Len(q) : q[i].id = "FinishReceive"
HeardReports(r) ==
    \E i \in 1 .. Len(incoming) :
        incoming[i].remote = r /\ incoming[i].msg.id = "FinishReceive"

LEMMA ShorterReports ==
    ASSUME Known, NEW c \in Client, Shorter(up'[c], up[c]), up'[c] \in Seq(Server!ClientMessage),
           Reports(up'[c])
    PROVE  Reports(up[c])
<1>1. Len(up[c]) \in Nat
  BY UpType
<1> QED
  BY <1>1 DEF Shorter, Reports

LEMMA QueueReports ==
    ASSUME Known, NEW r \in Receiver, NEW m \in Server!ClientMessage, Queue(r, m),
           m.id # "FinishReceive", Reports(up'[r])
    PROVE  Reports(up[r])
<1>0. r \in Client /\ up[r] \in Seq(Server!ClientMessage) /\ up \in [Client -> Seq(Server!ClientMessage)]
  BY UpType DEF Client, Known, Sending
<1>1. up'[r] = Append(up[r], m) \/ up'[r] = up[r]
  BY <1>0 DEF Queue, Put
<1> QED
  BY <1>0, <1>1, AppendFacts DEF Reports

(* FailedReceive is not a report of success. *)
LEMMA OpenErrorReports ==
    ASSUME Known, NEW r \in Receiver, OpenError(r), Reports(up'[r])
    PROVE  Reports(up[r])
<1>0. r \in Client /\ up[r] \in Seq(Server!ClientMessage)
  BY UpType DEF Client
<1>1. code[r] \in Phrase
  BY DEF OpenError, Known, Sending
<1>2. PICK a \in Server!ClientMessage : a = Server!Receive(code[r]) /\ a.id # "FinishReceive"
  BY <1>1, PhraseIsClientMessage DEF Server!Receive, Server!Encode
<1>3. PICK b \in Server!ClientMessage :
         b = Server!Signal("FailedReceive") /\ b.id # "FinishReceive"
  BY SignalIsClientMessage DEF Server!Signal, Server!Encode
<1>4. PICK q : q = Put(up[r], r, a)
  OBVIOUS
<1>5. /\ q \in Seq(Server!ClientMessage)
      /\ \A i \in 1 .. Len(q) : q[i].id = "FinishReceive" => Reports(up[r])
  BY <1>0, <1>2, <1>4, AppendFacts DEF Put, Reports
<1>6. PICK p : p = Put(q, r, b)
  OBVIOUS
<1>7. /\ p \in Seq(Server!ClientMessage)
      /\ \A i \in 1 .. Len(p) : p[i].id = "FinishReceive" => Reports(up[r])
  BY <1>3, <1>5, <1>6, AppendFacts DEF Put
<1>8. Leave(r, "failed", p)
  BY <1>2, <1>3, <1>4, <1>6 DEF OpenError
<1>9. PICK n \in 0 .. Len(p) : up'[r] = SubSeq(p, 1, n)
  BY <1>0, <1>8, LeaveFacts
<1>10. \A i \in 1 .. Len(up'[r]) : i \in 1 .. Len(p) /\ up'[r][i] = p[i]
  BY <1>7, <1>9
<1> QED
  BY <1>7, <1>10 DEF Reports

(* Success is first reported by a loop that has come to its end. *)
LEMMA WorkReports ==
    ASSUME Known, NEW r \in Receiver, ReceiverWork(r), UNCHANGED serverVars, HasSaid(r)'
    PROVE  HasSaid(r) \/ \E written \in BOOLEAN : TakeMessage(r, written) /\ ReportSuccess(r)
<1>0. /\ r \in Client /\ up[r] \in Seq(Server!ClientMessage) /\ pc \in [Client -> Label]
      /\ incoming' = incoming
  BY UpType DEF Client, Known, Sending, serverVars
<1>1. ASSUME pc'[r] \notin {"flushing", "ok"}, Reports(up'[r]) => Reports(up[r])
      PROVE  HasSaid(r)
  BY <1>0, <1>1 DEF HasSaid, Reports
<1>2. ASSUME NEW result, result \notin {"flushing", "ok"}, Leave(r, result, up[r])
      PROVE  HasSaid(r)
  <2>1. pc'[r] = result /\ Shorter(up'[r], up[r]) /\ up'[r] \in Seq(Server!ClientMessage)
    BY <1>0, <1>2, LeaveShorter
  <2> QED
    BY <1>0, <1>1, <1>2, <2>1, ShorterReports
<1>3. ASSUME NEW written \in BOOLEAN, TakeMessage(r, written), ~ReportSuccess(r)
      PROVE  HasSaid(r)
  <2>1. PICK m : m = Head(inbox[r])
    OBVIOUS
  <2>2. \/ Leave(r, "failed", up[r])
        \/ UNCHANGED <<pc, link, up>>
    BY <1>3, <2>1, TakeFacts DEF Taken
  <2>3. pc[r] = "receiving"
    BY <1>3 DEF TakeMessage
  <2> QED
    BY <1>1, <1>2, <2>2, <2>3
<1>4. CASE Ask(r) \/ Consent(r)
  <2>1. code[r] \in Phrase \/ Ask(r)
    BY <1>4 DEF Consent, Known, Sending
  <2>2. PICK m \in Server!ClientMessage : Queue(r, m) /\ m.id # "FinishReceive"
    BY <1>4, <2>1, PhraseIsClientMessage DEF Ask, Consent, Server!Receive,
       Server!RequestReceive, Server!Encode
  <2>3. pc'[r] \in {"asked", "receiving"}
    BY <1>0, <1>4 DEF Ask, Consent, Go
  <2> QED
    BY <1>1, <2>2, <2>3, QueueReports
<1>5. CASE AwaitOffer(r)
  <2>1. Answer(r, "prompt") /\ pc[r] = "asked"
    BY <1>5 DEF AwaitOffer
  <2>2. \/ Leave(r, "failed", up[r])
        \/ up' = up /\ pc'[r] \in {"prompt", "asked"}
    BY <1>0, <2>1 DEF Answer, Go
  <2> QED
    BY <1>1, <1>2, <2>2
<1>6. CASE OpenError(r)
  <2>1. pc'[r] = "failed"
    BY <1>0, <1>6, LeaveFacts DEF OpenError
  <2> QED
    BY <1>1, <1>6, <2>1, OpenErrorReports
<1>7. CASE Decline(r) \/ Crash(r)
  BY <1>2, <1>7 DEF Decline, Crash
<1>8. CASE Flushed(r)
  BY <1>8 DEF Flushed, HasSaid
<1> QED
  BY <1>3, <1>4, <1>5, <1>6, <1>7, <1>8 DEF ReceiverWork, ReceiverStep, ReceiveMessage, WriteError

LEMMA NetworkReports ==
    ASSUME Known, NEW r \in Receiver, NetworkWork(r), HasSaid(r)'
    PROVE  HasSaid(r)
<1>0. /\ r \in Client /\ up[r] \in Seq(Server!ClientMessage) /\ pc \in [Client -> Label]
      /\ incoming \in Seq(Heard)
  BY UpType DEF Client, Known, Sending
<1>1. CASE ServerReads(r)
  <2>1. PICK m : m = Head(up[r])
    OBVIOUS
  <2>2. /\ up[r] # <<>> /\ up'[r] = Tail(up[r]) /\ pc' = pc
        /\ incoming' = Append(incoming, [remote |-> r, msg |-> m])
    BY <1>0, <1>1, <2>1 DEF ServerReads, Server!Arrive, Known, Sending
  <2>3. /\ m = up[r][1] /\ 1 \in 1 .. Len(up[r])
        /\ \A i \in 1 .. Len(up'[r]) : i + 1 \in 1 .. Len(up[r]) /\ up'[r][i] = up[r][i + 1]
    BY <1>0, <2>1, <2>2, HeadTail
  <2>4. \A i \in 1 .. Len(incoming') :
           \/ i \in 1 .. Len(incoming) /\ incoming'[i] = incoming[i]
           \/ incoming'[i].msg = m
    BY <1>0, <2>2
  <2> QED
    BY <2>2, <2>3, <2>4 DEF HasSaid
<1>2. CASE ~ServerReads(r)
  <2>1. /\ Unread(r) \/ up' = up
        /\ pc'[r] = pc[r] \/ pc'[r] = "hello"
    <3>1. Start(r) => pc'[r] = "hello" /\ up' = up
      BY <1>0 DEF Start, Go, Server!Connect
    <3>2. ServerWrites(r) \/ ClientNotices(r) \/ ServerNotices(r) =>
             up' = up /\ pc' = pc
      BY DEF ServerWrites, ServerNotices, ClientNotices, Server!WriteDone, Server!ConnectionLost,
         Server!Close, serverVars, clientVars
    <3>3. ServerCloses(r) \/ Reset(r) => Unread(r) /\ pc' = pc
      BY DEF ServerCloses, Reset, Server!CloseFlushed, Server!ConnectionLost, Server!Close
    <3> QED
      BY <1>2, <3>1, <3>2, <3>3 DEF NetworkWork, NetworkStep
  <2>2. Reports(up'[r]) => Reports(up[r])
    BY <1>0, <2>1, UnreadShorter, ShorterReports
  <2>3. incoming' = incoming
    BY <1>2 DEF NetworkWork, NetworkStep, Start, ServerWrites, ServerNotices, ClientNotices,
       ServerCloses, Reset, Server!Connect, Server!WriteDone, Server!ConnectionLost,
       Server!CloseFlushed, Server!Close, serverVars
  <2>4. HasSaid(r)' <=> \/ pc'[r] \in {"flushing", "ok"}
                        \/ Reports(up'[r])
                        \/ HeardReports(r)
    BY <2>3 DEF HasSaid, Reports, HeardReports
  <2> QED
    BY <2>1, <2>2, <2>4 DEF HasSaid, Reports, HeardReports
<1> QED
  BY <1>1, <1>2

LEMMA FirstReport ==
    ASSUME Known, [Next]_vars, NEW r \in Receiver, HasSaid(r)'
    PROVE  \/ HasSaid(r)
           \/ /\ UNCHANGED serverVars /\ ~ServerHandles
              /\ \E written \in BOOLEAN : TakeMessage(r, written) /\ ReportSuccess(r)
<1>0. r \in Client /\ r \notin Sender
  BY ClientsAssumption DEF Client
<1>1. ASSUME SameClient(r), NoNews(r)
      PROVE  HasSaid(r)
  BY <1>1, StillHeard DEF SameClient, HasSaid
<1>2. ServerHandles => SameClient(r) /\ NoNews(r)
  BY HandlerElsewhere
<1>3. \A c \in Client : c # r /\ Elsewhere(c) => SameClient(r) /\ NoNews(r)
  BY <1>0 DEF Elsewhere
<1>4. UNCHANGED vars => SameClient(r) /\ NoNews(r)
  BY <1>0, StandStill
<1> QED
  BY <1>0, <1>1, <1>2, <1>3, <1>4, WorkReports, NetworkReports, StepCases DEF Client

LEMMA StaysDone ==
    ASSUME Known, Known', Codes, Requests, Finals, [Next]_vars,
           NEW r \in Receiver, Fed(r), Done(r)
    PROVE  Done(r)'
<1> SUFFICES ASSUME HasSaid(r)'
             PROVE  diskBad'[r] \/ \E s \in Sender : Complete(s, r)'
  BY DEF Done
<1>0. r \in Client /\ inbox[r] \in Seq(Server!Message) /\ pc \in [Client -> Label]
      /\ Len(got[r]) \in Nat
  BY UpType DEF Client, Known, Sending, ClientTypes
<1>1. CASE HasSaid(r)
  BY <1>1, StaysBad, StaysComplete DEF Done
<1>2. CASE ~HasSaid(r)
  <2>1. PICK written \in BOOLEAN :
           TakeMessage(r, written) /\ ReportSuccess(r) /\ UNCHANGED serverVars /\ ~ServerHandles
    BY <1>2, FirstReport
  <2>2. PICK m : m = Head(inbox[r])
    OBVIOUS
  <2>3. pc[r] = "receiving" /\ pc'[r] = "flushing" /\ inbox[r] # <<>>
    BY <1>0, <2>1 DEF TakeMessage, ReportSuccess, Go
  <2>4. Taken(r, m) /\ (diskBad[r] => diskBad'[r])
    <3>1. /\ diskBad[r] => diskBad'[r]
          /\ Leave(r, "failed", up[r]) \/ Taken(r, m)
      BY <2>1, <2>2, TakeFacts
    <3>2. ASSUME NEW q, Leave(r, "failed", q)
          PROVE  FALSE
      <4>1. pc'[r] = "failed"
        BY <1>0, <3>2, LeaveFacts
      <4> QED
        BY <2>3, <4>1
    <3> QED
      BY <3>1, <3>2
  <2>5. m.id = "FinalChunk" \/ diskBad'[r]
    BY <2>3, <2>4 DEF Taken
  <2>6. CASE ~diskBad'[r]
    <3>1. m.id = "FinalChunk" /\ got'[r] = got[r] /\ ~diskBad[r]
      BY <2>4, <2>5, <2>6 DEF Taken
    <3>2. m = inbox[r][1] /\ 1 \in 1 .. Len(inbox[r])
      BY <1>0, <2>2, <2>3, HeadTail
    <3>3. ~Dry(r)
      BY <3>1, <3>2 DEF Dry, DryQueue, IsData
    <3>4. PICK s \in Sender : Feeds(s, r)
      BY <3>3 DEF Fed
    <3>5. ended[s] /\ Quiet(s)
      BY <3>1, <3>2, <3>4 DEF Feeds, FinalSeen, HasFinal
    <3>6. PICK k \in Marks, k2 \in Marks : k = Mark(s) /\ k2 = Mark(s)' /\ Grows(k, k2)
      BY MarkGrows
    <3>7. PICK x \in Nat : Carries(k, inbox[r], Len(got[r]), x)
      BY <2>3, <3>1, <3>4, <3>6 DEF Feeds, Flow
    <3>8. Tag(k, m) = k.sent + 1
      BY <3>1, <3>5, <3>6 DEF Tag, Mark
    <3>9. Tag(k, m) # 0
      BY <3>1, TagType DEF IsData
    <3>10. Tag(k, m) = Len(got[r]) + 1
      BY <1>0, <2>2, <2>3, <3>7, <3>9, CarriesTail
    <3>11. k.sent \in Nat /\ k.sent = sent[s]
      BY <3>6 DEF Marks, Mark
    <3>12. sent'[s] = Len(got'[r])
      <4>1. k2 = k
        BY <3>5, <3>6 DEF Grows, Mark
      <4>2. k2.sent = sent'[s]
        BY <3>6 DEF Mark
      <4> QED
        BY <1>0, <3>1, <3>8, <3>10, <3>11, <4>1, <4>2
    <3>13. Served(s, r)' /\ ended'[s] /\ Quiet(s)'
      BY <3>1, <3>4, <3>5, StaysServed, StaysQuiet DEF Feeds
    <3>14. Complete(s, r)'
      BY <2>3, <3>12, <3>13 DEF Complete
    <3> QED
      BY <3>14
  <2> QED
    BY <2>6
<1> QED
  BY <1>1, <1>2

-----------------------------------------------------------------------------
(* What a sender is told.                                                  *)

ToldSuccess(s) == Has(inbox[s], "Success") \/ Has(out[s], "Success") \/ pc[s] = "ok"

LEMMA HasRest ==
    ASSUME NEW S, NEW q \in Seq(S), NEW id, q # <<>>, Has(Tail(q), id)
    PROVE  Has(q, id)
<1>1. \A i \in 1 .. Len(Tail(q)) : i + 1 \in 1 .. Len(q) /\ Tail(q)[i] = q[i + 1]
  BY HeadTail
<1> QED
  BY <1>1 DEF Has

LEMMA HasMore ==
    ASSUME NEW S, NEW q \in Seq(S), NEW m \in S, NEW id, Has(Append(q, m), id)
    PROVE  Has(q, id) \/ m.id = id
<1>1. \A i \in 1 .. Len(Append(q, m)) :
         \/ i \in 1 .. Len(q) /\ Append(q, m)[i] = q[i]
         \/ Append(q, m)[i] = m
  BY AppendFacts
<1> QED
  BY <1>1 DEF Has

LEMMA SenderTold ==
    ASSUME Known, NEW s \in Sender, SenderWork(s), UNCHANGED serverVars, ToldSuccess(s)'
    PROVE  ToldSuccess(s)
<1>0. /\ s \in Client /\ inbox[s] \in Seq(Server!Message) /\ pc \in [Client -> Label]
      /\ inbox \in [Client -> Seq(Server!Message)] /\ out' = out
  BY UpType DEF Client, Known, Sending, ClientTypes, serverVars
<1>1. ASSUME \/ inbox'[s] \in {inbox[s], <<>>}
             \/ inbox[s] # <<>> /\ inbox'[s] = Tail(inbox[s]),
             pc'[s] = "ok" => pc[s] = "ok" \/ Has(inbox[s], "Success")
      PROVE  ToldSuccess(s)
  <2>1. Has(inbox'[s], "Success") => Has(inbox[s], "Success")
    <3>1. ~Has(<<>>, "Success")
      BY DEF Has
    <3>2. CASE inbox[s] # <<>> /\ inbox'[s] = Tail(inbox[s])
      BY <1>0, <3>2, HasRest
    <3> QED
      BY <1>1, <3>1, <3>2
  <2> QED
    BY <1>0, <1>1, <2>1 DEF ToldSuccess
<1>2. ASSUME NEW q, Leave(s, "failed", q)
      PROVE  ToldSuccess(s)
  <2>1. pc'[s] = "failed" /\ inbox'[s] = <<>>
    BY <1>0, <1>2, LeaveFacts
  <2> QED
    BY <1>1, <2>1
<1>3. CASE Announce(s)
  <2>1. \/ inbox' = inbox /\ pc'[s] = "await"
        \/ Leave(s, "failed", up[s])
    BY <1>0, <1>3 DEF Announce, Go
  <2> QED
    BY <1>1, <1>2, <2>1
<1>4. CASE AwaitReceiver(s)
  <2>1. Answer(s, "sending") /\ pc[s] = "await"
    BY <1>4 DEF AwaitReceiver
  <2>2. \/ Leave(s, "failed", up[s])
        \/ inbox[s] # <<>> /\ inbox'[s] = Tail(inbox[s]) /\ pc'[s] # "ok"
    BY <1>0, <2>1 DEF Answer, Go
  <2> QED
    BY <1>1, <1>2, <2>2
<1>5. CASE SendChunk(s)
  BY <1>0, <1>1, <1>5 DEF SendChunk
<1>6. CASE EndOfInput(s)
  <2>1. pc'[s] = "confirm" /\ inbox'[s] \in {inbox[s], <<>>}
    BY <1>0, <1>6 DEF EndOfInput, Go
  <2> QED
    BY <1>1, <2>1
<1>7. CASE Confirm(s)
  <2>1. CASE Head(inbox[s]).id = "Success"
    <3>1. Head(inbox[s]) = inbox[s][1] /\ 1 \in 1 .. Len(inbox[s])
      BY <1>0, <1>7, HeadTail DEF Confirm
    <3> QED
      BY <2>1, <3>1 DEF ToldSuccess, Has
  <2>2. CASE Head(inbox[s]).id = "Abort"
    BY <1>2, <1>7, <2>2 DEF Confirm
  <2>3. CASE Head(inbox[s]).id \notin {"Success", "Abort"}
    <3>1. inbox[s] # <<>> /\ inbox'[s] = Tail(inbox[s]) /\ pc' = pc
      BY <1>0, <1>7, <2>3 DEF Confirm
    <3> QED
      BY <1>1, <3>1
  <2> QED
    BY <2>1, <2>2, <2>3
<1>8. CASE StopSending(s) \/ Crash(s) \/ FileGone(s)
  BY <1>2, <1>8 DEF StopSending, Crash, FileGone
<1> QED
  BY <1>3, <1>4, <1>5, <1>6, <1>7, <1>8 DEF SenderWork, SenderStep, FinishSending, ReadError

LEMMA NetworkTold ==
    ASSUME Known, NEW s \in Sender, NetworkWork(s), ToldSuccess(s)'
    PROVE  ToldSuccess(s)
<1>0. /\ s \in Client /\ inbox[s] \in Seq(Server!Message) /\ out[s] \in Seq(Server!Message)
      /\ pc \in [Client -> Label]
  BY UpType DEF Client, Known, Sending
<1>1. CASE ServerWrites(s)
  <2>1. /\ out[s] # <<>> /\ out'[s] = Tail(out[s]) /\ pc' = pc
        /\ inbox'[s] = IF link[s] THEN Append(inbox[s], Head(out[s])) ELSE inbox[s]
    BY <1>0, <1>1 DEF ServerWrites, Server!WriteDone, Known, ServerSafe, Server!TypeOK,
       ClientTypes
  <2>2. PICK m \in Server!Message : m = Head(out[s])
    BY <1>0, <2>1, HeadTail
  <2>3. m.id = "Success" => Has(out[s], "Success")
    BY <1>0, <2>1, <2>2, HeadTail DEF Has
  <2>4. Has(inbox'[s], "Success") => Has(inbox[s], "Success") \/ m.id = "Success"
    BY <1>0, <2>1, <2>2, HasMore
  <2>5. Has(out'[s], "Success") => Has(out[s], "Success")
    BY <1>0, <2>1, HasRest
  <2> QED
    BY <2>1, <2>3, <2>4, <2>5 DEF ToldSuccess
<1>2. CASE ServerCloses(s) \/ ServerNotices(s) \/ Reset(s)
  <2>1. Server!Close(s) /\ UNCHANGED <<inbox, pc>>
    BY <1>2 DEF ServerCloses, ServerNotices, Reset, Server!CloseFlushed, Server!ConnectionLost,
       clientVars
  <2>2. out'[s] = <<>>
    BY <1>0, <2>1 DEF Server!Close, Known, ServerSafe, Server!TypeOK
  <2> QED
    BY <2>1, <2>2 DEF ToldSuccess, Has
<1>3. CASE ServerReads(s) \/ ClientNotices(s) \/ Start(s)
  <2>1. /\ inbox' = inbox /\ out' = out
        /\ pc' = pc \/ pc'[s] = "hello"
    BY <1>0, <1>3 DEF ServerReads, ClientNotices, Start, Go, Server!Arrive, Server!Connect,
       serverVars
  <2> QED
    BY <2>1 DEF ToldSuccess
<1> QED
  BY <1>1, <1>2, <1>3 DEF NetworkWork, NetworkStep

(* Only a receiver's report brings Success. *)
LEMMA HandlerTold ==
    ASSUME Known, ServerHandles, NEW s \in Sender, ToldSuccess(s)',
           NEW e, e = Head(incoming)
    PROVE  ToldSuccess(s) \/ Completed(e, s)
<1>0. /\ s \in Client /\ s \notin Receiver /\ out[s] \in Seq(Server!Message)
      /\ Receiver \subseteq Client /\ Sender \subseteq Client
  BY UpType, ClientsAssumption DEF Client
<1>1. Handled(e) /\ e \in Heard /\ SameClient(s)
  BY HandlerElsewhere
<1>2. ASSUME out'[s] = out[s]
      PROVE  ToldSuccess(s)
  BY <1>1, <1>2 DEF SameClient, ToldSuccess
<1>3. CASE Ignored(e) \/ Offered(e)
  BY <1>2, <1>3 DEF Ignored, Offered
<1>4. ASSUME NEW r \in Receiver, NEW a, out' = Server!SendTo(r, a)
      PROVE  out'[s] = out[s]
  BY <1>0, <1>4, SendToFacts
<1>5. CASE Answered(e) \/ Refusal(e) \/ Relayed(e)
  <2>1. \E r \in Receiver : \E a : out' = Server!SendTo(r, a)
    BY <1>5 DEF Answered, Refusal, Relayed
  <2> QED
    BY <1>2, <1>4, <2>1
<1>6. ASSUME NEW t \in Sender, BrokenOff(e, t)
      PROVE  ToldSuccess(s)
  BY <1>2, <1>4, <1>6 DEF BrokenOff
<1>7. ASSUME NEW t \in Sender, Completed(e, t), t # s
      PROVE  ToldSuccess(s)
  BY <1>0, <1>2, <1>7, SendToFacts DEF Completed
<1>8. ASSUME NEW t \in Sender, Joined(e, t), t # s
      PROVE  ToldSuccess(s)
  BY <1>0, <1>2, <1>8, SendToFacts DEF Joined
<1>9. ASSUME Joined(e, s)
      PROVE  ToldSuccess(s)
  <2>1. context[s] \in File
    BY <1>0, <1>9 DEF Joined, Known, ServerSafe, Server!TypeOK
  <2>2. PICK a \in Server!Message : a = Server!Accept(context[s]) /\ a.id # "Success"
    BY <2>1, ServerAnswers DEF Answers, SenderAnswer, Server!Accept, Server!Encode
  <2>3. out'[s] \in {out[s], Append(out[s], a)}
    BY <1>0, <1>9, <2>2, SendToFacts DEF Joined
  <2>4. Has(out'[s], "Success") => Has(out[s], "Success")
    BY <1>0, <2>2, <2>3, HasMore
  <2> QED
    BY <1>1, <2>4 DEF SameClient, ToldSuccess
<1> QED
  BY <1>1, <1>3, <1>5, <1>6, <1>7, <1>8, <1>9 DEF Handled

LEMMA FirstTold ==
    ASSUME Known, [Next]_vars, NEW s \in Sender, ToldSuccess(s)'
    PROVE  \/ ToldSuccess(s)
           \/ ServerHandles /\ Completed(Head(incoming), s)
<1>0. s \in Client /\ s \notin Receiver
  BY ClientsAssumption DEF Client
<1>1. ASSUME SameClient(s), SameTablesOf(s)
      PROVE  ToldSuccess(s)
  BY <1>1 DEF SameClient, SameTablesOf, ToldSuccess
<1>2. \A c \in Client : c # s /\ Elsewhere(c) => SameClient(s) /\ SameTablesOf(s)
  BY <1>0 DEF Elsewhere
<1>3. UNCHANGED vars => SameClient(s) /\ SameTablesOf(s)
  BY <1>0, StandStill
<1>4. CASE Corrupt(s)
  BY <1>4 DEF Corrupt, serverVars, ToldSuccess
<1>5. CASE ServerHandles
  <2>1. PICK e : e = Head(incoming)
    OBVIOUS
  <2> QED
    BY <1>5, <2>1, HandlerTold
<1> QED
  BY <1>0, <1>1, <1>2, <1>3, <1>4, <1>5, SenderTold, NetworkTold, StepCases DEF Client

LEMMA StaysAssured ==
    ASSUME Known, Known', Codes, Requests, Finals, [Next]_vars, Streams, NEW s \in Sender
    PROVE  Assured(s)'
<1> SUFFICES ASSUME ToldSuccess(s)'
             PROVE  \E r \in Receiver :
                       code'[r] = code'[s] /\ (diskBad'[r] \/ Complete(s, r)')
  BY DEF Assured, ToldSuccess
<1>0. s \in Client /\ Receiver \subseteq Client
  BY DEF Client
<1>1. ASSUME NEW r \in Receiver, Complete(s, r)
      PROVE  code'[r] = code'[s] /\ Complete(s, r)'
  <2>1. Complete(s, r)'
    BY <1>1, StaysComplete
  <2> QED
    BY <2>1 DEF Complete, Served
<1>2. ASSUME NEW r \in Receiver, code[r] = code[s], diskBad[r]
      PROVE  code'[r] = code'[s] /\ diskBad'[r]
  <2>1. PICK t \in Sender : Feeds(t, r)
    BY <1>2 DEF Streams, Fed, Dry
  <2>2. code[r] # None
    BY <2>1 DEF Feeds, Served
  <2>3. code'[r] = code[r] /\ code'[s] = code[s]
    BY <1>0, <1>2, <2>2, StepKeepsCode DEF CodesStay
  <2>4. diskBad'[r]
    BY <1>2, StaysBad
  <2> QED
    BY <1>2, <2>3, <2>4
<1>3. CASE ToldSuccess(s)
  <2>1. PICK r \in Receiver : code[r] = code[s] /\ (diskBad[r] \/ Complete(s, r))
    BY <1>3 DEF Streams, Assured, ToldSuccess
  <2> QED
    BY <1>1, <1>2, <2>1
<1>4. CASE ServerHandles /\ Completed(Head(incoming), s)
  <2>1. PICK e : e = Head(incoming)
    OBVIOUS
  <2>2. PICK r \in Receiver : r = e.remote
    BY <1>4, <2>1 DEF Completed
  <2>3. sink[s] = r /\ e.msg.id = "FinishReceive"
    BY <1>4, <2>1, <2>2 DEF Completed, Requests
  <2>4. HasSaid(r)
    <3>1. e = incoming[1] /\ 1 \in 1 .. Len(incoming)
      <4>1. Len(incoming) \in Nat /\ Len(incoming) >= 1
        BY <1>0, <1>4, HandlerElsewhere, UpType
      <4> QED
        BY <1>4, <2>1, <4>1, HandlerElsewhere
    <3> QED
      BY <2>2, <2>3, <3>1 DEF HasSaid
  <2>5. ASSUME NEW t \in Sender, Served(t, r)
        PROVE  t = s
    BY <2>3, <2>5 DEF Served, Only
  <2>6. CASE diskBad[r]
    <3>1. PICK t \in Sender : Feeds(t, r)
      BY <2>6 DEF Streams, Fed, Dry
    <3>2. code[r] = code[s]
      BY <2>5, <3>1 DEF Feeds, Served
    <3> QED
      BY <1>2, <2>6, <3>2
  <2>7. CASE \E t \in Sender : Complete(t, r)
    <3>1. Complete(s, r)
      BY <2>5, <2>7 DEF Complete
    <3> QED
      BY <1>1, <3>1
  <2> QED
    BY <2>4, <2>6, <2>7 DEF Streams, Done
<1> QED
  BY <1>3, <1>4, FirstTold

-----------------------------------------------------------------------------
LEMMA StepKeepsStreams ==
    ASSUME Known, Known', Codes, Requests, Finals, Offers, Streams, [Next]_vars
    PROVE  Streams'
<1>1. ASSUME NEW r \in Receiver
      PROVE  Fed(r)' /\ Done(r)'
  BY StaysFed, StaysDone DEF Streams
<1>2. ASSUME NEW s \in Sender
      PROVE  Assured(s)'
  BY StaysAssured
<1> QED
  BY <1>1, <1>2 DEF Streams

LEMMA InitStreams == Init => Streams
<1> SUFFICES ASSUME Init
             PROVE  Streams
  OBVIOUS
<1>0. /\ None \notin Receiver /\ Sender \subseteq Client /\ Receiver \subseteq Client
  BY ClientsAssumption DEF Client
<1>1. ASSUME NEW r \in Receiver
      PROVE  Fed(r) /\ Done(r)
  <2>1. Dry(r) /\ Sinkless(r)
    BY <1>0, <1>1 DEF Init, Server!Init, Dry, DryQueue, Sinkless
  <2>2. ~HasSaid(r)
    BY <1>0, <1>1 DEF Init, Server!Init, HasSaid
  <2> QED
    BY <2>1, <2>2 DEF Fed, Done
<1>2. ASSUME NEW s \in Sender
      PROVE  Assured(s)
  BY <1>0, <1>2 DEF Init, Server!Init, Assured, Has
<1> QED
  BY <1>1, <1>2 DEF Streams

(* Between the file of a sender and the file of a receiver the chunks keep *)
(* their order and none is missing, through four queues, the main thread   *)
(* and every fault; success is reported, and confirmed, of nothing less.   *)
THEOREM StreamsInvariant == Spec => []Streams
<1>1. Init => Streams
  BY InitStreams
<1>2. Known /\ Known' /\ Codes /\ Requests /\ Finals /\ Offers /\ Streams /\ [Next]_vars => Streams'
  BY StepKeepsStreams
<1> QED
  BY <1>1, <1>2, KindsInvariant, CodesInvariant, RequestsInvariant, FinalsInvariant,
     OffersInvariant, PTL DEF Spec

-----------------------------------------------------------------------------
(* What the runs check, for every value of the constants.                  *)

LEMMA SameElements ==
    ASSUME NEW S, NEW q \in Seq(S), NEW p \in Seq(S), Len(q) = Len(p),
           \A i \in 1 .. Len(q) : q[i] = p[i]
    PROVE  q = p
  OBVIOUS

LEMMA PrefixOfSent ==
    ASSUME Known, Finals, NEW s \in Sender, NEW r \in Receiver, Prefix(s, r)
    PROVE  /\ IsPrefixOf(got[r], SentBy(s))
           /\ sent[s] = Len(got[r]) => got[r] = SentBy(s)
<1>1. /\ got[r] \in Seq(Body) /\ sent[s] \in Nat /\ FileOf[s] \in File
      /\ Parts[FileOf[s]] \in Nat /\ sent[s] <= Parts[FileOf[s]]
  BY FilesAssumption DEF Known, ClientTypes, Sending, Finals, Final, Reading
<1>2. PICK f \in File : f = FileOf[s]
  BY <1>1
<1>3. PICK n \in Nat : n = Parts[f]
  BY <1>1, <1>2
<1>4. PICK g \in Seq(Body) : g = got[r]
  BY <1>1
<1>5. PICK a \in Nat : a = sent[s]
  BY <1>1
<1>6. PICK q : q = Contents(f)
  OBVIOUS
<1>7. /\ q = [i \in 1 .. n |-> [file |-> f, part |-> i, sound |-> TRUE]] /\ a <= n
      /\ Len(g) <= a /\ Len(g) \in Nat
      /\ \A i \in 1 .. Len(g) : g[i] = [file |-> f, part |-> i, sound |-> TRUE]
  BY <1>1, <1>2, <1>3, <1>4, <1>5, <1>6 DEF Contents, Prefix
<1>8. q \in Seq(Body) /\ Len(q) = n
  <2>1. \A i \in 1 .. n : [file |-> f, part |-> i, sound |-> TRUE] \in Body
    BY <1>3 DEF Body
  <2> QED
    BY <1>7, <2>1
<1>9. PICK w : w = SubSeq(q, 1, a)
  OBVIOUS
<1>10. w \in Seq(Body) /\ Len(w) = a /\ \A i \in 1 .. a : w[i] = q[i]
  BY <1>7, <1>8, <1>9
<1>11. ASSUME NEW i \in 1 .. Len(g)
       PROVE  w[i] = g[i]
  <2>1. i \in 1 .. a /\ i \in 1 .. n
    BY <1>7, <1>11
  <2>2. PICK c : c = [file |-> f, part |-> i, sound |-> TRUE]
    OBVIOUS
  <2>3. g[i] = c
    BY <1>7, <1>11, <2>2
  <2>4. q[i] = c
    BY <1>7, <2>1, <2>2
  <2>5. w[i] = q[i]
    BY <1>10, <2>1
  <2> QED
    BY <2>3, <2>4, <2>5
<1>12. g = SubSeq(w, 1, Len(g))
  <2>1. PICK l \in Nat : l = Len(g)
    BY <1>7
  <2>2. PICK v : v = SubSeq(w, 1, l)
    OBVIOUS
  <2>3. v \in Seq(Body) /\ Len(v) = l /\ \A i \in 1 .. l : v[i] = w[i]
    BY <1>7, <1>10, <2>1, <2>2
  <2>4. \A i \in 1 .. l : v[i] = g[i]
    BY <1>11, <2>1, <2>3
  <2>5. g = v
    BY <2>1, <2>3, <2>4, SameElements
  <2> QED
    BY <2>1, <2>2, <2>5
<1>13. a = Len(g) => g = w
  <2>1. CASE a = Len(g)
    <3>1. \A i \in 1 .. a : g[i] = w[i]
      BY <1>11, <2>1
    <3>2. Len(g) = Len(w)
      BY <1>10, <2>1
    <3> QED
      BY <1>10, <2>1, <3>1, <3>2, SameElements
  <2> QED
    BY <2>1
<1>14. w = SentBy(s)
  BY <1>2, <1>5, <1>6, <1>9 DEF SentBy
<1> QED
  BY <1>4, <1>5, <1>7, <1>10, <1>12, <1>13, <1>14 DEF IsPrefixOf

(* ReceivedInOrder: what is in the file of a receiver is at every moment   *)
(* an initial part of what the sender that printed its phrase has sent.    *)
THEOREM ChunksInOrder == Spec => []ReceivedInOrder
<1>1. Known /\ Finals /\ Streams => ReceivedInOrder
  <2> SUFFICES ASSUME Known, Finals, Streams, NEW r \in Receiver, got[r] # <<>>
               PROVE  \E s \in Sender : code[s] = code[r] /\ IsPrefixOf(got[r], SentBy(s))
    BY DEF ReceivedInOrder
  <2>1. PICK s \in Sender : Feeds(s, r)
    BY DEF Streams, Fed, Dry
  <2>2. code[s] = code[r] /\ Prefix(s, r)
    BY <2>1 DEF Feeds, Served
  <2> QED
    BY <2>2, PrefixOfSent
<1> QED
  BY <1>1, KindsInvariant, FinalsInvariant, StreamsInvariant, PTL

(* ReceiverOkIsComplete: a receiver with a sound disk that reports success *)
(* has all its sender read.                                                *)
THEOREM SuccessIsComplete == Spec => []ReceiverOkIsComplete
<1>1. Known /\ Finals /\ Streams => ReceiverOkIsComplete
  <2> SUFFICES ASSUME Known, Finals, Streams, NEW r \in Receiver,
                      pc[r] \in {"flushing", "ok"}, ~diskBad[r]
               PROVE  \E s \in Sender : code[s] = code[r] /\ ended[s] /\ got[r] = SentBy(s)
    BY DEF ReceiverOkIsComplete
  <2>1. PICK s \in Sender : Complete(s, r)
    BY DEF Streams, Done, HasSaid
  <2>2. code[s] = code[r] /\ ended[s] /\ Prefix(s, r) /\ sent[s] = Len(got[r])
    BY <2>1 DEF Complete, Served
  <2> QED
    BY <2>2, PrefixOfSent
<1> QED
  BY <1>1, KindsInvariant, FinalsInvariant, StreamsInvariant, PTL

(* SenderOkIsReceived: a sender whose waitForConfirmation saw Success was  *)
(* received, whole unless the receiver's disk failed.                      *)
THEOREM SuccessWasReceived == Spec => []SenderOkIsReceived
<1>1. Known /\ Finals /\ Streams => SenderOkIsReceived
  <2> SUFFICES ASSUME Known, Finals, Streams, NEW s \in Sender, pc[s] = "ok"
               PROVE  \E r \in Receiver :
                         code[r] = code[s] /\ (diskBad[r] \/ got[r] = SentBy(s))
    BY DEF SenderOkIsReceived
  <2>1. PICK r \in Receiver : code[r] = code[s] /\ (diskBad[r] \/ Complete(s, r))
    BY DEF Streams, Assured
  <2>2. Complete(s, r) => got[r] = SentBy(s)
    BY PrefixOfSent DEF Complete, Served
  <2> QED
    BY <2>1, <2>2
<1> QED
  BY <1>1, KindsInvariant, FinalsInvariant, StreamsInvariant, PTL

(* SuccessIsLast: when the server closes behind Success nothing of the     *)
(* sender is unread, so the close cannot destroy Success on its way.       *)
THEOREM NothingBehindSuccess == Spec => []SuccessIsLast
<1>1. Streams => SuccessIsLast
  <2> SUFFICES ASSUME Streams, NEW s \in Sender,
                      Has(out[s], "Success") \/ Has(inbox[s], "Success"),
                      \A r \in Receiver : code[r] = code[s] => ~diskBad[r]
               PROVE  /\ up[s] = <<>>
                      /\ \A i \in 1 .. Len(incoming) : incoming[i].remote # s
    BY DEF SuccessIsLast
  <2>1. PICK r \in Receiver : Complete(s, r)
    BY DEF Streams, Assured
  <2> QED
    BY <2>1 DEF Complete, Quiet, NoneHeard
<1> QED
  BY <1>1, StreamsInvariant, PTL

(* ConsentedFile: as long as one sender alone has drawn the phrase, what   *)
(* is written comes from the file that the prompt has shown.               *)
THEOREM ConsentedFileOnly == Spec => []ConsentedFile
<1>1. Known /\ Requests /\ Streams => ConsentedFile
  <2> SUFFICES ASSUME Known, Requests, Streams, NEW r \in Receiver, Alone(code[r]),
                      NEW i \in 1 .. Len(got[r])
               PROVE  got[r][i].file = shown[r]
    BY DEF ConsentedFile
  <2>1. got[r] # <<>>
    OBVIOUS
  <2>2. PICK s \in Sender : Feeds(s, r)
    BY <2>1 DEF Streams, Fed, Dry
  <2>3. code[s] = code[r] /\ got[r][i].file = FileOf[s]
    <3>1. code[s] = code[r] /\ Prefix(s, r)
      BY <2>2 DEF Feeds, Served
    <3>2. got[r][i] = [file |-> FileOf[s], part |-> i, sound |-> TRUE]
      BY <3>1 DEF Prefix
    <3> QED
      BY <3>1, <3>2
  <2>4. PICK t \in Sender : code[t] = code[r] /\ shown[r] = FileOf[t]
    BY <2>1 DEF Requests, Request, Shown, Names
  <2>5. t = s
    BY <2>3, <2>4 DEF Alone
  <2> QED
    BY <2>3, <2>4, <2>5
<1> QED
  BY <1>1, KindsInvariant, RequestsInvariant, StreamsInvariant, PTL
=============================================================================
