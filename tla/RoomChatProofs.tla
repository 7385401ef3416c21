--------------------------- MODULE RoomChatProofs ---------------------------
(***************************************************************************)
(* Proofs about RoomChat, for any peers, limits and disturbances: what the *)
(* sender is told of a message is what became of it, and what waits for a  *)
(* channel is sent over it, unless the channel opened quietly.             *)
(***************************************************************************)
EXTENDS RoomChat, SequenceTheorems, FiniteSetTheorems, TLAPS

-----------------------------------------------------------------------------
(* Sequences                                                               *)

\* Only takes some places of a sequence, each once, and all that have an
\* element of the set.
LEMMA OnlyPlaces ==
  ASSUME NEW S, NEW s \in Seq(S), NEW T
  PROVE  /\ Only(s, T) \in Seq(S) /\ Len(Only(s, T)) \in Nat
         /\ Range(Only(s, T)) = Range(s) \cap T
         /\ \E f \in [1..Len(Only(s, T)) -> 1..Len(s)] :
              /\ \A k \in 1..Len(Only(s, T)) : Only(s, T)[k] = s[f[k]]
              /\ \A k, l \in 1..Len(Only(s, T)) : f[k] = f[l] => k = l
<1> DEFINE at == {i \in DOMAIN s : s[i] \in T}
           before(i) == {j \in at : j <= i}
           n == Cardinality(at)
           r == [i \in at |-> Cardinality(before(i))]
           f == [k \in 1..n |-> CHOOSE i \in at : Cardinality(before(i)) = k]
<1>1. DOMAIN s = 1..Len(s) /\ Len(s) \in Nat
  OBVIOUS
<1>2. IsFiniteSet(at) /\ n \in Nat /\ at \subseteq 1..Len(s)
  <2>1. at \in SUBSET (1..Len(s)) /\ IsFiniteSet(1..Len(s))
    BY <1>1, FS_Interval
  <2> HIDE DEF at
  <2> QED  BY <2>1, FS_Subset, FS_CardinalityType
<1>3. \A i \in at : IsFiniteSet(before(i)) /\ r[i] \in 1..n
  <2> SUFFICES ASSUME NEW i \in at PROVE IsFiniteSet(before(i)) /\ r[i] \in 1..n
    OBVIOUS
  <2>1. before(i) \in SUBSET at /\ i \in before(i)
    BY <1>1
  <2>2. IsFiniteSet(before(i)) /\ Cardinality(before(i)) <= n /\ Cardinality(before(i)) \in Nat
    BY <2>1, <1>2, FS_Subset, FS_CardinalityType
  <2>3. Cardinality(before(i)) # 0
    BY <2>1, <2>2, FS_EmptySet
  <2> QED  BY <2>2, <2>3
<1>4. \A i, l \in at : r[i] = r[l] => i = l
  <2>1. ASSUME NEW i \in at, NEW l \in at, i < l PROVE r[i] # r[l]
    <3>1. before(i) \in SUBSET before(l) /\ l \in before(l) /\ l \notin before(i)
      BY <2>1, <1>1
    <3> HIDE DEF before
    <3>2. Cardinality(before(l)) = Cardinality(before(i)) => before(l) = before(i)
      BY <3>1, <1>3, FS_Subset
    <3> QED  BY <3>1, <3>2
  <2> SUFFICES ASSUME NEW i \in at, NEW l \in at, r[i] = r[l] PROVE i = l
    OBVIOUS
  <2>2. i \in Nat /\ l \in Nat
    BY <1>1
  <2>3. i < l \/ l < i \/ i = l
    BY <2>2
  <2> HIDE DEF r, at
  <2> QED  BY <2>1, <2>3
<1>5. \A k \in 1..n : \E i \in at : Cardinality(before(i)) = k
  <2>1. r \in Injection(at, 1..n)
    <3>1. r \in [at -> 1..n]
      BY <1>3
    <3>2. DOMAIN r = at
      OBVIOUS
    <3> HIDE DEF r, at, n
    <3> QED  BY <3>1, <3>2, <1>4 DEF Injection, IsInjective
  <2>2. IsFiniteSet(1..n) /\ Cardinality(1..n) = n
    BY <1>2, FS_Interval
  <2> HIDE DEF r
  <2>3. r \in Surjection(at, 1..n)
    BY <2>1, <2>2, FS_Injection
  <2>4. \A k \in 1..n : \E i \in at : r[i] = k
    BY <2>3 DEF Surjection
  <2> QED  BY <2>4 DEF r
<1>6. \A k \in 1..n : f[k] \in at /\ Cardinality(before(f[k])) = k
  BY <1>5
<1>7. Only(s, T) = [k \in 1..n |-> s[f[k]]]
  BY DEF Only
<1>8. \A i \in at : r[i] \in 1..n /\ f[r[i]] = i
  <2> SUFFICES ASSUME NEW i \in at PROVE r[i] \in 1..n /\ f[r[i]] = i
    OBVIOUS
  <2>1. r[i] \in 1..n
    BY <1>3
  <2>2. f[r[i]] \in at /\ Cardinality(before(f[r[i]])) = r[i]
    BY <2>1, <1>6
  <2>3. r[f[r[i]]] = r[i]
    BY <2>2
  <2> HIDE DEF r, f, at
  <2> QED  BY <2>1, <2>2, <2>3, <1>4
<1> HIDE DEF at, before, n, r, f
<1>9. \A k \in 1..n : s[f[k]] \in S
  <2>1. \A i \in 1..Len(s) : s[i] \in S
    OBVIOUS
  <2> QED  BY <2>1, <1>6, <1>2
<1>10. Only(s, T) \in Seq(S) /\ Len(Only(s, T)) = n
  BY <1>7, <1>9, <1>2
<1>11. Range(Only(s, T)) = Range(s) \cap T
  <2>1. DOMAIN Only(s, T) = 1..n
    BY <1>7
  <2>2. ASSUME NEW k \in 1..n PROVE Only(s, T)[k] \in Range(s) \cap T
    BY <1>6, <1>7 DEF at, Range
  <2>3. ASSUME NEW i \in DOMAIN s, s[i] \in T PROVE \E k \in 1..n : Only(s, T)[k] = s[i]
    <3>1. i \in at
      BY <2>3 DEF at
    <3>2. r[i] \in 1..n /\ f[r[i]] = i
      BY <3>1, <1>8
    <3>3. Only(s, T)[r[i]] = s[i]
      BY <3>2, <1>7
    <3> QED  BY <3>2, <3>3
  <2> QED  BY <2>1, <2>2, <2>3 DEF Range
<1>12. f \in [1..n -> 1..Len(s)]
  <2>1. f = [k \in 1..n |-> f[k]]
    BY DEF f
  <2> QED  BY <2>1, <1>6, <1>2
<1>13. \A k, l \in 1..n : f[k] = f[l] => k = l
  BY <1>6
<1> QED  BY <1>2, <1>7, <1>10, <1>11, <1>12, <1>13

LEMMA AppendsTo ==
  ASSUME NEW S, NEW s \in Seq(S), NEW e \in S
  PROVE  /\ Append(s, e) \in Seq(S) /\ Len(Append(s, e)) = Len(s) + 1 /\ Len(s) \in Nat
         /\ Append(s, e)[Len(s) + 1] = e
         /\ \A i \in 1..Len(s) : Append(s, e)[i] = s[i]
         /\ Range(Append(s, e)) = Range(s) \cup {e}
<1>1. /\ Append(s, e) \in Seq(S) /\ Len(Append(s, e)) = Len(s) + 1 /\ Len(s) \in Nat
      /\ Append(s, e)[Len(s) + 1] = e
      /\ \A i \in 1..Len(s) : Append(s, e)[i] = s[i]
  OBVIOUS
<1>2. Range(Append(s, e)) = {Append(s, e)[i] : i \in 1..(Len(s) + 1)}
  BY <1>1, RangeEquality
<1>3. Range(s) = {s[i] : i \in 1..Len(s)}
  BY RangeEquality
<1> HIDE DEF Range
<1>4. \A i \in 1..(Len(s) + 1) : i = Len(s) + 1 \/ i \in 1..Len(s)
  BY <1>1
<1>5. \A i \in 1..Len(s) : i \in 1..(Len(s) + 1)
  BY <1>1
<1>6. Len(s) + 1 \in 1..(Len(s) + 1)
  BY <1>1
<1>7. PICK t : t = Append(s, e)
  OBVIOUS
<1>8. {t[i] : i \in 1..(Len(s) + 1)} = {s[i] : i \in 1..Len(s)} \cup {e}
  BY <1>1, <1>4, <1>5, <1>6, <1>7
<1> QED  BY <1>1, <1>2, <1>3, <1>7, <1>8

LEMMA TailOf ==
  ASSUME NEW S, NEW s \in Seq(S), s # <<>>
  PROVE  /\ Tail(s) \in Seq(S) /\ Len(s) \in Nat /\ Len(Tail(s)) = Len(s) - 1 /\ Len(s) >= 1
         /\ \A i \in 1..Len(Tail(s)) : Tail(s)[i] = s[i + 1]
         /\ Head(s) = s[1] /\ Head(s) \in S /\ Head(s) \in Range(s)
         /\ Range(s) = {Head(s)} \cup Range(Tail(s))
<1>1. /\ Tail(s) \in Seq(S) /\ Len(s) \in Nat /\ Len(Tail(s)) = Len(s) - 1 /\ Len(s) >= 1
      /\ \A i \in 1..Len(Tail(s)) : Tail(s)[i] = s[i + 1]
      /\ Head(s) = s[1] /\ Head(s) \in S
  OBVIOUS
<1>2. Range(s) = {s[i] : i \in 1..Len(s)} /\ Range(Tail(s)) = {Tail(s)[i] : i \in 1..Len(Tail(s))}
  BY ZenonT(40), <1>1, RangeEquality
<1>3. PICK t : t = Tail(s)
  OBVIOUS
<1>4. PICK n \in Nat : n = Len(t)
  <2>1. t \in Seq(S)
    BY <1>1, <1>3
  <2>2. Len(t) \in Nat
    BY <2>1
  <2> QED  BY <2>2
<1>5. Len(s) = n + 1
  <2>1. Len(s) \in Nat /\ n = Len(s) - 1
    BY <1>1, <1>3, <1>4
  <2> QED  BY <2>1
<1>6. \A i \in 1..n : t[i] = s[i + 1] /\ i + 1 \in 1..(n + 1)
  BY <1>1, <1>3, <1>4
<1>7. \A i \in 1..(n + 1) : i = 1 \/ (i - 1 \in 1..n /\ s[i] = t[i - 1])
  <2> SUFFICES ASSUME NEW i \in 1..(n + 1), i # 1 PROVE i - 1 \in 1..n /\ s[i] = t[i - 1]
    OBVIOUS
  <2>1. i - 1 \in 1..n /\ (i - 1) + 1 = i
    OBVIOUS
  <2>2. t[i - 1] = s[(i - 1) + 1]
    BY <2>1, <1>6
  <2> QED  BY <2>1, <2>2
<1>8. 1 \in 1..(n + 1)
  OBVIOUS
<1>9. {s[i] : i \in 1..(n + 1)} = {s[1]} \cup {t[i] : i \in 1..n}
  BY <1>6, <1>7, <1>8
<1>10. Range(s) = {Head(s)} \cup Range(Tail(s))
  BY <1>1, <1>2, <1>3, <1>4, <1>5, <1>9
<1> QED  BY <1>1, <1>10

\* The first elements of a sequence
LEMMA FirstOf ==
  ASSUME NEW S, NEW s \in Seq(S), NEW k \in 0..Len(s)
  PROVE  /\ SubSeq(s, 1, k) \in Seq(S) /\ Len(SubSeq(s, 1, k)) = k
         /\ \A i \in 1..k : SubSeq(s, 1, k)[i] = s[i] /\ i \in 1..Len(s)
         /\ Range(SubSeq(s, 1, k)) \subseteq Range(s)
         /\ k = Len(s) => SubSeq(s, 1, k) = s
<1>1. Len(s) \in Nat /\ k \in Nat /\ k <= Len(s)
  OBVIOUS
<1>2. \A i \in 1..k : i \in 1..Len(s) /\ s[i] \in S
  BY <1>1
<1>3. /\ SubSeq(s, 1, k) \in Seq(S) /\ Len(SubSeq(s, 1, k)) = k
      /\ \A i \in 1..k : SubSeq(s, 1, k)[i] = s[i]
  <2>1. /\ SubSeq(s, 1, k) \in Seq(S)
        /\ Len(SubSeq(s, 1, k)) = IF 1 <= k THEN k - 1 + 1 ELSE 0
        /\ \A i \in 1..(k - 1 + 1) : SubSeq(s, 1, k)[i] = s[1 + i - 1]
    BY <1>1, <1>2, SubSeqProperties
  <2> QED  BY <2>1, <1>1
<1>4. Range(SubSeq(s, 1, k)) \subseteq Range(s)
  <2>1. DOMAIN SubSeq(s, 1, k) = 1..k /\ DOMAIN s = 1..Len(s)
    BY <1>3
  <2>2. PICK t : t = SubSeq(s, 1, k)
    OBVIOUS
  <2>3. DOMAIN t = 1..k /\ \A i \in 1..k : t[i] = s[i] /\ i \in DOMAIN s
    BY <2>1, <2>2, <1>2, <1>3
  <2>4. Range(t) \subseteq Range(s)
    BY <2>3 DEF Range
  <2> QED  BY <2>2, <2>4
<1> QED  BY <1>2, <1>3, <1>4, SubSeqFull

-----------------------------------------------------------------------------
(* Types                                                                   *)

Entry == [id : Chat, sent : BOOLEAN, ever : BOOLEAN]
End ==
  [here : BOOLEAN, epoch : Nat, from : Nat \cup {None}, on : Nat, open : BOOLEAN,
   connected : BOOLEAN, recovering : BOOLEAN, timed : BOOLEAN, attempt : {0, 1},
   grace : {"none", "closed", "error"}, low : BOOLEAN, full : BOOLEAN,
   due : BOOLEAN, quiet : BOOLEAN,
   queue : Seq(Entry), acks : Seq(Chat), got : Seq(Chat), media : Nat \cup {None}]
Frame == [type : {"chat.ack", "participant.media", "chat.message"}, id : Nat]
State == {"none", "pending", "acknowledged", "failed"}
Channel == [gen : Nat, alive : BOOLEAN, fresh : BOOLEAN, by : {"near", "far"}]

\* Two queues of the same messages, whether sent or not
Alike(q, r) == Len(q) = Len(r) /\ \A i \in 1..Len(q) : q[i].id = r[i].id

LEMMA ChatsAreNumbers == Chat \subseteq Nat /\ Chats \in Nat
  BY ChatAssumption DEF Chat

LEMMA FramesMade ==
  /\ \A m \in Nat : Ack(m) \in Frame /\ Media(m) \in Frame /\ Message(m) \in Frame
  /\ \A m, n : /\ Ack(m) = Ack(n) => m = n
               /\ Media(m) = Media(n) => m = n
               /\ Message(m) = Message(n) => m = n
               /\ Ack(m) # Media(n) /\ Ack(m) # Message(n) /\ Media(m) # Message(n)
  /\ \A m : /\ Ack(m).type = "chat.ack" /\ Ack(m).id = m
            /\ Media(m).type = "participant.media" /\ Media(m).id = m
            /\ Message(m).type = "chat.message" /\ Message(m).id = m
<1>1. \A m : /\ Ack(m).type = "chat.ack" /\ Ack(m).id = m
            /\ Media(m).type = "participant.media" /\ Media(m).id = m
            /\ Message(m).type = "chat.message" /\ Message(m).id = m
  BY DEF Ack, Media, Message
<1>2. \A m \in Nat : Ack(m) \in Frame /\ Media(m) \in Frame /\ Message(m) \in Frame
  BY DEF Ack, Media, Message, Frame
<1> QED  BY <1>1, <1>2

\* What an end has to send: its acknowledgements, the media, and its chats that
\* are not sent.
LEMMA FramesOf ==
  ASSUME NEW e \in End
  PROVE  /\ Frames(e) \in Seq(Frame) /\ Len(Frames(e)) \in Nat
         /\ \A f : f \in Range(Frames(e)) <=>
              \/ \E m \in Range(e.acks) : f = Ack(m)
              \/ e.media # None /\ f = Media(e.media)
              \/ \E c \in Range(e.queue) : ~c.sent /\ f = Message(c.id)
<1>1. e.acks \in Seq(Chat) /\ e.queue \in Seq(Entry) /\ e.media \in Nat \cup {None}
  BY DEF End
<1>2. PICK a : a = [i \in DOMAIN e.acks |-> Ack(e.acks[i])]
  OBVIOUS
<1>3. a \in Seq(Frame) /\ Range(a) = {Ack(m) : m \in Range(e.acks)}
  <2>1. Len(e.acks) \in Nat /\ DOMAIN e.acks = 1..Len(e.acks) /\ \A i \in 1..Len(e.acks) : e.acks[i] \in Nat
    <3>1. PICK s \in Seq(Chat) : s = e.acks
      BY <1>1
    <3>2. Len(s) \in Nat /\ DOMAIN s = 1..Len(s) /\ \A i \in 1..Len(s) : s[i] \in Chat
      OBVIOUS
    <3> QED  BY <3>1, <3>2, ChatsAreNumbers
  <2>2. \A i \in 1..Len(e.acks) : Ack(e.acks[i]) \in Frame
    BY <2>1, FramesMade
  <2>3. a \in Seq(Frame)
    BY <1>2, <2>1, <2>2
  <2> QED  BY <1>2, <2>3 DEF Range
<1>4. PICK b : b = IF e.media = None THEN <<>> ELSE <<Media(e.media)>>
  OBVIOUS
<1>5. b \in Seq(Frame) /\ Range(b) = IF e.media = None THEN {} ELSE {Media(e.media)}
  <2>1. CASE e.media = None
    <3>1. b = <<>>
      BY <1>4, <2>1
    <3> QED  BY <3>1, <2>1 DEF Range
  <2>2. CASE e.media # None
    <3>1. Media(e.media) \in Frame /\ b = <<Media(e.media)>>
      BY <1>1, <1>4, <2>2, FramesMade
    <3> QED  BY <3>1, <2>2 DEF Range
  <2> QED  BY <2>1, <2>2
<1>6. PICK u : u = Unsent(e)
  OBVIOUS
<1>7. u \in Seq(Entry) /\ Range(u) = {c \in Range(e.queue) : ~c.sent}
  <2>1. PICK T : T = {c \in Range(e.queue) : ~c.sent}
    OBVIOUS
  <2>2. u = Only(e.queue, T)
    BY <1>6, <2>1 DEF Unsent
  <2> QED  BY <1>1, <2>1, <2>2, OnlyPlaces
<1>8. PICK c : c = [i \in DOMAIN u |-> Message(u[i].id)]
  OBVIOUS
<1>9. c \in Seq(Frame) /\ Range(c) = {Message(d.id) : d \in Range(u)}
  <2>1. Len(u) \in Nat /\ DOMAIN u = 1..Len(u) /\ \A i \in 1..Len(u) : u[i].id \in Nat
    <3>1. Len(u) \in Nat /\ DOMAIN u = 1..Len(u) /\ \A i \in 1..Len(u) : u[i] \in Entry
      BY <1>7
    <3>2. \A d \in Entry : d.id \in Nat
      BY ChatsAreNumbers DEF Entry
    <3> QED  BY <3>1, <3>2
  <2>2. \A i \in 1..Len(u) : Message(u[i].id) \in Frame
    BY <2>1, FramesMade
  <2>3. c \in Seq(Frame)
    BY <1>8, <2>1, <2>2
  <2> QED  BY <1>8, <2>3 DEF Range
<1>10. Frames(e) = a \o b \o c
  BY <1>2, <1>4, <1>6, <1>8 DEF Frames
<1>11. a \o b \in Seq(Frame) /\ a \o b \o c \in Seq(Frame)
  BY <1>3, <1>5, <1>9
<1>12. Range(a \o b \o c) = Range(a) \cup Range(b) \cup Range(c)
  <2>1. Range(a \o b) = Range(a) \cup Range(b)
    BY <1>3, <1>5, RangeConcatenation
  <2>2. PICK d \in Seq(Frame) : d = a \o b
    BY <1>11
  <2>3. Range(d \o c) = Range(d) \cup Range(c)
    BY <1>9, RangeConcatenation
  <2> QED  BY <2>1, <2>2, <2>3
<1>13. Frames(e) \in Seq(Frame) /\ Len(Frames(e)) \in Nat
  BY <1>10, <1>11
<1>14. \A f : f \in Range(Frames(e)) <=> f \in Range(a) \/ f \in Range(b) \/ f \in Range(c)
  BY <1>10, <1>12
<1>15. \A f : f \in Range(c) <=> \E d \in Range(e.queue) : ~d.sent /\ f = Message(d.id)
  BY <1>7, <1>9
<1>16. \A f : f \in Range(b) <=> e.media # None /\ f = Media(e.media)
  BY <1>5
<1>17. \A f : f \in Range(a) <=> \E m \in Range(e.acks) : f = Ack(m)
  BY <1>3
<1> QED  BY <1>13, <1>14, <1>15, <1>16, <1>17

LEMMA EmptyRange ==
  ASSUME NEW S, NEW s \in Seq(S)
  PROVE  (s = <<>>) <=> (Range(s) = {})
<1>1. Range(s) = {s[i] : i \in 1..Len(s)} /\ Len(s) \in Nat
  BY RangeEquality
<1>2. s = <<>> => Len(s) = 0
  OBVIOUS
<1>3. s # <<>> => 1 \in 1..Len(s)
  OBVIOUS
<1>4. s # <<>> => s[1] \in {s[i] : i \in 1..Len(s)}
  BY <1>3
<1>5. s = <<>> => {s[i] : i \in 1..Len(s)} = {}
  BY <1>1, <1>2
<1> QED  BY <1>1, <1>4, <1>5

\* An end has nothing to send exactly if it owes none of these.
LEMMA NothingToSend ==
  ASSUME NEW e \in End
  PROVE  Frames(e) = <<>> <=>
           e.acks = <<>> /\ e.media = None /\ \A c \in Range(e.queue) : c.sent
<1>1. Frames(e) = <<>> <=> Range(Frames(e)) = {}
  BY FramesOf, EmptyRange
<1>2. e.acks = <<>> <=> Range(e.acks) = {}
  <2>1. e.acks \in Seq(Chat)
    BY DEF End
  <2> QED  BY <2>1, EmptyRange
<1>3. Range(Frames(e)) = {} <=>
        Range(e.acks) = {} /\ e.media = None /\ \A c \in Range(e.queue) : c.sent
  BY FramesOf
<1> QED  BY <1>1, <1>2, <1>3

\* What sending the first k frames leaves: the same chats, of which some are
\* marked as sent, and of the rest no more than there was; nothing after the
\* last frame.
LEMMA SentOf ==
  ASSUME NEW e \in End, NEW k \in 0..Len(Frames(e)), NEW a, a = AfterSending(e, k)
  PROVE  /\ a \in End
         /\ a = [e EXCEPT !.acks = a.acks, !.media = a.media, !.queue = a.queue]
         /\ Range(a.acks) \subseteq Range(e.acks)
         /\ a.media = e.media \/ a.media = None
         /\ Alike(e.queue, a.queue)
         /\ a.media # e.media => Media(e.media) \in Range(SubSeq(Frames(e), 1, k))
         /\ Media(e.media) \in Range(SubSeq(Frames(e), 1, k)) => a.media = None
         /\ k = Len(Frames(e)) => Frames(a) = <<>>
<1> DEFINE done == Range(SubSeq(Frames(e), 1, k))
<1>1. /\ a = [e EXCEPT !.acks = a.acks, !.media = a.media, !.queue = a.queue]
      /\ a.acks = Only(e.acks, {m \in Range(e.acks) : Ack(m) \notin done})
      /\ a.media = IF Media(e.media) \in done THEN None ELSE e.media
      /\ a.queue = [i \in DOMAIN e.queue |-> IF Message(e.queue[i].id) \in done
                                     THEN [e.queue[i] EXCEPT !.sent = TRUE, !.ever = TRUE] ELSE e.queue[i]]
  BY DEF AfterSending, End
<1> HIDE DEF done
<1>2. e.acks \in Seq(Chat) /\ e.queue \in Seq(Entry) /\ e.media \in Nat \cup {None}
  BY DEF End
<1>3. PICK T : T = {m \in Range(e.acks) : Ack(m) \notin done}
  OBVIOUS
<1>4. a.acks \in Seq(Chat) /\ Range(a.acks) = Range(e.acks) \cap T
  <2>1. PICK s \in Seq(Chat) : s = e.acks
    BY <1>2
  <2>2. Only(s, T) \in Seq(Chat) /\ Range(Only(s, T)) = Range(s) \cap T
    BY OnlyPlaces
  <2> QED  BY Zenon, <1>1, <1>3, <2>1, <2>2
<1>5. PICK q \in Seq(Entry) : q = e.queue
  BY <1>2
<1>6. a.queue = [i \in 1..Len(q) |-> IF Message(q[i].id) \in done
                                     THEN [q[i] EXCEPT !.sent = TRUE, !.ever = TRUE] ELSE q[i]]
  <2>1. DOMAIN e.queue = 1..Len(q)
    BY <1>5
  <2> QED  BY <1>1, <1>5, <2>1, Zenon
<1>7. \A d \in Entry : /\ [d EXCEPT !.sent = TRUE, !.ever = TRUE] \in Entry
                       /\ [d EXCEPT !.sent = TRUE, !.ever = TRUE].id = d.id
                       /\ [d EXCEPT !.sent = TRUE, !.ever = TRUE].sent
  BY DEF Entry
<1>8. \A i \in 1..Len(q) : a.queue[i] \in Entry /\ a.queue[i].id = q[i].id
  <2> SUFFICES ASSUME NEW i \in 1..Len(q) PROVE a.queue[i] \in Entry /\ a.queue[i].id = q[i].id
    OBVIOUS
  <2>1. PICK d \in Entry : d = q[i]
    OBVIOUS
  <2>2. a.queue[i] = IF Message(d.id) \in done
                     THEN [d EXCEPT !.sent = TRUE, !.ever = TRUE] ELSE d
    BY Zenon, <1>6, <2>1
  <2> QED  BY Zenon, <2>1, <2>2, <1>7
<1>9. a.queue \in Seq(Entry) /\ Len(a.queue) = Len(q)
  <2>1. Len(q) \in Nat
    OBVIOUS
  <2>2. PICK r : r = a.queue
    OBVIOUS
  <2>3. DOMAIN r = 1..Len(q) /\ r = [i \in 1..Len(q) |-> r[i]]
    BY Zenon, <1>6, <2>2
  <2>4. r \in Seq(Entry) /\ Len(r) = Len(q)
    BY <2>1, <2>2, <2>3, <1>8
  <2> QED  BY <2>2, <2>4
<1>10. a.media \in Nat \cup {None}
  BY Zenon, <1>1, <1>2
<1>11. a \in End
  BY Zenon, <1>1, <1>4, <1>9, <1>10 DEF End
<1>12. Alike(e.queue, a.queue)
  BY <1>5, <1>8, <1>9 DEF Alike
<1>13. ASSUME k = Len(Frames(e)) PROVE Frames(a) = <<>>
  <2>1. done = Range(Frames(e))
    <3>1. PICK s \in Seq(Frame) : s = Frames(e)
      BY FramesOf
    <3>2. SubSeq(s, 1, Len(s)) = s
      BY SubSeqFull
    <3> QED  BY <1>13, <3>1, <3>2 DEF done
  <2>2. \A m \in Range(e.acks) : Ack(m) \in done
    BY <2>1, FramesOf
  <2>3. a.acks = <<>>
    BY <2>2, <1>3, <1>4, EmptyRange
  <2>4. a.media = None
    BY Zenon, <2>1, <1>1, FramesOf
  <2>5. \A i \in 1..Len(q) : a.queue[i].sent
    <3> SUFFICES ASSUME NEW i \in 1..Len(q) PROVE a.queue[i].sent
      OBVIOUS
    <3>1. PICK d \in Entry : d = q[i]
      OBVIOUS
    <3>2. d \in Range(e.queue)
      BY <1>5, <3>1 DEF Range
    <3>3. ~d.sent => Message(d.id) \in done
      BY <3>2, <2>1, FramesOf
    <3>4. a.queue[i] = IF Message(d.id) \in done
                       THEN [d EXCEPT !.sent = TRUE, !.ever = TRUE] ELSE d
      BY Zenon, <1>6, <3>1
    <3> QED  BY Zenon, <3>3, <3>4, <1>7
  <2>6. \A c \in Range(a.queue) : c.sent
    <3>1. Range(a.queue) = {a.queue[i] : i \in 1..Len(a.queue)}
      BY <1>9, RangeEquality
    <3> QED  BY <3>1, <2>5, <1>9
  <2> QED  BY <1>11, <2>3, <2>4, <2>6, NothingToSend
<1> QED  BY Zenon, <1>1, <1>4, <1>11, <1>12, <1>13 DEF done

\* The i-th frame passes when b are in the buffer, and A of them may use R more.
Fits(i, b, A, M, R) == b + i <= M + (IF i <= A THEN R ELSE 0)

\* A number of frames up to a limit passes, and whoever has more to send has
\* filled the buffer.
LEMMA FittingOf ==
  ASSUME NEW b \in Nat, NEW n \in Nat, NEW A \in Nat, NEW M \in Nat, NEW R \in Nat
  PROVE  \E k \in 0..n :
           (\A i \in 1..k : Fits(i, b, A, M, R)) /\ (k < n => ~Fits(k + 1, b, A, M, R))
<1> USE DEF Fits
<1> DEFINE P(k) == (\A i \in 1..k : Fits(i, b, A, M, R)) /\ (k < n => ~Fits(k + 1, b, A, M, R))
<1>1. PICK c \in Int : c = M + R - b
  OBVIOUS
<1>2. PICK d \in Int : d = M - b
  OBVIOUS
<1>3. CASE c <= 0
  <2>1. P(0)
    BY <1>1, <1>3
  <2> QED  BY <2>1
<1>4. CASE c > 0 /\ c < A /\ c <= n
  <2>1. c \in 0..n /\ P(c)
    BY <1>1, <1>4
  <2> QED  BY <2>1
<1>5. CASE c > 0 /\ c < A /\ c > n
  <2>1. n \in 0..n /\ P(n)
    BY <1>1, <1>5
  <2> QED  BY <2>1
<1>6. CASE c >= A /\ d <= A /\ A <= n
  <2>1. A \in 0..n /\ P(A)
    BY <1>1, <1>2, <1>6
  <2> QED  BY <2>1
<1>7. CASE c >= A /\ d <= A /\ A > n
  <2>1. n \in 0..n /\ P(n)
    BY <1>1, <1>7
  <2> QED  BY <2>1
<1>8. CASE c >= A /\ d > A /\ d <= n
  <2>1. d \in 0..n /\ P(d)
    BY <1>1, <1>2, <1>8
  <2> QED  BY <2>1
<1>9. CASE c >= A /\ d > A /\ d > n
  <2>1. n \in 0..n /\ P(n)
    BY <1>1, <1>2, <1>9
  <2> QED  BY <2>1
<1> QED  BY <1>3, <1>4, <1>5, <1>6, <1>7, <1>8, <1>9

LEMMA PassingOf ==
  ASSUME NEW e \in End, NEW b \in Nat
  PROVE  /\ Passing(e, b) \in 0..Len(Frames(e))
         /\ Passing(e, b) < Len(Frames(e)) => b + Passing(e, b) >= MaxBuffered
<1> DEFINE fits(i) == b + i <= MaxBuffered + (IF i <= Len(e.acks) THEN Reserve ELSE 0)
           P(k) == (\A i \in 1..k : fits(i)) /\ (k < Len(Frames(e)) => ~fits(k + 1))
<1>1. Len(Frames(e)) \in Nat /\ Len(e.acks) \in Nat /\ MaxBuffered \in Nat /\ Reserve \in Nat
  BY FramesOf, ChatAssumption DEF End
<1>2. \E k \in 0..Len(Frames(e)) : P(k)
  <2>1. PICK n \in Nat : n = Len(Frames(e))
    BY <1>1
  <2>2. PICK A \in Nat : A = Len(e.acks)
    BY <1>1
  <2>3. PICK M \in Nat : M = MaxBuffered
    BY <1>1
  <2>4. PICK R \in Nat : R = Reserve
    BY <1>1
  <2>5. \E k \in 0..n :
           (\A i \in 1..k : Fits(i, b, A, M, R)) /\ (k < n => ~Fits(k + 1, b, A, M, R))
    BY FittingOf
  <2> QED  BY <2>1, <2>2, <2>3, <2>4, <2>5, Zenon DEF Fits
<1>3. Passing(e, b) = CHOOSE k \in 0..Len(Frames(e)) : P(k)
  BY DEF Passing
<1>4. PICK k : k = Passing(e, b)
  OBVIOUS
<1>5. k \in 0..Len(Frames(e)) /\ P(k)
  BY <1>2, <1>3, <1>4
<1>6. k \in Nat /\ (k < Len(Frames(e)) => ~fits(k + 1))
  BY <1>1, <1>5
<1>7. k < Len(Frames(e)) => b + k >= MaxBuffered
  <2>1. PICK m \in Nat : m = MaxBuffered
    BY <1>1
  <2>2. PICK z \in Nat : z = IF k + 1 <= Len(e.acks) THEN Reserve ELSE 0
    BY <1>1
  <2>3. k < Len(Frames(e)) => ~(b + (k + 1) <= m + z)
    BY <1>6, <2>1, <2>2
  <2>4. ~(b + (k + 1) <= m + z) => b + k >= m
    BY <1>6
  <2> QED  BY <2>1, <2>3, <2>4
<1> QED  BY <1>4, <1>5, <1>7

-----------------------------------------------------------------------------
(* What happens to one end                                                 *)

\* All that an operation on the channel of an end leaves alone; no channel
\* comes to be due
Same(e, f) ==
  /\ f.here = e.here /\ f.epoch = e.epoch /\ f.from = e.from /\ f.got = e.got
  /\ f.full = e.full
  /\ f.due => e.due

LEMMA AlikeItself == \A q : Alike(q, q)
  BY DEF Alike

LEMMA FreshOf ==
  ASSUME NEW n \in Nat, NEW s \in Nat \cup {None}, NEW f, f = Fresh(n, s)
  PROVE  /\ f \in End /\ f.here /\ f.epoch = n /\ f.from = s /\ f.on = 0 /\ ~f.open /\ ~f.due
         /\ ~f.recovering /\ f.grace = "none" /\ ~f.full /\ f.queue = <<>> /\ f.acks = <<>>
         /\ f.got = <<>>
  BY DEF Fresh, End

LEMMA GoneOf ==
  ASSUME NEW e \in End, NEW f, f = Gone(e)
  PROVE  /\ f \in End /\ ~f.here /\ f.epoch = e.epoch /\ f.from = e.from /\ f.on = 0 /\ ~f.open
         /\ ~f.due /\ ~f.recovering /\ ~f.full /\ f.queue = <<>> /\ f.acks = <<>> /\ f.got = <<>>
<1>1. PICK g : g = Fresh(e.epoch, e.from)
  OBVIOUS
<1>2. e.epoch \in Nat /\ e.from \in Nat \cup {None}
  BY DEF End
<1>3. /\ g \in End /\ g.epoch = e.epoch /\ g.from = e.from /\ g.on = 0 /\ ~g.open
      /\ ~g.due /\ ~g.recovering /\ ~g.full /\ g.queue = <<>> /\ g.acks = <<>> /\ g.got = <<>>
  <2>1. PICK n \in Nat : n = e.epoch
    BY <1>2
  <2>2. PICK s \in Nat \cup {None} : s = e.from
    BY <1>2
  <2>3. g = Fresh(n, s)
    BY <1>1, <2>1, <2>2
  <2>4. /\ g \in End /\ g.here /\ g.epoch = n /\ g.from = s /\ g.on = 0 /\ ~g.open /\ ~g.due
        /\ ~g.recovering /\ g.grace = "none" /\ ~g.full /\ g.queue = <<>> /\ g.acks = <<>>
        /\ g.got = <<>>
    BY <2>3, FreshOf
  <2> QED  BY <2>1, <2>2, <2>4
<1>4. f = [g EXCEPT !.here = FALSE, !.timed = FALSE]
  BY <1>1 DEF Gone
<1> QED  BY <1>3, <1>4 DEF End

LEMMA AttachOf ==
  ASSUME NEW e \in End, NEW g \in Nat, NEW f, f = Attach(e, g)
  PROVE  /\ f \in End /\ Same(e, f) /\ f.on = g /\ ~f.open /\ f.grace = "none"
         /\ f.recovering = e.recovering /\ f.timed = e.timed /\ f.due = e.due
         /\ f.acks = e.acks /\ f.media = e.media
         /\ Alike(e.queue, f.queue)
<1>1. PICK q \in Seq(Entry) : q = e.queue
  BY DEF End
<1>2. DOMAIN q = 1..Len(q) /\ Len(q) \in Nat
  OBVIOUS
<1>3. \A d \in Entry : [d EXCEPT !.sent = FALSE] \in Entry /\ [d EXCEPT !.sent = FALSE].id = d.id
  BY DEF Entry
<1>4. PICK r : r = [i \in DOMAIN q |-> [q[i] EXCEPT !.sent = FALSE]]
  OBVIOUS
<1>5. \A i \in 1..Len(q) : r[i] \in Entry /\ r[i].id = q[i].id
  <2> SUFFICES ASSUME NEW i \in 1..Len(q) PROVE r[i] \in Entry /\ r[i].id = q[i].id
    OBVIOUS
  <2>1. PICK d \in Entry : d = q[i]
    OBVIOUS
  <2>2. r[i] = [d EXCEPT !.sent = FALSE]
    BY <1>2, <1>4, <2>1
  <2> QED  BY <1>3, <2>1, <2>2
<1>6. r \in Seq(Entry) /\ Len(r) = Len(q)
  <2>1. DOMAIN r = 1..Len(q) /\ r = [i \in 1..Len(q) |-> r[i]]
    BY <1>2, <1>4
  <2> QED  BY <1>2, <1>5, <2>1
<1>7. f = [e EXCEPT !.on = g, !.open = FALSE, !.grace = "none", !.low = FALSE, !.queue = r]
  <2>1. DOMAIN e.queue = DOMAIN q
    BY <1>1
  <2>2. f = [e EXCEPT !.on = g, !.open = FALSE, !.grace = "none", !.low = FALSE,
               !.queue = [i \in DOMAIN e.queue |-> [e.queue[i] EXCEPT !.sent = FALSE]]]
    BY DEF Attach, End
  <2> QED  BY <2>2, <1>1, <1>4, Zenon
<1>8. /\ f \in End /\ Same(e, f) /\ f.on = g /\ ~f.open /\ f.grace = "none"
      /\ f.recovering = e.recovering /\ f.timed = e.timed /\ f.due = e.due
      /\ f.acks = e.acks /\ f.media = e.media /\ f.queue = r
  <2>1. f \in End
    BY <1>6, <1>7 DEF End
  <2>2. /\ f.here = e.here /\ f.epoch = e.epoch /\ f.from = e.from /\ f.got = e.got /\ f.full = e.full
        /\ f.on = g /\ ~f.open /\ f.grace = "none"
    BY <1>7 DEF End
  <2>3. /\ f.recovering = e.recovering /\ f.timed = e.timed /\ f.due = e.due
        /\ f.acks = e.acks /\ f.media = e.media /\ f.queue = r
    BY <1>7 DEF End
  <2> QED  BY <2>1, <2>2, <2>3 DEF Same
<1> QED  BY <1>1, <1>5, <1>6, <1>8 DEF Alike

LEMMA DetachOf ==
  ASSUME NEW e \in End, NEW f, f = Detach(e)
  PROVE  /\ f \in End /\ Same(e, f) /\ f.on = 0 /\ ~f.open /\ f.grace = "none"
         /\ f.recovering = e.recovering /\ f.timed = e.timed /\ f.due = e.due
         /\ f.acks = e.acks /\ f.media = e.media /\ f.queue = e.queue
  BY DEF Detach, End, Same

LEMMA BeginOf ==
  ASSUME NEW e \in End, NEW f, f = Begin(e)
  PROVE  /\ f \in End /\ Same(e, f) /\ f.on = e.on /\ f.open = e.open /\ f.grace = e.grace
         /\ f.recovering /\ f.timed /\ f.low = e.low /\ f.due = e.due
         /\ f.acks = e.acks /\ f.media = e.media /\ f.queue = e.queue
  BY DEF Begin, End, Same

LEMMA ReplacedOf ==
  ASSUME NEW e \in End, NEW f, f = Replaced(e)
  PROVE  /\ f \in End /\ Same(e, f) /\ f.on = 0 /\ ~f.open /\ f.grace = "none"
         /\ f.recovering /\ f.timed /\ ~f.due
         /\ f.acks = e.acks /\ f.media = e.media /\ f.queue = e.queue
  BY DEF Replaced, Begin, Detach, End, Same

-----------------------------------------------------------------------------
(* Flushing                                                                *)

AttachedTo(e, c) == e.on # 0 /\ e.on = c.gen

\* The ids of the messages in a queue
Ids(q) == {q[i].id : i \in 1..Len(q)}

\* What v has and w has not is an acknowledgement of A, a message of Q, or media.
Brings(w, v, A, Q) ==
  \A f \in Range(v) :
    \/ f \in Range(w)
    \/ /\ f.type = "chat.ack" => f.id \in A
       /\ f.type = "chat.message" => f.id \in Q

\* Once all of w is read, a peer that shows r will show u.
Says(w, r, u) ==
  /\ \A i \in 1..Len(w) :
       w[i].type = "participant.media" /\ (\A j \in (i + 1)..Len(w) : w[j].type # "participant.media")
         => w[i].id = u
  /\ (\A i \in 1..Len(w) : w[i].type # "participant.media") => r = u

\* The media u are waiting, or in the wire, or shown.
Tells(waiting, w, r, u) == waiting = u \/ (waiting = None /\ Says(w, r, u))

\* Flushing makes f of the end e and v of its wire w; with t a send has thrown.
FlushRel(e, f, w, v, t, c) ==
  /\ Same(e, f) /\ Range(f.acks) \subseteq Range(e.acks) /\ Alike(e.queue, f.queue)
  /\ ~t => /\ f.on = e.on /\ f.open = e.open /\ f.grace = e.grace
           /\ f.recovering = e.recovering /\ f.timed = e.timed /\ f.quiet = e.quiet
  /\ t => e.open /\ ~e.recovering /\ f.on = 0 /\ ~f.open /\ f.recovering /\ f.timed
  /\ v # w => e.open /\ e.on = c.gen
  /\ Brings(w, v, Range(e.acks), Ids(e.queue))
  /\ ~t /\ e.here /\ e.open /\ ~e.recovering /\ e.on = c.gen =>
       /\ Frames(f) = <<>> \/ Len(v) > Low
       /\ \A r : \A u \in Nat : Tells(e.media, w, r, u) => Tells(f.media, v, r, u)

\* Frames that come behind say what the last of them with media says.
LEMMA SaysMore ==
  ASSUME NEW w \in Seq(Frame), NEW t \in Seq(Frame), NEW r, NEW u
  PROVE  /\ (Says(w, r, u) /\ \A i \in 1..Len(t) : t[i].type # "participant.media")
              => Says(w \o t, r, u)
         /\ ((\A i \in 1..Len(t) : t[i].type = "participant.media" => t[i].id = u)
              /\ \E i \in 1..Len(t) : t[i].type = "participant.media")
              => Says(w \o t, r, u)
<1>1. PICK m \in Nat : m = Len(w)
  BY SMT
<1>2. PICK n \in Nat : n = Len(t)
  BY SMT
<1>3. PICK v : v = w \o t
  OBVIOUS
<1>4. /\ Len(v) = m + n
      /\ \A i \in 1..m : v[i] = w[i]
      /\ \A i \in 1..n : v[m + i] = t[i]
  BY <1>1, <1>2, <1>3
<1>5. \A i \in 1..(m + n) : i \in 1..m \/ (i - m \in 1..n /\ v[i] = t[i - m])
  <2> SUFFICES ASSUME NEW i \in 1..(m + n), i \notin 1..m
               PROVE i - m \in 1..n /\ v[i] = t[i - m]
    OBVIOUS
  <2>1. i - m \in 1..n /\ m + (i - m) = i
    OBVIOUS
  <2>2. v[m + (i - m)] = t[i - m]
    BY <2>1, <1>4
  <2> QED  BY <2>1, <2>2
<1>6. ASSUME Says(w, r, u), \A i \in 1..n : t[i].type # "participant.media"
      PROVE Says(v, r, u)
  <2>1. ASSUME NEW i \in 1..(m + n), v[i].type = "participant.media",
               \A j \in (i + 1)..(m + n) : v[j].type # "participant.media"
        PROVE v[i].id = u
    <3>1. i \in 1..m /\ w[i] = v[i]
      BY <2>1, <1>4, <1>5, <1>6
    <3>2. \A j \in (i + 1)..m : w[j].type # "participant.media"
      <4> SUFFICES ASSUME NEW j \in (i + 1)..m PROVE w[j].type # "participant.media"
        OBVIOUS
      <4>1. j \in 1..m /\ j \in (i + 1)..(m + n)
        BY <3>1
      <4> QED  BY <4>1, <1>4, <2>1
    <3> QED  BY <3>1, <3>2, <2>1, <1>1, <1>6 DEF Says
  <2>2. ASSUME \A i \in 1..(m + n) : v[i].type # "participant.media" PROVE r = u
    <3>1. \A i \in 1..m : i \in 1..(m + n)
      OBVIOUS
    <3>2. \A i \in 1..m : w[i].type # "participant.media"
      BY <3>1, <2>2, <1>4
    <3> QED  BY <3>2, <1>1, <1>6 DEF Says
  <2> QED  BY <2>1, <2>2, <1>4 DEF Says
<1>7. ASSUME \A i \in 1..n : t[i].type = "participant.media" => t[i].id = u,
             \E i \in 1..n : t[i].type = "participant.media"
      PROVE Says(v, r, u)
  <2>1. PICK k \in 1..n : t[k].type = "participant.media"
    BY <1>7
  <2>2. m + k \in 1..(m + n) /\ v[m + k].type = "participant.media"
    BY <2>1, <1>4
  <2>3. ASSUME NEW i \in 1..(m + n), v[i].type = "participant.media",
               \A j \in (i + 1)..(m + n) : v[j].type # "participant.media"
        PROVE v[i].id = u
    <3>1. i \notin 1..m
      <4>1. i \in 1..m => m + k \in (i + 1)..(m + n)
        OBVIOUS
      <4> QED  BY <4>1, <2>2, <2>3
    <3> QED  BY <3>1, <2>3, <1>5, <1>7
  <2> QED  BY <2>2, <2>3, <1>4 DEF Says
<1> QED  BY <1>2, <1>3, <1>6, <1>7

\* Messages of queues that are alike are the same.
LEMMA AlikeIds ==
  ASSUME NEW q \in Seq(Entry), NEW r \in Seq(Entry), Alike(q, r)
  PROVE  /\ Ids(r) = Ids(q) /\ Len(r) = Len(q)
         /\ Ids(q) = {c.id : c \in Range(q)} /\ Ids(q) \subseteq Chat
         /\ q = <<>> => r = <<>>
<1>1. Len(r) = Len(q) /\ \A i \in 1..Len(q) : q[i].id = r[i].id
  BY DEF Alike
<1>2. Range(q) = {q[i] : i \in 1..Len(q)}
  BY RangeEquality
<1>3. \A i \in 1..Len(q) : q[i].id \in Chat
  <2>1. \A i \in 1..Len(q) : q[i] \in Entry
    OBVIOUS
  <2> QED  BY <2>1 DEF Entry
<1>4. q = <<>> => r = <<>>
  <2>1. q = <<>> => Len(q) = 0
    OBVIOUS
  <2>2. Len(r) = 0 => r = <<>>
    OBVIOUS
  <2> QED  BY <1>1, <2>1, <2>2
<1> QED  BY <1>1, <1>2, <1>3, <1>4 DEF Ids

\* The first k frames of an end, put behind a wire
LEMMA SendingOf ==
  ASSUME NEW e \in End, NEW w \in Seq(Frame), NEW k \in 0..Len(Frames(e)),
         NEW a, a = AfterSending(e, k), NEW v, v = w \o SubSeq(Frames(e), 1, k)
  PROVE  /\ v \in Seq(Frame) /\ Len(v) = Len(w) + k
         /\ Brings(w, v, Range(e.acks), Ids(e.queue))
         /\ \A r : \A u \in Nat : Tells(e.media, w, r, u) => Tells(a.media, v, r, u)
<1>1. PICK t : t = SubSeq(Frames(e), 1, k)
  OBVIOUS
<1>2. /\ t \in Seq(Frame) /\ Len(t) = k /\ Len(t) \in Nat
      /\ \A i \in 1..Len(t) : t[i] \in Range(Frames(e))
      /\ Range(t) \subseteq Range(Frames(e)) /\ Range(t) = {t[i] : i \in 1..Len(t)}
  <2>1. PICK s \in Seq(Frame) : s = Frames(e)
    BY FramesOf
  <2>2. t = SubSeq(s, 1, k) /\ k \in 0..Len(s)
    BY <1>1, <2>1
  <2>3. t \in Seq(Frame) /\ Len(t) = k /\ Range(t) \subseteq Range(s)
    BY <2>2, FirstOf
  <2>4. Range(t) = {t[i] : i \in 1..Len(t)}
    BY <2>3, RangeEquality
  <2>5. Len(t) \in Nat
    BY <2>3
  <2> QED  BY <2>1, <2>3, <2>4, <2>5
<1>3. v = w \o t
  BY <1>1
<1>4. v \in Seq(Frame) /\ Len(v) = Len(w) + k
  <2>1. PICK s \in Seq(Frame) : s = t
    BY <1>2
  <2>2. w \o s \in Seq(Frame) /\ Len(w \o s) = Len(w) + Len(s)
    OBVIOUS
  <2>3. Len(s) = k
    BY <2>1, <1>2
  <2> QED  BY <1>3, <2>1, <2>2, <2>3
<1>5. Range(v) = Range(w) \cup Range(t)
  BY ZenonT(40), <1>2, <1>3, RangeConcatenation
<1>6. e.acks \in Seq(Chat) /\ e.queue \in Seq(Entry) /\ e.media \in Nat \cup {None}
  BY DEF End
<1>7. Ids(e.queue) = {c.id : c \in Range(e.queue)}
  <2>1. PICK q \in Seq(Entry) : q = e.queue
    BY <1>6
  <2> QED  BY <2>1, AlikeIds, AlikeItself
<1>8. \A f \in Range(t) :
        /\ f.type = "chat.ack" => f.id \in Range(e.acks)
        /\ f.type = "chat.message" => f.id \in Ids(e.queue)
        /\ f.type = "participant.media" => e.media # None /\ f.id = e.media
  <2> SUFFICES ASSUME NEW f \in Range(t)
               PROVE  /\ f.type = "chat.ack" => f.id \in Range(e.acks)
                      /\ f.type = "chat.message" => f.id \in Ids(e.queue)
                      /\ f.type = "participant.media" => e.media # None /\ f.id = e.media
    OBVIOUS
  <2>1. \/ \E m \in Range(e.acks) : f = Ack(m)
        \/ e.media # None /\ f = Media(e.media)
        \/ \E c \in Range(e.queue) : ~c.sent /\ f = Message(c.id)
    BY <1>2, FramesOf
  <2> QED  BY <2>1, <1>7, FramesMade
<1>9. Brings(w, v, Range(e.acks), Ids(e.queue))
  BY <1>5, <1>8 DEF Brings
<1>10. ASSUME NEW r, NEW u \in Nat, Tells(e.media, w, r, u) PROVE Tells(a.media, v, r, u)
  <2>1. /\ a.media = e.media \/ a.media = None
        /\ a.media # e.media => Media(e.media) \in Range(t)
    BY Zenon, <1>1, SentOf
  <2>2. \A i \in 1..Len(t) : t[i] \in Range(t)
    BY <1>2
  <2>3. CASE e.media = None
    <3>1. Says(w, r, u)
      BY <2>3, <1>10, ChatAssumption DEF Tells
    <3>2. \A i \in 1..Len(t) : t[i].type # "participant.media"
      BY <2>2, <2>3, <1>8
    <3>3. Says(v, r, u)
      BY <3>1, <3>2, <1>2, <1>3, SaysMore
    <3> QED  BY <3>3, <2>1, <2>3 DEF Tells
  <2>4. CASE e.media # None /\ a.media = e.media
    BY <2>4, <1>10 DEF Tells
  <2>5. CASE e.media # None /\ a.media = None
    <3>1. e.media = u
      BY <2>5, <1>10 DEF Tells
    <3>2. \A i \in 1..Len(t) : t[i].type = "participant.media" => t[i].id = u
      BY <2>2, <3>1, <1>8
    <3>3. \E i \in 1..Len(t) : t[i].type = "participant.media"
      <4>1. Media(e.media) \in Range(t)
        BY <2>1, <2>5
      <4>2. PICK i \in 1..Len(t) : t[i] = Media(e.media)
        BY <4>1, <1>2
      <4> QED  BY <4>2, FramesMade
    <3>4. Says(v, r, u)
      BY <3>2, <3>3, <1>2, <1>3, SaysMore
    <3> QED  BY <3>4, <2>5 DEF Tells
  <2> QED  BY <2>1, <2>3, <2>4, <2>5
<1> QED  BY <1>4, <1>9, <1>10

LEMMA FlushedOf ==
  ASSUME NEW x \in Place, NEW e \in End, NEW w \in Seq(Frame), NEW c, c = chan[x[1]],
         NEW o \in Flushed(x, e, w)
  PROVE  /\ o.end \in End /\ o.wire \in Seq(Frame) /\ o.threw \in BOOLEAN
         /\ FlushRel(e, o.end, w, o.wire, o.threw, c)
         /\ o.threw => CanSpend(<<x[1], "throw">>)
<1>1. e.queue \in Seq(Entry) /\ e.open \in BOOLEAN /\ e.recovering \in BOOLEAN
  BY DEF End
<1>2. PICK n : n = Passing(e, Len(w))
  OBVIOUS
<1>3. /\ Len(w) \in Nat /\ n \in 0..Len(Frames(e)) /\ Len(Frames(e)) \in Nat
      /\ n < Len(Frames(e)) => Len(w) + n >= MaxBuffered
  <2>1. PICK b \in Nat : b = Len(w)
    BY SMT
  <2> QED  BY <2>1, <1>2, PassingOf, FramesOf
<1>4. CASE ~e.here \/ e.recovering \/ ~e.open
  <2>1. o = [end |-> e, wire |-> w, threw |-> FALSE]
    BY <1>4 DEF Flushed
  <2>2. o.end = e /\ o.wire = w /\ o.threw = FALSE
    BY <2>1
  <2>3. Brings(w, w, Range(e.acks), Ids(e.queue))
    BY DEF Brings
  <2>4. FlushRel(e, e, w, w, FALSE, c)
    BY <1>4, <2>3, AlikeItself DEF FlushRel, Same
  <2> QED  BY <2>2, <2>4
<1>5. CASE ~(~e.here \/ e.recovering \/ ~e.open)
  <2>1. \/ o = [end |-> AfterSending(e, n), wire |-> Queued(x, e, w, n), threw |-> FALSE]
        \/ \E k \in {i \in 0..(n - 1) : CanSpend(<<x[1], "throw">>)} :
             o = [end |-> Begin(Detach(AfterSending(e, k))), wire |-> Queued(x, e, w, k), threw |-> TRUE]
    BY <1>2, <1>5 DEF Flushed
  <2>2. ASSUME NEW k \in 0..Len(Frames(e)), NEW a, a = AfterSending(e, k),
               NEW v, v = Queued(x, e, w, k)
        PROVE  /\ a \in End /\ v \in Seq(Frame) /\ Same(e, a)
               /\ Range(a.acks) \subseteq Range(e.acks) /\ Alike(e.queue, a.queue)
               /\ a.on = e.on /\ a.open = e.open /\ a.grace = e.grace
               /\ a.recovering = e.recovering /\ a.timed = e.timed /\ a.quiet = e.quiet
               /\ k = Len(Frames(e)) => Frames(a) = <<>>
               /\ v # w => e.on = c.gen
               /\ Brings(w, v, Range(e.acks), Ids(e.queue))
               /\ e.on = c.gen => Len(v) = Len(w) + k
               /\ e.on = c.gen => \A r : \A u \in Nat : Tells(e.media, w, r, u) => Tells(a.media, v, r, u)
    <3>1. /\ a \in End
          /\ a = [e EXCEPT !.acks = a.acks, !.media = a.media, !.queue = a.queue]
          /\ Range(a.acks) \subseteq Range(e.acks) /\ Alike(e.queue, a.queue)
          /\ k = Len(Frames(e)) => Frames(a) = <<>>
      BY Zenon, <2>2, SentOf
    <3>2. /\ Same(e, a)
          /\ a.on = e.on /\ a.open = e.open /\ a.grace = e.grace
          /\ a.recovering = e.recovering /\ a.timed = e.timed /\ a.quiet = e.quiet
      BY <3>1 DEF Same, End
    <3>3. CASE e.on = c.gen
      <4>1. v = w \o SubSeq(Frames(e), 1, k)
        BY <2>2, <3>3 DEF Queued
      <4>2. /\ v \in Seq(Frame) /\ Len(v) = Len(w) + k
            /\ Brings(w, v, Range(e.acks), Ids(e.queue))
            /\ \A r : \A u \in Nat : Tells(e.media, w, r, u) => Tells(a.media, v, r, u)
        BY ZenonT(40), <2>2, <4>1, SendingOf
      <4> QED  BY <3>1, <3>2, <3>3, <4>2
    <3>4. CASE e.on # c.gen
      <4>1. v = w
        BY <2>2, <3>4 DEF Queued
      <4>2. Brings(w, v, Range(e.acks), Ids(e.queue))
        BY <4>1 DEF Brings
      <4> QED  BY <3>1, <3>2, <3>4, <4>1, <4>2
    <3> QED  BY <3>3, <3>4
  <2>3. CASE o = [end |-> AfterSending(e, n), wire |-> Queued(x, e, w, n), threw |-> FALSE]
    <3>1. PICK a : a = AfterSending(e, n)
      OBVIOUS
    <3>2. PICK v : v = Queued(x, e, w, n)
      OBVIOUS
    <3>3. o.end = a /\ o.wire = v /\ o.threw = FALSE
      BY <2>3, <3>1, <3>2
    <3>4. n \in 0..Len(Frames(e))
      BY <1>3
    <3>5. /\ a \in End /\ v \in Seq(Frame) /\ Same(e, a)
          /\ Range(a.acks) \subseteq Range(e.acks) /\ Alike(e.queue, a.queue)
          /\ a.on = e.on /\ a.open = e.open /\ a.grace = e.grace
          /\ a.recovering = e.recovering /\ a.timed = e.timed /\ a.quiet = e.quiet
          /\ n = Len(Frames(e)) => Frames(a) = <<>>
          /\ v # w => e.on = c.gen
          /\ Brings(w, v, Range(e.acks), Ids(e.queue))
          /\ e.on = c.gen => Len(v) = Len(w) + n
          /\ e.on = c.gen => \A r : \A u \in Nat : Tells(e.media, w, r, u) => Tells(a.media, v, r, u)
      BY <3>1, <3>2, <3>4, <2>2
    <3>6. e.on = c.gen => Frames(a) = <<>> \/ Len(v) > Low
      <4>1. Low < MaxBuffered /\ Low \in Int /\ MaxBuffered \in Int
        BY ChatAssumption
      <4>2. n = Len(Frames(e)) \/ n < Len(Frames(e))
        BY <1>3
      <4>3. n < Len(Frames(e)) /\ e.on = c.gen => Len(v) >= MaxBuffered /\ Len(v) \in Nat
        BY <1>3, <3>5
      <4> QED  BY <4>1, <4>2, <4>3, <3>5
    <3>7. FlushRel(e, a, w, v, FALSE, c)
      BY <1>5, <3>5, <3>6, Zenon DEF FlushRel
    <3> QED  BY <3>3, <3>5, <3>7
  <2>4. ASSUME NEW k \in {i \in 0..(n - 1) : CanSpend(<<x[1], "throw">>)},
               o = [end |-> Begin(Detach(AfterSending(e, k))), wire |-> Queued(x, e, w, k), threw |-> TRUE]
        PROVE  /\ o.end \in End /\ o.wire \in Seq(Frame) /\ o.threw \in BOOLEAN
               /\ FlushRel(e, o.end, w, o.wire, o.threw, c)
               /\ CanSpend(<<x[1], "throw">>)
    <3>1. PICK a : a = AfterSending(e, k)
      OBVIOUS
    <3>2. PICK v : v = Queued(x, e, w, k)
      OBVIOUS
    <3>3. k \in 0..Len(Frames(e)) /\ CanSpend(<<x[1], "throw">>)
      BY <1>3, <2>4
    <3>4. /\ a \in End /\ v \in Seq(Frame) /\ Same(e, a)
          /\ Range(a.acks) \subseteq Range(e.acks) /\ Alike(e.queue, a.queue)
          /\ v # w => e.on = c.gen
          /\ Brings(w, v, Range(e.acks), Ids(e.queue))
      BY <3>1, <3>2, <3>3, <2>2
    <3>5. PICK b : b = Detach(a)
      OBVIOUS
    <3>6. /\ b \in End /\ Same(a, b) /\ b.on = 0 /\ ~b.open /\ b.acks = a.acks /\ b.queue = a.queue
      BY <3>4, <3>5, DetachOf
    <3>7. PICK f : f = Begin(b)
      OBVIOUS
    <3>8. /\ f \in End /\ Same(b, f) /\ f.on = b.on /\ f.open = b.open
          /\ f.recovering /\ f.timed /\ f.acks = b.acks /\ f.queue = b.queue
      BY <3>6, <3>7, BeginOf
    <3>9. o.end = f /\ o.wire = v /\ o.threw = TRUE
      BY <2>4, <3>1, <3>2, <3>5, <3>7
    <3>10. Same(e, f) /\ Range(f.acks) \subseteq Range(e.acks) /\ Alike(e.queue, f.queue)
      BY <3>4, <3>6, <3>8 DEF Same
    <3>11. FlushRel(e, f, w, v, TRUE, c)
      BY <1>5, <3>4, <3>6, <3>8, <3>10, Zenon DEF FlushRel
    <3> QED  BY <3>3, <3>4, <3>8, <3>9, <3>11
  <2>5. CASE o.threw
    BY <2>1, <2>3, <2>4
  <2>6. CASE ~o.threw
    BY <2>1, <2>3, <2>4
  <2> QED  BY <2>5, <2>6
<1> QED  BY <1>4, <1>5

-----------------------------------------------------------------------------
(* Steps of a link                                                         *)

ChatTypes ==
  /\ end \in [Place -> End]
  /\ chan \in [Peer -> Channel]
  /\ wire \in [Place -> Seq(Frame)]
  /\ roster \subseteq Peer /\ self \in Nat /\ media \in Nat
  /\ ledger \in [Chat -> [Peer -> State]] /\ kept \subseteq Chat
  /\ history \in Seq(Chat)
  /\ author \in [Chat -> Nat \cup {None}]
  /\ shown \in [Peer -> [Chat -> Nat]]
  /\ seen \in [Peer -> SUBSET ((Nat \cup {None}) \X Chat)]
  /\ remote \in [Peer -> Nat \cup {None}]

NearEnd(p) == <<p, "near">>
FarEnd(p) == <<p, "far">>

\* The types of what a link is made of
LinkTypes ==
  /\ end \in [Place -> End] /\ chan \in [Peer -> Channel] /\ wire \in [Place -> Seq(Frame)]

\* Nothing happens to the link of p.
Untouched(p) ==
  /\ end'[<<p, "near">>] = end[<<p, "near">>] /\ end'[<<p, "far">>] = end[<<p, "far">>]
  /\ wire'[<<p, "near">>] = wire[<<p, "near">>] /\ wire'[<<p, "far">>] = wire[<<p, "far">>]
  /\ chan'[p] = chan[p]

LEMMA PlacesOf ==
  ASSUME NEW x \in Place
  PROVE  /\ x[1] \in Peer /\ Other(x) \in Place /\ Other(x) # x /\ Other(x)[1] = x[1]
         /\ Other(Other(x)) = x
         /\ x[2] = "near" => x = <<x[1], "near">> /\ Other(x) = <<x[1], "far">>
         /\ x[2] = "far" => x = <<x[1], "far">> /\ Other(x) = <<x[1], "near">>
         /\ x[2] \in {"near", "far"}
         /\ \A y \in Place : y = x \/ y = Other(x) \/ y[1] # x[1]
  BY DEF Place, Other

LEMMA BothEnds ==
  ASSUME NEW p \in Peer
  PROVE  /\ <<p, "near">> \in Place /\ <<p, "far">> \in Place
         /\ Other(<<p, "near">>) = <<p, "far">> /\ Other(<<p, "far">>) = <<p, "near">>
         /\ <<p, "near">>[1] = p /\ <<p, "far">>[1] = p
         /\ <<p, "near">>[2] = "near" /\ <<p, "far">>[2] = "far"
  BY DEF Place, Other

LEMMA BecomesOf ==
  ASSUME LinkTypes, NEW x \in Place, NEW out, NEW closes \in BOOLEAN, NEW rest \in Seq(Frame),
         out.end \in End, out.wire \in Seq(Frame), out.threw \in BOOLEAN,
         Becomes(x, out, closes, rest)
  PROVE  /\ LinkTypes'
         /\ end'[x] = out.end /\ wire'[x] = out.wire /\ end'[Other(x)] = end[Other(x)]
         /\ (closes \/ out.threw) => wire'[Other(x)] = <<>>
         /\ ~(closes \/ out.threw) => wire'[Other(x)] = rest /\ chan'[x[1]] = chan[x[1]]
         /\ chan'[x[1]].gen = chan[x[1]].gen
         /\ chan'[x[1]].alive <=> chan[x[1]].alive /\ ~((closes \/ out.threw) /\ end[x].on = chan[x[1]].gen)
         /\ \A q \in Peer \ {x[1]} : Untouched(q)
<1>1. /\ x[1] \in Peer /\ Other(x) \in Place /\ Other(x) # x /\ Other(x)[1] = x[1]
  BY PlacesOf
<1>2. PICK v \in Seq(Frame) : v = IF closes \/ out.threw THEN <<>> ELSE rest
  <2>1. <<>> \in Seq(Frame)
    OBVIOUS
  <2>2. CASE closes \/ out.threw
    BY <2>1, <2>2, Zenon
  <2>3. CASE ~(closes \/ out.threw)
    BY <2>3, Zenon
  <2> QED  BY <2>2, <2>3
<1>3. PICK b \in BOOLEAN : b = ((closes \/ out.threw) /\ end[x].on = chan[x[1]].gen)
  OBVIOUS
<1>4. /\ end' = [end EXCEPT ![x] = out.end]
      /\ wire' = [wire EXCEPT ![x] = out.wire, ![Other(x)] = v]
      /\ chan' = [chan EXCEPT ![x[1]] = [chan[x[1]] EXCEPT !.alive = @ /\ ~b]]
  <2>1. /\ end' = [end EXCEPT ![x] = out.end]
        /\ wire' = [wire EXCEPT ![x] = out.wire, ![Other(x)] = v]
    BY <1>2 DEF Becomes
  <2>2. chan' = [chan EXCEPT ![x[1]] = [chan[x[1]] EXCEPT !.alive = @ /\ ~b]]
    BY <1>1, <1>3 DEF Becomes, LinkTypes
  <2> QED  BY <2>1, <2>2
<1>5. LinkTypes' /\ end'[x] = out.end /\ wire'[x] = out.wire /\ end'[Other(x)] = end[Other(x)]
      /\ wire'[Other(x)] = v
  <2>1. end' \in [Place -> End] /\ wire' \in [Place -> Seq(Frame)]
    BY <1>1, <1>4 DEF LinkTypes
  <2>2. PICK c \in Channel : c = chan[x[1]]
    BY <1>1 DEF LinkTypes
  <2>3. [c EXCEPT !.alive = @ /\ ~b] \in Channel
    BY DEF Channel
  <2>4. chan' \in [Peer -> Channel]
    BY <1>1, <1>4, <2>2, <2>3 DEF LinkTypes
  <2>5. end'[x] = out.end /\ wire'[x] = out.wire /\ end'[Other(x)] = end[Other(x)]
        /\ wire'[Other(x)] = v
    BY <1>1, <1>4 DEF LinkTypes
  <2> QED  BY <2>1, <2>4, <2>5 DEF LinkTypes
<1>6. chan'[x[1]].gen = chan[x[1]].gen /\ (chan'[x[1]].alive <=> chan[x[1]].alive /\ ~b)
      /\ (~b => chan'[x[1]] = chan[x[1]])
  <2>1. PICK c \in Channel : c = chan[x[1]]
    BY <1>1 DEF LinkTypes
  <2>2. chan'[x[1]] = [c EXCEPT !.alive = @ /\ ~b]
    BY <1>1, <1>4, <2>1 DEF LinkTypes
  <2>3. PICK d : d = [c EXCEPT !.alive = @ /\ ~b]
    OBVIOUS
  <2>4. d.gen = c.gen /\ (d.alive <=> c.alive /\ ~b)
    BY <2>3 DEF Channel
  <2>5. ~b => d = c
    BY <2>3 DEF Channel
  <2> QED  BY <2>1, <2>2, <2>3, <2>4, <2>5
<1>7. ASSUME NEW q \in Peer \ {x[1]} PROVE Untouched(q)
  <2>1. <<q, "near">> \in Place \ {x, Other(x)} /\ <<q, "far">> \in Place \ {x, Other(x)}
    BY <1>1 DEF Place
  <2> QED  BY <1>1, <1>4, <2>1 DEF LinkTypes, Untouched
<1> QED  BY <1>2, <1>3, <1>5, <1>6, <1>7

\* Only whether the buffer has drained is different.
LowOnly(g, h) ==
  /\ Same(g, h) /\ h.on = g.on /\ h.open = g.open /\ h.grace = g.grace
  /\ h.recovering = g.recovering /\ h.timed = g.timed /\ h.quiet = g.quiet
  /\ h.queue = g.queue /\ h.acks = g.acks /\ h.media = g.media
  /\ g.low => h.low

\* What an end has to send depends on nothing else.
LEMMA FramesSame ==
  ASSUME NEW g, NEW h, h.acks = g.acks, h.media = g.media, h.queue = g.queue
  PROVE  Frames(h) = Frames(g)
<1>1. PICK a : a = g.acks
  OBVIOUS
<1>2. PICK q : q = g.queue
  OBVIOUS
<1>3. h.acks = a /\ h.queue = q /\ h.media = g.media
  BY <1>1, <1>2
<1>4. Unsent(g) = Only(q, {c \in Range(q) : ~c.sent}) /\ Unsent(h) = Only(q, {c \in Range(q) : ~c.sent})
  BY <1>2, <1>3 DEF Unsent
<1>5. PICK u : u = Unsent(g)
  OBVIOUS
<1>6. Unsent(h) = u
  BY <1>4, <1>5
<1> QED  BY <1>1, <1>3, <1>5, <1>6 DEF Frames

LEMMA LowSet ==
  ASSUME NEW g \in End, NEW b \in BOOLEAN, NEW h, h = [g EXCEPT !.low = @ \/ b]
  PROVE  h \in End /\ LowOnly(g, h) /\ (b => h.low) /\ Frames(h) = Frames(g)
<1>1. h \in End /\ LowOnly(g, h) /\ (b => h.low)
  BY DEF End, LowOnly, Same
<1>2. h.acks = g.acks /\ h.media = g.media /\ h.queue = g.queue
  BY <1>1 DEF LowOnly
<1>3. Frames(h) = Frames(g)
  BY <1>2, FramesSame
<1> QED  BY <1>1, <1>3

LEMMA LowItself ==
  ASSUME NEW g \in End
  PROVE  LowOnly(g, g)
  BY DEF LowOnly, Same

LEMMA NotedOf ==
  ASSUME LinkTypes, NEW x \in Place, NEW e \in End, wire[Other(x)] # <<>>, Noted(x, e)
  PROVE  /\ LinkTypes' /\ end'[x] = e /\ wire'[x] = wire[x] /\ chan' = chan /\ spent' = spent
         /\ LowOnly(end[Other(x)], end'[Other(x)])
         /\ Frames(end'[Other(x)]) = Frames(end[Other(x)])
         /\ wire'[Other(x)] = Tail(wire[Other(x)])
         /\ (Len(wire'[Other(x)]) = Low /\ Attached(Other(x))) => end'[Other(x)].low
         /\ \A q \in Peer \ {x[1]} : Untouched(q)
<1>1. x[1] \in Peer /\ Other(x) \in Place /\ Other(x) # x /\ Other(x)[1] = x[1]
  BY PlacesOf
<1>2. PICK b \in BOOLEAN : b = (Len(Tail(wire[Other(x)])) = Low /\ Attached(Other(x)))
  OBVIOUS
<1>3. PICK g \in End : g = end[Other(x)]
  BY <1>1 DEF LinkTypes
<1>4. PICK h : h = [g EXCEPT !.low = @ \/ b]
  OBVIOUS
<1>5. h \in End /\ LowOnly(g, h) /\ (b => h.low) /\ Frames(h) = Frames(g)
  BY <1>4, LowSet
<1>6. PICK v : v = Tail(wire[Other(x)])
  OBVIOUS
<1>7. v \in Seq(Frame)
  <2>1. PICK w \in Seq(Frame) : w = wire[Other(x)]
    BY <1>1 DEF LinkTypes
  <2> QED  BY <2>1, <1>6, TailOf
<1>8. /\ end' = [end EXCEPT ![x] = e, ![Other(x)] = h]
      /\ wire' = [wire EXCEPT ![Other(x)] = v] /\ chan' = chan /\ spent' = spent
  <2>1. end' = [end EXCEPT ![x] = e, ![Other(x)].low = @ \/ b]
    BY <1>2 DEF Noted
  <2>2. [end EXCEPT ![x] = e, ![Other(x)].low = @ \/ b]
          = [end EXCEPT ![x] = e, ![Other(x)] = [g EXCEPT !.low = @ \/ b]]
    BY <1>1, <1>3 DEF LinkTypes
  <2> QED  BY <2>1, <2>2, <1>4, <1>6 DEF Noted
<1>9. LinkTypes' /\ end'[x] = e /\ wire'[x] = wire[x] /\ end'[Other(x)] = h /\ wire'[Other(x)] = v
  BY <1>1, <1>5, <1>7, <1>8 DEF LinkTypes
<1>10. ASSUME NEW q \in Peer \ {x[1]} PROVE Untouched(q)
  <2>1. <<q, "near">> \in Place \ {x, Other(x)} /\ <<q, "far">> \in Place \ {x, Other(x)}
    BY <1>1 DEF Place
  <2> QED  BY <1>1, <1>8, <2>1 DEF LinkTypes, Untouched
<1> QED  BY <1>2, <1>3, <1>5, <1>6, <1>8, <1>9, <1>10

LEMMA ReadingOf ==
  ASSUME LinkTypes, NEW x \in Place, NEW e \in End, wire[Other(x)] # <<>>, Reading(x, e)
  PROVE  \E o \in Flushed(x, e, wire[x]) :
           /\ LinkTypes' /\ end'[x] = o.end /\ wire'[x] = o.wire
           /\ LowOnly(end[Other(x)], end'[Other(x)])
           /\ Frames(end'[Other(x)]) = Frames(end[Other(x)])
           /\ o.threw => wire'[Other(x)] = <<>>
           /\ ~o.threw => wire'[Other(x)] = Tail(wire[Other(x)]) /\ chan'[x[1]] = chan[x[1]]
           /\ (Len(wire'[Other(x)]) = Low /\ Attached(Other(x)) /\ ~o.threw) => end'[Other(x)].low
           /\ chan'[x[1]].gen = chan[x[1]].gen
           /\ chan'[x[1]].alive <=> chan[x[1]].alive /\ ~o.threw
           /\ spent' = IF o.threw THEN spent \cup {<<x[1], "throw">>} ELSE spent
           /\ \A q \in Peer \ {x[1]} : Untouched(q)
<1>1. x[1] \in Peer /\ Other(x) \in Place /\ Other(x) # x /\ Other(x)[1] = x[1]
  BY PlacesOf
<1>2. PICK b \in BOOLEAN : b = (Len(Tail(wire[Other(x)])) = Low /\ Attached(Other(x)))
  OBVIOUS
<1>3. PICK g \in End : g = end[Other(x)]
  BY <1>1 DEF LinkTypes
<1>4. PICK h : h = [g EXCEPT !.low = @ \/ b]
  OBVIOUS
<1>5. h \in End /\ LowOnly(g, h) /\ (b => h.low) /\ Frames(h) = Frames(g)
  BY <1>4, LowSet
<1>6. PICK v : v = Tail(wire[Other(x)])
  OBVIOUS
<1>7. v \in Seq(Frame)
  <2>1. PICK w \in Seq(Frame) : w = wire[Other(x)]
    BY <1>1 DEF LinkTypes
  <2> QED  BY <2>1, <1>6, TailOf
<1>8. PICK o \in Flushed(x, e, wire[x]) :
        /\ end' = [end EXCEPT ![x] = o.end, ![Other(x)].low = @ \/ b]
        /\ wire' = [wire EXCEPT ![x] = o.wire, ![Other(x)] = IF o.threw THEN <<>> ELSE v]
        /\ chan' = [chan EXCEPT ![x[1]].alive = @ /\ ~o.threw]
        /\ spent' = IF o.threw THEN spent \cup {<<x[1], "throw">>} ELSE spent
  BY <1>2, <1>6 DEF Reading
<1>9. o.end \in End /\ o.wire \in Seq(Frame) /\ o.threw \in BOOLEAN
  <2>1. PICK w \in Seq(Frame) : w = wire[x]
    BY DEF LinkTypes
  <2>2. PICK c : c = chan[x[1]]
    OBVIOUS
  <2>3. o \in Flushed(x, e, w)
    BY <2>1
  <2> QED  BY <2>2, <2>3, FlushedOf
<1>10. PICK z \in Seq(Frame) : z = IF o.threw THEN <<>> ELSE v
  <2>1. <<>> \in Seq(Frame)
    OBVIOUS
  <2>2. CASE o.threw
    BY <2>1, <2>2, Zenon
  <2>3. CASE ~o.threw
    BY <2>3, <1>7, Zenon
  <2> QED  BY <2>2, <2>3
<1>11. PICK c \in Channel : c = chan[x[1]]
  BY <1>1 DEF LinkTypes
<1>12. PICK t \in BOOLEAN : t = o.threw
  BY <1>9
<1>13. PICK d : d = [c EXCEPT !.alive = @ /\ ~t]
  OBVIOUS
<1>14. d \in Channel /\ d.gen = c.gen /\ (d.alive <=> c.alive /\ ~t) /\ (~t => d = c)
  BY <1>13 DEF Channel
<1>15. /\ end' = [end EXCEPT ![x] = o.end, ![Other(x)] = h]
       /\ wire' = [wire EXCEPT ![x] = o.wire, ![Other(x)] = z]
       /\ chan' = [chan EXCEPT ![x[1]] = d]
  <2>1. [end EXCEPT ![x] = o.end, ![Other(x)].low = @ \/ b]
          = [end EXCEPT ![x] = o.end, ![Other(x)] = [g EXCEPT !.low = @ \/ b]]
    BY <1>1, <1>3 DEF LinkTypes
  <2>2. [chan EXCEPT ![x[1]].alive = @ /\ ~o.threw] = [chan EXCEPT ![x[1]] = [c EXCEPT !.alive = @ /\ ~t]]
    BY <1>1, <1>11, <1>12 DEF LinkTypes
  <2> QED  BY <2>1, <2>2, <1>4, <1>8, <1>10, <1>13
<1>16. /\ LinkTypes' /\ end'[x] = o.end /\ wire'[x] = o.wire /\ end'[Other(x)] = h /\ wire'[Other(x)] = z
       /\ chan'[x[1]] = d
  BY <1>1, <1>5, <1>9, <1>10, <1>14, <1>15 DEF LinkTypes
<1>17. ASSUME NEW q \in Peer \ {x[1]} PROVE Untouched(q)
  <2>1. <<q, "near">> \in Place \ {x, Other(x)} /\ <<q, "far">> \in Place \ {x, Other(x)}
    BY <1>1 DEF Place
  <2> QED  BY <1>1, <1>15, <2>1 DEF LinkTypes, Untouched
<1>18. o.threw => wire'[Other(x)] = <<>>
  BY <1>10, <1>16
<1>19. ~o.threw => wire'[Other(x)] = v
  BY <1>10, <1>16
<1>20. (Len(wire'[Other(x)]) = Low /\ Attached(Other(x)) /\ ~o.threw) => end'[Other(x)].low
  BY <1>2, <1>5, <1>6, <1>16, <1>19
<1>21. LowOnly(end[Other(x)], end'[Other(x)]) /\ Frames(end'[Other(x)]) = Frames(end[Other(x)])
  BY <1>3, <1>5, <1>16
<1>22. /\ chan'[x[1]].gen = chan[x[1]].gen
       /\ chan'[x[1]].alive <=> chan[x[1]].alive /\ ~o.threw
       /\ ~o.threw => chan'[x[1]] = chan[x[1]]
  BY <1>11, <1>12, <1>14, <1>16
<1> QED  BY <1>6, <1>8, <1>16, <1>17, <1>18, <1>19, <1>20, <1>21, <1>22

LEMMA FlushAllOf ==
  ASSUME LinkTypes, NEW D \in SUBSET Peer, NEW ready \in [D -> End], NEW happened,
         FlushAll(ready, happened)
  PROVE  /\ LinkTypes'
         /\ \A p \in D : \E o \in Flushed(<<p, "near">>, ready[p], wire[<<p, "near">>]) :
              /\ end'[<<p, "near">>] = o.end /\ wire'[<<p, "near">>] = o.wire
              /\ end'[<<p, "far">>] = end[<<p, "far">>]
              /\ o.threw => wire'[<<p, "far">>] = <<>>
              /\ ~o.threw => wire'[<<p, "far">>] = wire[<<p, "far">>]
              /\ chan'[p].gen = chan[p].gen
              /\ chan'[p].alive <=> chan[p].alive /\ ~(o.threw /\ Attached(<<p, "near">>))
         /\ \A p \in Peer \ D : Untouched(p)
         /\ spent \subseteq spent'
         /\ \A d \in spent' : d \in spent \/ d \in happened \/ d[2] = "throw"
<1>1. DOMAIN ready = D
  OBVIOUS
<1>2. PICK outs :
        /\ \A p \in D : outs[p] \in Flushed(<<p, "near">>, ready[p], wire[<<p, "near">>])
        /\ end' = [x \in Place |-> IF x[2] = "near" /\ x[1] \in D THEN outs[x[1]].end ELSE end[x]]
        /\ wire' = [x \in Place |-> IF x[1] \notin D THEN wire[x]
                                    ELSE IF x[2] = "near" THEN outs[x[1]].wire
                                    ELSE IF x[1] \in {p \in D : outs[p].threw} THEN <<>> ELSE wire[x]]
        /\ chan' = [p \in Peer |-> [chan[p] EXCEPT !.alive =
                       @ /\ ~(p \in {q \in D : outs[q].threw} /\ Attached(<<p, "near">>))]]
        /\ spent' = spent \cup happened \cup {<<p, "throw">> : p \in {q \in D : outs[q].threw}}
  <2>1. PICK outs :
        /\ \A p \in DOMAIN ready : outs[p] \in Flushed(<<p, "near">>, ready[p], wire[<<p, "near">>])
        /\ end' = [x \in Place |-> IF x[2] = "near" /\ x[1] \in DOMAIN ready THEN outs[x[1]].end ELSE end[x]]
        /\ wire' = [x \in Place |-> IF x[1] \notin DOMAIN ready THEN wire[x]
                                    ELSE IF x[2] = "near" THEN outs[x[1]].wire
                                    ELSE IF x[1] \in {p \in DOMAIN ready : outs[p].threw} THEN <<>> ELSE wire[x]]
        /\ chan' = [p \in Peer |-> [chan[p] EXCEPT !.alive =
                       @ /\ ~(p \in {q \in DOMAIN ready : outs[q].threw} /\ Attached(<<p, "near">>))]]
        /\ spent' = spent \cup happened \cup {<<p, "throw">> : p \in {q \in DOMAIN ready : outs[q].threw}}
    BY ZenonT(40) DEF FlushAll
  <2> QED  BY <2>1, <1>1, Zenon
<1>3. ASSUME NEW p \in D
      PROVE outs[p].end \in End /\ outs[p].wire \in Seq(Frame) /\ outs[p].threw \in BOOLEAN
  <2>1. <<p, "near">> \in Place
    BY BothEnds
  <2>2. PICK w \in Seq(Frame) : w = wire[<<p, "near">>]
    BY <2>1 DEF LinkTypes
  <2>3. PICK e \in End : e = ready[p]
    OBVIOUS
  <2>4. PICK o : o = outs[p]
    OBVIOUS
  <2>5. o \in Flushed(<<p, "near">>, e, w)
    BY <1>2, <2>2, <2>3, <2>4
  <2>6. PICK c : c = chan[<<p, "near">>[1]]
    OBVIOUS
  <2>7. o.end \in End /\ o.wire \in Seq(Frame) /\ o.threw \in BOOLEAN
    BY <2>1, <2>5, <2>6, FlushedOf
  <2> QED  BY <2>4, <2>7
<1>4. ASSUME NEW p \in Peer PROVE <<p, "near">> \in Place /\ <<p, "far">> \in Place
  BY BothEnds
<1>5. ASSUME NEW p \in Peer
      PROVE  /\ chan'[p] \in Channel /\ chan'[p].gen = chan[p].gen
             /\ chan'[p].alive <=> chan[p].alive /\ ~(p \in D /\ outs[p].threw /\ Attached(<<p, "near">>))
             /\ p \notin D => chan'[p] = chan[p]
  <2>1. PICK t \in BOOLEAN : t = (p \in {q \in D : outs[q].threw} /\ Attached(<<p, "near">>))
    OBVIOUS
  <2>2. PICK c \in Channel : c = chan[p]
    BY DEF LinkTypes
  <2>3. PICK d : d = [c EXCEPT !.alive = @ /\ ~t]
    OBVIOUS
  <2>4. d \in Channel /\ d.gen = c.gen /\ (d.alive <=> c.alive /\ ~t) /\ (~t => d = c)
    BY <2>3 DEF Channel
  <2>5. chan'[p] = d
    BY <1>2, <2>1, <2>2, <2>3, Zenon
  <2>6. t <=> p \in D /\ outs[p].threw /\ Attached(<<p, "near">>)
    BY <2>1
  <2> QED  BY <2>2, <2>4, <2>5, <2>6
<1>6. ASSUME NEW x \in Place
      PROVE  /\ end'[x] = IF x[2] = "near" /\ x[1] \in D THEN outs[x[1]].end ELSE end[x]
             /\ end'[x] \in End
             /\ wire'[x] = IF x[1] \notin D THEN wire[x]
                           ELSE IF x[2] = "near" THEN outs[x[1]].wire
                           ELSE IF x[1] \in {p \in D : outs[p].threw} THEN <<>> ELSE wire[x]
             /\ wire'[x] \in Seq(Frame)
  <2>1. /\ end'[x] = IF x[2] = "near" /\ x[1] \in D THEN outs[x[1]].end ELSE end[x]
        /\ wire'[x] = IF x[1] \notin D THEN wire[x]
                      ELSE IF x[2] = "near" THEN outs[x[1]].wire
                      ELSE IF x[1] \in {p \in D : outs[p].threw} THEN <<>> ELSE wire[x]
    BY <1>2, Zenon
  <2>2. end[x] \in End /\ wire[x] \in Seq(Frame) /\ <<>> \in Seq(Frame)
    BY DEF LinkTypes
  <2>3. end'[x] \in End
    BY <2>1, <2>2, <1>3
  <2>4. wire'[x] \in Seq(Frame)
    <3>1. CASE x[1] \notin D
      BY <2>1, <2>2, <3>1, Zenon
    <3>2. CASE x[1] \in D /\ x[2] = "near"
      BY <2>1, <1>3, <3>2, Zenon
    <3>3. CASE x[1] \in D /\ x[2] # "near" /\ x[1] \in {p \in D : outs[p].threw}
      BY <2>1, <2>2, <3>3, Zenon
    <3>4. CASE x[1] \in D /\ x[2] # "near" /\ x[1] \notin {p \in D : outs[p].threw}
      BY <2>1, <2>2, <3>4, Zenon
    <3> QED  BY <3>1, <3>2, <3>3, <3>4, Zenon
  <2> QED  BY <2>1, <2>3, <2>4
<1>7. LinkTypes'
  <2>1. end' \in [Place -> End]
    <3>1. end' = [x \in Place |-> end'[x]]
      BY <1>2
    <3> QED  BY <3>1, <1>6
  <2>2. wire' \in [Place -> Seq(Frame)]
    <3>1. wire' = [x \in Place |-> wire'[x]]
      BY <1>2
    <3> QED  BY <3>1, <1>6
  <2>3. chan' \in [Peer -> Channel]
    <3>1. chan' = [p \in Peer |-> chan'[p]]
      BY <1>2
    <3> QED  BY <3>1, <1>5
  <2> QED  BY <2>1, <2>2, <2>3 DEF LinkTypes
<1>8. ASSUME NEW p \in D
      PROVE  \E o \in Flushed(<<p, "near">>, ready[p], wire[<<p, "near">>]) :
              /\ end'[<<p, "near">>] = o.end /\ wire'[<<p, "near">>] = o.wire
              /\ end'[<<p, "far">>] = end[<<p, "far">>]
              /\ o.threw => wire'[<<p, "far">>] = <<>>
              /\ ~o.threw => wire'[<<p, "far">>] = wire[<<p, "far">>]
              /\ chan'[p].gen = chan[p].gen
              /\ chan'[p].alive <=> chan[p].alive /\ ~(o.threw /\ Attached(<<p, "near">>))
  <2>1. outs[p] \in Flushed(<<p, "near">>, ready[p], wire[<<p, "near">>])
    BY <1>2
  <2>2. <<p, "near">>[1] = p /\ <<p, "near">>[2] = "near" /\ <<p, "far">>[1] = p /\ <<p, "far">>[2] = "far"
    OBVIOUS
  <2>3. /\ end'[<<p, "near">>] = outs[p].end /\ wire'[<<p, "near">>] = outs[p].wire
        /\ end'[<<p, "far">>] = end[<<p, "far">>]
    BY <2>2, <1>4, <1>6
  <2>4. wire'[<<p, "far">>] = IF p \in {q \in D : outs[q].threw} THEN <<>> ELSE wire[<<p, "far">>]
    <3>1. wire'[<<p, "far">>] = IF <<p, "far">>[1] \notin D THEN wire[<<p, "far">>]
                           ELSE IF <<p, "far">>[2] = "near" THEN outs[<<p, "far">>[1]].wire
                           ELSE IF <<p, "far">>[1] \in {q \in D : outs[q].threw} THEN <<>> ELSE wire[<<p, "far">>]
      BY <1>4, <1>6
    <3> QED  BY <3>1, <2>2
  <2> QED  BY <2>1, <2>3, <2>4, <1>5
<1>9. ASSUME NEW p \in Peer \ D PROVE Untouched(p)
  <2>1. <<p, "near">>[1] = p /\ <<p, "far">>[1] = p
    OBVIOUS
  <2>2. end'[<<p, "near">>] = end[<<p, "near">>] /\ end'[<<p, "far">>] = end[<<p, "far">>]
    BY <1>4, <1>6, <2>1
  <2>3. wire'[<<p, "near">>] = wire[<<p, "near">>] /\ wire'[<<p, "far">>] = wire[<<p, "far">>]
    BY <1>4, <1>6, <2>1
  <2> QED  BY <1>5, <2>2, <2>3 DEF Untouched
<1>10. spent \subseteq spent' /\ \A d \in spent' : d \in spent \/ d \in happened \/ d[2] = "throw"
  BY <1>2
<1> QED  BY <1>7, <1>8, <1>9, <1>10

-----------------------------------------------------------------------------
(* The ends of a link fit together                                         *)

EndFits(e, c) ==
  /\ e.on <= c.gen
  /\ e.on # 0 => e.here
  /\ e.open => e.on # 0
  /\ e.recovering => e.timed
  /\ e.due => c.gen > 1

\* The near end n, the far end f, their last channel c and what is under way
\* from near to far
LinkShape(n, f, c, w) ==
  /\ EndFits(n, c) /\ EndFits(f, c)
  /\ AttachedTo(n, c) /\ AttachedTo(f, c) => c.alive /\ n.epoch = f.epoch
  /\ c.alive /\ AttachedTo(n, c) /\ n.open => AttachedTo(f, c)
  /\ c.alive /\ ~AttachedTo(f, c) => w = <<>>
  /\ f.epoch <= n.epoch

\* The end e becomes f, its channel d, its wire v, by anything but a new channel
\* or connection; the other end is attached if o, and f acknowledges from A.
EndMove(e, f, o, c, d, w, v, A) ==
  /\ f.here = e.here /\ f.epoch = e.epoch /\ f.from = e.from
  /\ d.gen = c.gen
  /\ \/ /\ f.on = e.on /\ (d.alive <=> c.alive)
        /\ f.open => e.open \/ (o /\ AttachedTo(e, c))
     \/ /\ f.on = 0 \/ (f.on < c.gen /\ e.here)
        /\ ~f.open
        /\ d.alive => c.alive /\ ~AttachedTo(e, c)
  /\ f.due => e.due
  /\ (e.recovering => e.timed) => (f.recovering => f.timed)
  /\ v # w => AttachedTo(e, c) /\ (e.open \/ o)
  /\ Range(f.acks) \subseteq A /\ Range(f.got) \subseteq Range(e.got) \cup A
  /\ Brings(w, v, A, Ids(f.queue))

LEMMA NearMoves ==
  ASSUME NEW n \in End, NEW n1 \in End, NEW f \in End, NEW f1 \in End,
         NEW c \in Channel, NEW d \in Channel, NEW w, NEW v, NEW A,
         LinkShape(n, f, c, w), EndMove(n, n1, AttachedTo(f, c), c, d, w, v, A), LowOnly(f, f1)
  PROVE  LinkShape(n1, f1, d, v)
<1>1. /\ n.on \in Nat /\ n1.on \in Nat /\ f.on \in Nat /\ c.gen \in Nat
      /\ n.epoch \in Nat /\ f.epoch \in Nat
      /\ c.alive \in BOOLEAN /\ d.alive \in BOOLEAN
  BY DEF End, Channel
<1>2. /\ f1.on = f.on /\ f1.here = f.here /\ f1.open = f.open /\ f1.recovering = f.recovering
      /\ f1.timed = f.timed /\ f1.epoch = f.epoch /\ (f1.due => f.due)
  BY DEF LowOnly, Same
<1> QED  BY <1>1, <1>2 DEF LinkShape, EndMove, EndFits, AttachedTo

LEMMA FarMoves ==
  ASSUME NEW n \in End, NEW n1 \in End, NEW f \in End, NEW f1 \in End,
         NEW c \in Channel, NEW d \in Channel, NEW w, NEW v, NEW wf, NEW vf, NEW A,
         LinkShape(n, f, c, w), EndMove(f, f1, AttachedTo(n, c), c, d, wf, vf, A), LowOnly(n, n1),
         w = <<>> => v = <<>>
  PROVE  LinkShape(n1, f1, d, v)
<1>1. /\ n.on \in Nat /\ f1.on \in Nat /\ f.on \in Nat /\ c.gen \in Nat
      /\ n.epoch \in Nat /\ f.epoch \in Nat
      /\ c.alive \in BOOLEAN /\ d.alive \in BOOLEAN
  BY DEF End, Channel
<1>2. /\ n1.on = n.on /\ n1.here = n.here /\ n1.open = n.open /\ n1.recovering = n.recovering
      /\ n1.timed = n.timed /\ n1.epoch = n.epoch /\ (n1.due => n.due)
  BY DEF LowOnly, Same
<1> QED  BY <1>1, <1>2 DEF LinkShape, EndMove, EndFits, AttachedTo

-----------------------------------------------------------------------------
(* Operations of an end                                                    *)

\* f has the place, the messages and the acknowledgements of e.
Based(e, f) ==
  /\ f.here = e.here /\ f.epoch = e.epoch /\ f.from = e.from /\ f.on = e.on
  /\ f.queue = e.queue /\ f.acks = e.acks /\ f.got = e.got
  /\ f.due => e.due

\* What becomes of an end e that opens, connects, or may send again
OpRel(e, f, w, v, t, c) ==
  /\ Same(e, f) /\ Range(f.acks) \subseteq Range(e.acks) /\ Alike(e.queue, f.queue)
  /\ ~t => /\ f.on = e.on /\ f.open = e.open /\ f.grace = e.grace
           /\ f.recovering => e.recovering /\ f.timed = e.timed
  /\ t => f.on = 0 /\ ~f.open /\ f.recovering /\ f.timed
  /\ v # w => e.open /\ e.on = c.gen
  /\ Brings(w, v, Range(e.acks), Ids(e.queue))

\* The messages of an open end are sent, or will be once the buffer drains, and
\* the media u are on their way.
Flows(e, w, r, u) ==
  /\ Frames(e) = <<>> \/ Len(w) > Low \/ e.low
  /\ Tells(e.media, w, r, u)

LEMMA FlushIsOp ==
  ASSUME NEW e, NEW f, NEW w, NEW v, NEW t, NEW c, FlushRel(e, f, w, v, t, c)
  PROVE  OpRel(e, f, w, v, t, c)
  BY DEF FlushRel, OpRel

LEMMA WithCurrentOf ==
  ASSUME NEW x \in Place, NEW e \in End, media \in Nat, NEW f, f = WithCurrent(x, e)
  PROVE  /\ f \in End /\ Same(e, f) /\ f.on = e.on /\ f.open = e.open /\ f.grace = e.grace
         /\ f.recovering = e.recovering /\ f.timed = e.timed
         /\ f.queue = e.queue /\ f.acks = e.acks
         /\ x[2] = "near" /\ e.here /\ ~e.recovering /\ e.open => f.media = media
<1>1. CASE x[2] = "near" /\ e.here /\ ~e.recovering /\ e.open
  <2>1. f = [e EXCEPT !.media = media, !.quiet = FALSE]
    BY <1>1 DEF WithCurrent
  <2> QED  BY <2>1, <1>1 DEF End, Same
<1>2. CASE ~(x[2] = "near" /\ e.here /\ ~e.recovering /\ e.open)
  <2>1. f = e
    BY <1>2 DEF WithCurrent
  <2> QED  BY <2>1, <1>2 DEF Same
<1> QED  BY <1>1, <1>2

LEMMA FlushCurrent ==
  ASSUME LinkTypes, media \in Nat, NEW x \in Place, NEW e \in End, NEW c, c = chan[x[1]],
         NEW w \in Seq(Frame), NEW o \in Flushed(x, WithCurrent(x, e), w)
  PROVE  /\ o.end \in End /\ o.wire \in Seq(Frame) /\ o.threw \in BOOLEAN
         /\ OpRel(e, o.end, w, o.wire, o.threw, c)
         /\ ~o.threw => o.end.recovering = e.recovering
         /\ o.threw => CanSpend(<<x[1], "throw">>)
         /\ x[2] = "near" /\ ~o.threw /\ e.here /\ e.open /\ ~e.recovering /\ e.on = c.gen =>
              \A r : Flows(o.end, o.wire, r, media)
<1>1. PICK g : g = WithCurrent(x, e)
  OBVIOUS
<1>2. /\ g \in End /\ Same(e, g) /\ g.on = e.on /\ g.open = e.open /\ g.grace = e.grace
      /\ g.recovering = e.recovering /\ g.timed = e.timed
      /\ g.queue = e.queue /\ g.acks = e.acks
      /\ x[2] = "near" /\ e.here /\ ~e.recovering /\ e.open => g.media = media
  BY <1>1, WithCurrentOf
<1>3. o \in Flushed(x, g, w)
  BY <1>1
<1>4. /\ o.end \in End /\ o.wire \in Seq(Frame) /\ o.threw \in BOOLEAN
      /\ FlushRel(g, o.end, w, o.wire, o.threw, c)
      /\ o.threw => CanSpend(<<x[1], "throw">>)
  BY <1>2, <1>3, FlushedOf
<1>5. PICK f : f = o.end
  OBVIOUS
<1>6. PICK v : v = o.wire
  OBVIOUS
<1>7. PICK t \in BOOLEAN : t = o.threw
  BY <1>4
<1>8. FlushRel(g, f, w, v, t, c)
  BY <1>4, <1>5, <1>6, <1>7
<1>9. Same(g, f) /\ (~t => f.recovering = g.recovering)
  BY <1>8 DEF FlushRel
<1>10. Same(e, f)
  BY <1>2, <1>9 DEF Same
<1>11. OpRel(e, f, w, v, t, c)
  BY <1>2, <1>8, <1>10 DEF FlushRel, OpRel
<1>12. ASSUME x[2] = "near", ~t, e.here, e.open, ~e.recovering, e.on = c.gen, NEW r
       PROVE Flows(f, v, r, media)
  <2>1. g.here /\ g.open /\ ~g.recovering /\ g.on = c.gen /\ g.media = media
    BY <1>2, <1>12 DEF Same
  <2>2. /\ Frames(f) = <<>> \/ Len(v) > Low
        /\ Tells(g.media, w, r, media) => Tells(f.media, v, r, media)
    BY <1>8, <1>12, <2>1 DEF FlushRel
  <2>3. Tells(g.media, w, r, media)
    BY <2>1 DEF Tells
  <2> QED  BY <2>2, <2>3 DEF Flows
<1> QED  BY <1>2, <1>4, <1>5, <1>6, <1>7, <1>9, <1>11, <1>12

LEMMA FinishOf ==
  ASSUME LinkTypes, media \in Nat, NEW x \in Place, NEW e \in End, NEW c, c = chan[x[1]],
         NEW w, w = wire[x], NEW o \in Finish(x, e)
  PROVE  /\ o.end \in End /\ o.wire \in Seq(Frame) /\ o.threw \in BOOLEAN
         /\ OpRel([e EXCEPT !.recovering = FALSE, !.timed = FALSE, !.attempt = 0],
                  o.end, w, o.wire, o.threw, c)
         /\ ~o.threw => ~o.end.recovering
         /\ o.threw => CanSpend(<<x[1], "throw">>)
         /\ ~o.threw /\ ~e.recovering /\ ~e.timed => o.end.quiet = e.quiet
         /\ x[2] = "near" /\ ~o.threw /\ e.here /\ e.open /\ e.on = c.gen =>
              \A r : (e.recovering \/ e.timed \/ Flows(e, w, r, media)) => Flows(o.end, o.wire, r, media)
<1>1. PICK g : g = [e EXCEPT !.recovering = FALSE, !.timed = FALSE, !.attempt = 0]
  OBVIOUS
<1>2. /\ g \in End /\ g.here = e.here /\ g.on = e.on /\ g.open = e.open /\ ~g.recovering
      /\ g.queue = e.queue /\ g.acks = e.acks /\ g.media = e.media /\ g.low = e.low
      /\ g.quiet = e.quiet
  BY <1>1 DEF End
<1>3. w \in Seq(Frame)
  BY DEF LinkTypes
<1>4. CASE e.recovering \/ e.timed
  <2>1. o \in Flushed(x, WithCurrent(x, g), w)
    BY <1>1, <1>4 DEF Finish
  <2>2. /\ o.end \in End /\ o.wire \in Seq(Frame) /\ o.threw \in BOOLEAN
        /\ OpRel(g, o.end, w, o.wire, o.threw, c)
        /\ ~o.threw => o.end.recovering = g.recovering
        /\ o.threw => CanSpend(<<x[1], "throw">>)
        /\ x[2] = "near" /\ ~o.threw /\ g.here /\ g.open /\ ~g.recovering /\ g.on = c.gen =>
             \A r : Flows(o.end, o.wire, r, media)
    BY <1>2, <1>3, <2>1, FlushCurrent
  <2> QED  BY <1>1, <1>2, <1>4, <2>2
<1>5. CASE ~(e.recovering \/ e.timed)
  <2>1. o = [end |-> g, wire |-> w, threw |-> FALSE]
    BY <1>1, <1>5 DEF Finish
  <2>2. o.end = g /\ o.wire = w /\ o.threw = FALSE
    BY <2>1
  <2>3. OpRel(g, g, w, w, FALSE, c)
    BY AlikeItself DEF OpRel, Same, Brings
  <2>4. Frames(g) = Frames(e)
    BY <1>2, FramesSame
  <2>5. \A r : Flows(e, w, r, media) => Flows(g, w, r, media)
    BY <1>2, <2>4 DEF Flows
  <2> QED  BY <1>1, <1>2, <1>3, <1>5, <2>2, <2>3, <2>5
<1> QED  BY <1>4, <1>5

LEMMA OpMoves ==
  ASSUME NEW e \in End, NEW g \in End, NEW f \in End, NEW o \in BOOLEAN, NEW c \in Channel,
         NEW d \in Channel, NEW w, NEW v, NEW t \in BOOLEAN,
         Based(e, g), g.open => e.open \/ (o /\ AttachedTo(e, c)),
         g.recovering => g.timed, EndFits(e, c), OpRel(g, f, w, v, t, c),
         d.gen = c.gen, d.alive <=> c.alive /\ ~(t /\ e.on = c.gen)
  PROVE  EndMove(e, f, o, c, d, w, v, Range(e.acks)) /\ Alike(e.queue, f.queue)
<1>1. f.here = e.here /\ f.epoch = e.epoch /\ f.from = e.from /\ (f.due => e.due)
  BY DEF Based, OpRel, Same
<1>2. \/ /\ f.on = e.on /\ (d.alive <=> c.alive)
         /\ f.open => e.open \/ (o /\ AttachedTo(e, c))
      \/ /\ f.on = 0 /\ ~f.open
         /\ d.alive => c.alive /\ ~AttachedTo(e, c)
  BY DEF Based, OpRel, AttachedTo
<1>3. f.recovering => f.timed
  BY DEF OpRel
<1>4. v # w => AttachedTo(e, c) /\ (e.open \/ o)
  BY DEF Based, OpRel, EndFits, AttachedTo
<1>5. Range(f.acks) \subseteq Range(e.acks) /\ Range(f.got) \subseteq Range(e.got) \cup Range(e.acks)
  BY DEF Based, OpRel, Same
<1>6. Alike(e.queue, f.queue)
  BY DEF Based, OpRel
<1>7. Brings(w, v, Range(e.acks), Ids(f.queue))
  <2>1. e.queue \in Seq(Entry) /\ f.queue \in Seq(Entry)
    BY DEF End
  <2>2. Ids(f.queue) = Ids(e.queue)
    BY <1>6, <2>1, AlikeIds
  <2>3. Brings(w, v, Range(e.acks), Ids(e.queue))
    BY DEF OpRel, Based
  <2> QED  BY <2>2, <2>3
<1> QED  BY <1>1, <1>2, <1>3, <1>4, <1>5, <1>6, <1>7 DEF EndMove

\* What is to be sent over an open channel is under way, unless the channel
\* opened quietly.
Busy(e, c, w, r, u) ==
  c.alive /\ AttachedTo(e, c) /\ e.open /\ ~e.recovering /\ ~e.quiet => Flows(e, w, r, u)

\* The end x moves; of the other only the buffer may drain.
Turn(x, A) ==
  /\ EndMove(end[x], end'[x], AttachedTo(end[Other(x)], chan[x[1]]), chan[x[1]], chan'[x[1]],
             wire[x], wire'[x], A)
  /\ LowOnly(end[Other(x)], end'[Other(x)])
  /\ Frames(end'[Other(x)]) = Frames(end[Other(x)])
  /\ Range(wire'[Other(x)]) \subseteq Range(wire[Other(x)])

\* The messages of the near end still flow.
NearGoes(x) ==
  x[2] = "near" =>
    \A r : Busy(end[x], chan[x[1]], wire[x], r, media) => Busy(end'[x], chan'[x[1]], wire'[x], r, media')

\* The far end reads nothing, unless its channel is gone.
FarGoes(x) ==
  (chan'[x[1]].alive => chan[x[1]].alive /\ ~Attached(x)) \/ wire'[Other(x)] = wire[Other(x)]

FullGoes(x) == end'[x].full => end[x].full \/ <<x[1], "flood">> \in spent'

\* Nobody leaves in the step.
NobodyLeaves == spent \subseteq spent' /\ \A d \in spent' : d \in spent \/ d[2] # "leave"

Plain(x) ==
  /\ LinkTypes'
  /\ Turn(x, Range(end[x].acks)) /\ Alike(end[x].queue, end'[x].queue)
  /\ NearGoes(x) /\ FarGoes(x) /\ FullGoes(x)
  /\ \A q \in Peer \ {x[1]} : Untouched(q)
  /\ NobodyLeaves

\* An end that is given another value g, without a new channel or connection
LEMMA SimplyTurns ==
  ASSUME LinkTypes, NEW x \in Place, NEW g \in End, NEW closes \in BOOLEAN, Simply(x, g, closes),
         EndFits(end[x], chan[x[1]]),
         g.here = end[x].here, g.epoch = end[x].epoch, g.from = end[x].from,
         g.got = end[x].got, g.acks = end[x].acks, g.recovering => g.timed, g.due => end[x].due,
         \/ g.on = end[x].on /\ g.open = end[x].open /\ ~closes
         \/ /\ g.on = 0 \/ (g.on < chan[x[1]].gen /\ end[x].here)
            /\ ~g.open /\ (AttachedTo(end[x], chan[x[1]]) => closes)
  PROVE  /\ LinkTypes' /\ end'[x] = g /\ wire'[x] = wire[x]
         /\ Turn(x, Range(end[x].acks)) /\ FarGoes(x)
         /\ ~closes => chan'[x[1]] = chan[x[1]] /\ wire'[Other(x)] = wire[Other(x)]
         /\ chan'[x[1]].alive => chan[x[1]].alive
         /\ \A q \in Peer \ {x[1]} : Untouched(q)
<1>1. x[1] \in Peer /\ Other(x) \in Place
  BY PlacesOf
<1>2. PICK w \in Seq(Frame) : w = wire[Other(x)]
  BY <1>1 DEF LinkTypes
<1>3. PICK out : out = [end |-> g, wire |-> wire[x], threw |-> FALSE]
  OBVIOUS
<1>4. out.end = g /\ out.wire = wire[x] /\ out.threw = FALSE /\ out.wire \in Seq(Frame)
  BY <1>3 DEF LinkTypes
<1>5. Becomes(x, out, closes, w)
  BY <1>2, <1>3 DEF Simply
<1>6. /\ LinkTypes'
      /\ end'[x] = g /\ wire'[x] = wire[x] /\ end'[Other(x)] = end[Other(x)]
      /\ closes => wire'[Other(x)] = <<>>
      /\ ~closes => wire'[Other(x)] = w /\ chan'[x[1]] = chan[x[1]]
      /\ chan'[x[1]].gen = chan[x[1]].gen
      /\ chan'[x[1]].alive <=> chan[x[1]].alive /\ ~(closes /\ end[x].on = chan[x[1]].gen)
      /\ \A q \in Peer \ {x[1]} : Untouched(q)
  <2>1. out.end \in End /\ out.wire \in Seq(Frame) /\ out.threw \in BOOLEAN
    BY <1>4
  <2>2. PICK t \in BOOLEAN : t = out.threw
    BY <2>1
  <2>3. /\ LinkTypes'
        /\ end'[x] = out.end /\ wire'[x] = out.wire /\ end'[Other(x)] = end[Other(x)]
        /\ (closes \/ t) => wire'[Other(x)] = <<>>
        /\ ~(closes \/ t) => wire'[Other(x)] = w /\ chan'[x[1]] = chan[x[1]]
        /\ chan'[x[1]].gen = chan[x[1]].gen
        /\ chan'[x[1]].alive <=> chan[x[1]].alive /\ ~((closes \/ t) /\ end[x].on = chan[x[1]].gen)
        /\ \A q \in Peer \ {x[1]} : Untouched(q)
    BY <1>5, <2>1, <2>2, BecomesOf
  <2> QED  BY <1>4, <2>2, <2>3
<1>7. Range(wire'[Other(x)]) \subseteq Range(wire[Other(x)])
  <2>1. Range(<<>>) = {}
    BY DEF Range
  <2> QED  BY <2>1, <1>2, <1>6
<1>8. LowOnly(end[Other(x)], end'[Other(x)]) /\ Frames(end'[Other(x)]) = Frames(end[Other(x)])
  BY <1>6 DEF LowOnly, Same
<1>9. EndMove(end[x], end'[x], AttachedTo(end[Other(x)], chan[x[1]]), chan[x[1]], chan'[x[1]],
              wire[x], wire'[x], Range(end[x].acks))
  <2>1. Brings(wire[x], wire[x], Range(end[x].acks), Ids(g.queue))
    BY DEF Brings
  <2> QED  BY <1>6, <2>1 DEF EndMove, AttachedTo
<1>10. FarGoes(x)
  BY <1>2, <1>6 DEF FarGoes, Attached, AttachedTo
<1> QED  BY <1>2, <1>6, <1>7, <1>8, <1>9, <1>10 DEF Turn

\* An end that opens, connects, or sends, by way of a value g
LEMMA OutcomeTurns ==
  ASSUME LinkTypes, NEW x \in Place, NEW g \in End, NEW o,
         o.end \in End, o.wire \in Seq(Frame), o.threw \in BOOLEAN,
         OpRel(g, o.end, wire[x], o.wire, o.threw, chan[x[1]]),
         EndFits(end[x], chan[x[1]]), Based(end[x], g), g.recovering => g.timed,
         g.open => end[x].open \/ (AttachedTo(end[Other(x)], chan[x[1]]) /\ AttachedTo(end[x], chan[x[1]])),
         Outcome(x, o, FALSE)
  PROVE  /\ LinkTypes' /\ end'[x] = o.end /\ wire'[x] = o.wire
         /\ Turn(x, Range(end[x].acks)) /\ FarGoes(x) /\ Alike(end[x].queue, end'[x].queue)
         /\ ~o.threw => chan'[x[1]] = chan[x[1]]
         /\ chan'[x[1]].alive => chan[x[1]].alive
         /\ end'[x].full = g.full
         /\ \A q \in Peer \ {x[1]} : Untouched(q)
         /\ NobodyLeaves
<1>1. x[1] \in Peer /\ Other(x) \in Place
  BY PlacesOf
<1>2. PICK w \in Seq(Frame) : w = wire[Other(x)]
  BY <1>1 DEF LinkTypes
<1>3. Becomes(x, o, FALSE, w)
  BY <1>2 DEF Outcome
<1>4. PICK t \in BOOLEAN : t = o.threw
  OBVIOUS
<1>5. /\ LinkTypes'
      /\ end'[x] = o.end /\ wire'[x] = o.wire /\ end'[Other(x)] = end[Other(x)]
      /\ t => wire'[Other(x)] = <<>>
      /\ ~t => wire'[Other(x)] = w /\ chan'[x[1]] = chan[x[1]]
      /\ chan'[x[1]].gen = chan[x[1]].gen
      /\ chan'[x[1]].alive <=> chan[x[1]].alive /\ ~(t /\ end[x].on = chan[x[1]].gen)
      /\ \A q \in Peer \ {x[1]} : Untouched(q)
  BY ZenonT(40), <1>3, <1>4, BecomesOf
<1>6. Range(wire'[Other(x)]) \subseteq Range(wire[Other(x)])
  <2>1. Range(<<>>) = {}
    BY DEF Range
  <2> QED  BY <2>1, <1>2, <1>5
<1>7. LowOnly(end[Other(x)], end'[Other(x)]) /\ Frames(end'[Other(x)]) = Frames(end[Other(x)])
  BY <1>5 DEF LowOnly, Same
<1>8. /\ EndMove(end[x], end'[x], AttachedTo(end[Other(x)], chan[x[1]]), chan[x[1]], chan'[x[1]],
                 wire[x], wire'[x], Range(end[x].acks))
      /\ Alike(end[x].queue, end'[x].queue)
  <2>1. PICK e \in End : e = end[x]
    BY DEF LinkTypes
  <2>2. PICK c \in Channel : c = chan[x[1]]
    BY <1>1 DEF LinkTypes
  <2>3. PICK d \in Channel : d = chan'[x[1]]
    BY <1>1, <1>5 DEF LinkTypes
  <2>4. PICK f \in End : f = o.end
    OBVIOUS
  <2>5. PICK b \in BOOLEAN : b = AttachedTo(end[Other(x)], chan[x[1]])
    BY DEF AttachedTo
  <2>6. PICK v : v = o.wire
    OBVIOUS
  <2>7. PICK u : u = wire[x]
    OBVIOUS
  <2>8. Based(e, g) /\ (g.open => e.open \/ (b /\ AttachedTo(e, c))) /\ EndFits(e, c)
    BY <2>1, <2>2, <2>5
  <2>9. OpRel(g, f, u, v, t, c)
    BY <1>4, <2>2, <2>4, <2>6, <2>7
  <2>10. d.gen = c.gen /\ (d.alive <=> c.alive /\ ~(t /\ e.on = c.gen))
    BY <1>5, <2>1, <2>2, <2>3
  <2>11. EndMove(e, f, b, c, d, u, v, Range(e.acks)) /\ Alike(e.queue, f.queue)
    BY <2>8, <2>9, <2>10, OpMoves
  <2> QED  BY <2>1, <2>2, <2>3, <2>4, <2>5, <2>6, <2>7, <2>11, <1>5
<1>9. FarGoes(x)
  BY <1>2, <1>5 DEF FarGoes, Attached, AttachedTo
<1>10. NobodyLeaves
  BY DEF Outcome, NobodyLeaves
<1>11. end'[x].full = g.full
  BY <1>5 DEF OpRel, Same
<1> QED  BY <1>1, <1>4, <1>5, <1>6, <1>7, <1>8, <1>9, <1>10, <1>11 DEF Turn

LEMMA OpensPlain ==
  ASSUME LinkTypes, media \in Nat, NEW x \in Place, EndFits(end[x], chan[x[1]]), Opens(x)
  PROVE  Plain(x)
<1>1. x[1] \in Peer /\ Other(x) \in Place /\ Other(x)[1] = x[1]
  BY PlacesOf
<1>2. PICK e \in End : e = end[x]
  BY DEF LinkTypes
<1>3. PICK g : g = [e EXCEPT !.open = TRUE]
  OBVIOUS
<1>4. /\ g \in End /\ Based(e, g) /\ g.open /\ g.recovering = e.recovering /\ g.timed = e.timed
      /\ g.full = e.full
  BY <1>3 DEF End, Based
<1>5. PICK out \in HandleOpen(x, g) : Outcome(x, out, FALSE)
  BY <1>2, <1>3 DEF Opens
<1>6. AttachedTo(e, chan[x[1]]) /\ AttachedTo(end[Other(x)], chan[x[1]]) /\ ~e.open
  BY <1>1, <1>2 DEF Opens, Attached, AttachedTo
<1>7. PICK c : c = chan[x[1]]
  OBVIOUS
<1>8. PICK w \in Seq(Frame) : w = wire[x]
  BY DEF LinkTypes
<1>9. EndFits(e, c) /\ e.here /\ g.here /\ g.on = c.gen
  BY <1>2, <1>4, <1>6, <1>7 DEF EndFits, Based, AttachedTo
<1>10. media' = media
  BY DEF Opens, Elsewhere, mineVars
<1>11. CASE g.connected
  <2>8. PICK k : k = [g EXCEPT !.quiet = ~(g.recovering \/ g.timed)]
    OBVIOUS
  <2>1. out \in Finish(x, k)
    BY <1>5, <1>11, <2>8 DEF HandleOpen
  <2>9. k \in End /\ Based(e, k) /\ k.open /\ k.here = g.here /\ k.on = g.on /\ k.full = e.full
    BY <1>4, <2>8 DEF End, Based
  <2>10. k.recovering \/ k.timed \/ k.quiet
    BY <1>4, <2>8 DEF End
  <2>2. PICK h : h = [k EXCEPT !.recovering = FALSE, !.timed = FALSE, !.attempt = 0]
    OBVIOUS
  <2>3. /\ out.end \in End /\ out.wire \in Seq(Frame) /\ out.threw \in BOOLEAN
        /\ OpRel(h, out.end, w, out.wire, out.threw, c)
        /\ ~out.threw /\ ~k.recovering /\ ~k.timed => out.end.quiet = k.quiet
        /\ x[2] = "near" /\ ~out.threw /\ k.here /\ k.open /\ k.on = c.gen =>
             \A r : (k.recovering \/ k.timed \/ Flows(k, w, r, media)) => Flows(out.end, out.wire, r, media)
    BY Zenon, <2>9, <1>7, <1>8, <2>1, <2>2, FinishOf
  <2>4. h \in End /\ Based(e, h) /\ ~h.recovering /\ h.full = e.full /\ h.open
    BY <2>9, <2>2 DEF End, Based
  <2>5. /\ LinkTypes' /\ end'[x] = out.end /\ wire'[x] = out.wire
        /\ Turn(x, Range(end[x].acks)) /\ FarGoes(x) /\ Alike(end[x].queue, end'[x].queue)
        /\ ~out.threw => chan'[x[1]] = chan[x[1]]
        /\ end'[x].full = h.full
        /\ \A q \in Peer \ {x[1]} : Untouched(q)
        /\ NobodyLeaves
    BY ZenonT(40), <1>2, <1>5, <1>6, <1>7, <1>8, <2>3, <2>4, OutcomeTurns
  <2>7. NearGoes(x)
    <3> SUFFICES ASSUME x[2] = "near", NEW r
                 PROVE  Busy(out.end, chan'[x[1]], out.wire, r, media)
      BY <1>2, <1>10, <2>5 DEF NearGoes
    <3>1. CASE out.threw
      <4>1. out.end.on = 0
        BY <2>3, <3>1 DEF OpRel
      <4> QED  BY <4>1 DEF Busy, AttachedTo
    <3>2. CASE ~out.threw /\ (k.recovering \/ k.timed)
      <4>1. Flows(out.end, out.wire, r, media)
        BY <2>3, <2>9, <3>2, <1>9
      <4> QED  BY <4>1 DEF Busy
    <3>3. CASE ~out.threw /\ ~(k.recovering \/ k.timed)
      <4>1. out.end.quiet
        BY <2>3, <2>10, <3>3
      <4> QED  BY <4>1 DEF Busy
    <3> QED  BY <2>3, <3>1, <3>2, <3>3
  <2> QED  BY <1>2, <2>4, <2>5, <2>7 DEF Plain, FullGoes
<1>12. CASE ~g.connected
  <2>1. out \in Flushed(x, WithCurrent(x, g), w)
    BY <1>5, <1>8, <1>12 DEF HandleOpen
  <2>2. /\ out.end \in End /\ out.wire \in Seq(Frame) /\ out.threw \in BOOLEAN
        /\ OpRel(g, out.end, w, out.wire, out.threw, c)
        /\ ~out.threw => out.end.recovering = g.recovering
        /\ x[2] = "near" /\ ~out.threw /\ g.here /\ g.open /\ ~g.recovering /\ g.on = c.gen =>
             \A r : Flows(out.end, out.wire, r, media)
    BY <1>4, <1>7, <2>1, FlushCurrent
  <2>3. g.recovering => g.timed
    BY <1>4, <1>9 DEF EndFits
  <2>4. /\ LinkTypes' /\ end'[x] = out.end /\ wire'[x] = out.wire
        /\ Turn(x, Range(end[x].acks)) /\ FarGoes(x) /\ Alike(end[x].queue, end'[x].queue)
        /\ ~out.threw => chan'[x[1]] = chan[x[1]]
        /\ end'[x].full = g.full
        /\ \A q \in Peer \ {x[1]} : Untouched(q)
        /\ NobodyLeaves
    BY ZenonT(40), <1>2, <1>4, <1>5, <1>6, <1>7, <1>8, <2>2, <2>3, OutcomeTurns
  <2>6. NearGoes(x)
    <3> SUFFICES ASSUME x[2] = "near", NEW r
                 PROVE  Busy(out.end, chan'[x[1]], out.wire, r, media)
      BY <1>2, <1>10, <2>4 DEF NearGoes
    <3>1. CASE out.threw
      <4>1. out.end.on = 0
        BY <2>2, <3>1 DEF OpRel
      <4> QED  BY <4>1 DEF Busy, AttachedTo
    <3>2. CASE ~out.threw
      <4>1. ~out.end.recovering => Flows(out.end, out.wire, r, media)
        BY <2>2, <3>2, <1>4, <1>9
      <4> QED  BY <4>1 DEF Busy
    <3> QED  BY <2>2, <3>1, <3>2
  <2> QED  BY <1>2, <1>4, <2>4, <2>6 DEF Plain, FullGoes
<1> QED  BY <1>11, <1>12

\* Finishing a recovery, of an end that is there with an open channel
LEMMA FinishPlain ==
  ASSUME LinkTypes, media \in Nat, NEW x \in Place, EndFits(end[x], chan[x[1]]),
         NEW g \in End, Based(end[x], g), g.open = end[x].open, g.recovering = end[x].recovering,
         g.timed = end[x].timed, g.full = end[x].full, g.media = end[x].media, g.low = end[x].low,
         g.quiet = end[x].quiet,
         g.open, NEW out \in Finish(x, g), Outcome(x, out, FALSE), media' = media
  PROVE  Plain(x)
<1>1. x[1] \in Peer /\ Other(x) \in Place /\ Other(x)[1] = x[1]
  BY PlacesOf
<1>2. PICK e \in End : e = end[x]
  BY DEF LinkTypes
<1>3. PICK h : h = [g EXCEPT !.recovering = FALSE, !.timed = FALSE, !.attempt = 0]
  OBVIOUS
<1>4. PICK c : c = chan[x[1]]
  OBVIOUS
<1>5. PICK w \in Seq(Frame) : w = wire[x]
  BY DEF LinkTypes
<1>6. /\ out.end \in End /\ out.wire \in Seq(Frame) /\ out.threw \in BOOLEAN
      /\ OpRel(h, out.end, w, out.wire, out.threw, c)
      /\ ~out.threw /\ ~g.recovering /\ ~g.timed => out.end.quiet = g.quiet
      /\ x[2] = "near" /\ ~out.threw /\ g.here /\ g.open /\ g.on = c.gen =>
           \A r : (g.recovering \/ g.timed \/ Flows(g, w, r, media)) => Flows(out.end, out.wire, r, media)
  BY Zenon, <1>3, <1>4, <1>5, FinishOf
<1>7. h \in End /\ Based(g, h) /\ ~h.recovering /\ h.full = g.full /\ h.open = g.open
  BY <1>3 DEF End, Based
<1>8. Based(e, h)
  BY <1>2, <1>7 DEF Based
<1>9. /\ LinkTypes' /\ end'[x] = out.end /\ wire'[x] = out.wire
      /\ Turn(x, Range(end[x].acks)) /\ FarGoes(x) /\ Alike(end[x].queue, end'[x].queue)
      /\ ~out.threw => chan'[x[1]] = chan[x[1]]
      /\ end'[x].full = h.full
      /\ \A q \in Peer \ {x[1]} : Untouched(q)
      /\ NobodyLeaves
  BY ZenonT(40), <1>2, <1>4, <1>5, <1>6, <1>7, <1>8, OutcomeTurns
<1>10. NearGoes(x)
  <2> SUFFICES ASSUME x[2] = "near", NEW r, Busy(e, c, w, r, media),
                      chan'[x[1]].alive, AttachedTo(out.end, chan'[x[1]]), ~out.end.quiet
               PROVE  Flows(out.end, out.wire, r, media)
    BY <1>2, <1>4, <1>5, <1>9 DEF NearGoes, Busy
  <2>1. ~out.threw
    BY <1>6 DEF OpRel, AttachedTo
  <2>2. out.end.on = g.on /\ g.here /\ chan'[x[1]] = c
    BY <1>2, <1>4, <1>6, <1>7, <1>9, <2>1 DEF OpRel, Based, EndFits, AttachedTo
  <2>3. g.on = c.gen /\ c.alive /\ AttachedTo(e, c)
    BY <2>2, <1>2 DEF AttachedTo, Based
  <2>4. CASE g.recovering \/ g.timed
    BY <1>6, <2>1, <2>2, <2>3, <2>4
  <2>5. CASE ~g.recovering /\ ~g.timed
    <3>1. Flows(e, w, r, media)
      BY <1>2, <1>6, <2>1, <2>3, <2>5 DEF Busy
    <3>2. Frames(g) = Frames(e)
      BY <1>2, FramesSame DEF Based
    <3>3. Flows(g, w, r, media)
      BY <3>1, <3>2, <1>2 DEF Flows
    <3> QED  BY <1>6, <2>1, <2>2, <2>3, <3>3
  <2> QED  BY <2>4, <2>5
<1> QED  BY <1>2, <1>7, <1>9, <1>10 DEF Plain, FullGoes

\* An end that is given another value without any sending
LEMMA SimplyPlain ==
  ASSUME LinkTypes, NEW x \in Place, NEW g \in End, NEW closes \in BOOLEAN, Simply(x, g, closes),
         EndFits(end[x], chan[x[1]]),
         g.here = end[x].here, g.epoch = end[x].epoch, g.from = end[x].from,
         g.got = end[x].got, g.acks = end[x].acks, g.recovering => g.timed, g.due => end[x].due,
         \/ g.on = end[x].on /\ g.open = end[x].open /\ ~closes
         \/ /\ g.on = 0 \/ (g.on < chan[x[1]].gen /\ end[x].here)
            /\ ~g.open /\ (AttachedTo(end[x], chan[x[1]]) => closes),
         Alike(end[x].queue, g.queue), g.full => end[x].full \/ <<x[1], "flood">> \in spent',
         NobodyLeaves,
         g.open /\ ~g.recovering =>
           /\ ~end[x].recovering /\ media' = media
           /\ g.queue = end[x].queue /\ g.media = end[x].media /\ g.low = end[x].low
           /\ g.quiet = end[x].quiet
  PROVE  Plain(x)
<1>1. /\ LinkTypes' /\ end'[x] = g /\ wire'[x] = wire[x]
      /\ Turn(x, Range(end[x].acks)) /\ FarGoes(x)
      /\ ~closes => chan'[x[1]] = chan[x[1]] /\ wire'[Other(x)] = wire[Other(x)]
      /\ chan'[x[1]].alive => chan[x[1]].alive
      /\ \A q \in Peer \ {x[1]} : Untouched(q)
  BY SimplyTurns
<1>2. NearGoes(x)
  <2> SUFFICES ASSUME NEW r, Busy(end[x], chan[x[1]], wire[x], r, media)
               PROVE  Busy(g, chan'[x[1]], wire[x], r, media')
    BY <1>1 DEF NearGoes
  <2> SUFFICES ASSUME chan'[x[1]].alive, AttachedTo(g, chan'[x[1]]), g.open, ~g.recovering, ~g.quiet
               PROVE  Flows(g, wire[x], r, media')
    BY DEF Busy
  <2>1. g.on = end[x].on /\ g.open = end[x].open /\ chan'[x[1]] = chan[x[1]]
    BY <1>1 DEF AttachedTo
  <2>2. Flows(end[x], wire[x], r, media)
    BY <2>1 DEF Busy, AttachedTo
  <2>3. Frames(g) = Frames(end[x])
    BY FramesSame
  <2> QED  BY <2>2, <2>3 DEF Flows
<1> QED  BY <1>1, <1>2 DEF Plain, FullGoes

LEMMA ConnectedPlain ==
  ASSUME LinkTypes, media \in Nat, NEW x \in Place, EndFits(end[x], chan[x[1]]), Connected(x)
  PROVE  Plain(x)
<1>1. PICK e \in End : e = end[x]
  BY DEF LinkTypes
<1>2. PICK g : g = [e EXCEPT !.connected = TRUE]
  OBVIOUS
<1>3. /\ g \in End /\ Based(e, g) /\ g.open = e.open /\ g.recovering = e.recovering
      /\ g.timed = e.timed /\ g.full = e.full /\ g.media = e.media /\ g.low = e.low /\ g.queue = e.queue
      /\ g.quiet = e.quiet
  BY <1>2 DEF End, Based
<1>4. media' = media
  BY DEF Connected, Elsewhere, mineVars
<1>5. CASE g.open
  <2>1. PICK out \in Finish(x, g) : Outcome(x, out, FALSE)
    BY <1>1, <1>2, <1>5 DEF Connected
  <2> QED  BY <2>1, <1>1, <1>3, <1>4, <1>5, FinishPlain
<1>6. CASE ~g.open
  <2>1. PICK out : out = [end |-> g, wire |-> wire[x], threw |-> FALSE]
    OBVIOUS
  <2>2. Outcome(x, out, FALSE)
    BY <1>1, <1>2, <1>6, <2>1 DEF Connected
  <2>3. Simply(x, g, FALSE) /\ spent' = spent
    BY <2>1, <2>2 DEF Outcome, Simply
  <2>4. NobodyLeaves
    BY <2>3 DEF NobodyLeaves
  <2>5. Alike(e.queue, g.queue)
    BY <1>3, AlikeItself
  <2>6. g.recovering => g.timed
    BY <1>1, <1>3 DEF EndFits
  <2>7. g.open /\ ~g.recovering => ~e.recovering /\ media' = media
    BY <1>3, <1>4
  <2>9. /\ g.here = e.here /\ g.epoch = e.epoch /\ g.from = e.from /\ g.got = e.got /\ g.acks = e.acks
        /\ g.on = e.on /\ (g.due => e.due)
    BY <1>3 DEF Based
  <2> QED  BY <1>1, <1>3, <2>3, <2>4, <2>5, <2>6, <2>7, <2>9, SimplyPlain
<1> QED  BY <1>5, <1>6

LEMMA DisconnectedPlain ==
  ASSUME LinkTypes, NEW x \in Place, EndFits(end[x], chan[x[1]]), Disconnected(x)
  PROVE  Plain(x)
<1>1. PICK e \in End : e = end[x]
  BY DEF LinkTypes
<1>2. PICK g : g = [e EXCEPT !.connected = FALSE, !.recovering = TRUE, !.timed = TRUE]
  OBVIOUS
<1>3. /\ g \in End /\ g.here = e.here /\ g.epoch = e.epoch /\ g.from = e.from
      /\ g.got = e.got /\ g.acks = e.acks /\ g.on = e.on /\ g.open = e.open
      /\ g.recovering /\ g.timed /\ g.full = e.full /\ g.queue = e.queue /\ g.due = e.due
  BY <1>2 DEF End
<1>4. Alike(e.queue, g.queue)
  BY <1>3, AlikeItself
<1>5. Simply(x, g, FALSE)
  BY <1>1, <1>2 DEF Disconnected
<1>6. NobodyLeaves
  BY DEF Disconnected, Spend, NobodyLeaves
<1> QED  BY <1>1, <1>3, <1>4, <1>5, <1>6, SimplyPlain

LEMMA ClosesPlain ==
  ASSUME LinkTypes, NEW x \in Place, EndFits(end[x], chan[x[1]]), Closes(x)
  PROVE  Plain(x)
<1>1. PICK e \in End : e = end[x]
  BY DEF LinkTypes
<1>2. PICK h : h = Detach(e)
  OBVIOUS
<1>3. /\ h \in End /\ Same(e, h) /\ h.on = 0 /\ ~h.open
      /\ h.recovering = e.recovering /\ h.timed = e.timed /\ h.acks = e.acks /\ h.queue = e.queue
  BY <1>2, DetachOf
<1>4. PICK g : g = [h EXCEPT !.grace = "closed"]
  OBVIOUS
<1>5. /\ g \in End /\ g.here = h.here /\ g.epoch = h.epoch /\ g.from = h.from
      /\ g.got = h.got /\ g.acks = h.acks /\ g.on = h.on /\ g.open = h.open /\ g.grace = "closed"
      /\ g.recovering = h.recovering /\ g.timed = h.timed /\ g.full = h.full /\ g.queue = h.queue
      /\ g.due = h.due
  BY ZenonT(40), <1>3, <1>4 DEF End
<1>6. Alike(e.queue, g.queue) /\ (g.recovering => g.timed)
  BY <1>1, <1>3, <1>5, AlikeItself DEF EndFits
<1>7. PICK b \in BOOLEAN : b = AttachedTo(e, chan[x[1]])
  BY DEF AttachedTo
<1>8. Simply(x, g, b)
  BY <1>1, <1>2, <1>4, <1>7 DEF Closes, Attached, AttachedTo
<1>9. NobodyLeaves
  BY DEF Closes, NobodyLeaves
<1> QED  BY ZenonT(40), <1>1, <1>3, <1>5, <1>6, <1>7, <1>8, <1>9, SimplyPlain DEF Same

LEMMA CrossesPlain ==
  ASSUME LinkTypes, NEW x \in Place, EndFits(end[x], chan[x[1]]), Crosses(x)
  PROVE  Plain(x)
<1>1. PICK e \in End : e = end[x]
  BY DEF LinkTypes
<1>2. PICK c \in Channel : c = chan[x[1]]
  BY PlacesOf DEF LinkTypes
<1>3. e.here /\ e.due /\ EndFits(e, c)
  BY <1>1, <1>2 DEF Crosses
<1>4. PICK k \in Nat : k = c.gen - 1 /\ k # 0 /\ k < c.gen
  BY <1>3 DEF EndFits, Channel
<1>5. PICK h : h = Attach(e, k)
  OBVIOUS
<1>6. /\ h \in End /\ Same(e, h) /\ h.on = k /\ ~h.open
      /\ h.recovering = e.recovering /\ h.timed = e.timed /\ h.acks = e.acks
      /\ Alike(e.queue, h.queue)
  BY <1>5, AttachOf
<1>7. PICK g : g = [h EXCEPT !.due = FALSE]
  OBVIOUS
<1>8. /\ g \in End /\ g.here = h.here /\ g.epoch = h.epoch /\ g.from = h.from
      /\ g.got = h.got /\ g.acks = h.acks /\ g.on = h.on /\ g.open = h.open
      /\ g.recovering = h.recovering /\ g.timed = h.timed /\ g.full = h.full /\ g.queue = h.queue
      /\ ~g.due
  BY <1>6, <1>7 DEF End
<1>9. Alike(e.queue, g.queue) /\ (g.recovering => g.timed)
  BY <1>3, <1>6, <1>8 DEF EndFits
<1>10. g.here = e.here /\ g.epoch = e.epoch /\ g.from = e.from /\ g.got = e.got /\ g.full = e.full
  BY <1>6, <1>8 DEF Same
<1>11. Simply(x, g, TRUE)
  BY <1>1, <1>2, <1>4, <1>5, <1>7 DEF Crosses
<1>12. NobodyLeaves
  BY DEF Crosses, NobodyLeaves
<1> QED  BY ZenonT(40), <1>1, <1>2, <1>3, <1>4, <1>6, <1>8, <1>9, <1>10, <1>11, <1>12, SimplyPlain

LEMMA ErrsPlain ==
  ASSUME LinkTypes, NEW x \in Place, EndFits(end[x], chan[x[1]]), Errs(x)
  PROVE  Plain(x)
<1>1. PICK e \in End : e = end[x]
  BY DEF LinkTypes
<1>2. PICK g : g = [e EXCEPT !.grace = "error"]
  OBVIOUS
<1>3. /\ g \in End /\ g.here = e.here /\ g.epoch = e.epoch /\ g.from = e.from
      /\ g.got = e.got /\ g.acks = e.acks /\ g.on = e.on /\ g.open = e.open
      /\ g.recovering = e.recovering /\ g.timed = e.timed /\ g.full = e.full /\ g.queue = e.queue
      /\ g.media = e.media /\ g.low = e.low /\ g.due = e.due /\ g.quiet = e.quiet
  BY <1>2 DEF End
<1>4. e.on # 0
  BY <1>1 DEF Errs
<1>5. Alike(e.queue, g.queue) /\ (g.recovering => g.timed)
  BY <1>1, <1>3, <1>4, AlikeItself DEF EndFits
<1>6. Simply(x, g, FALSE)
  BY <1>1, <1>2 DEF Errs
<1>7. NobodyLeaves /\ media' = media
  BY DEF Errs, Spend, NobodyLeaves, Elsewhere, mineVars
<1> QED  BY <1>1, <1>3, <1>5, <1>6, <1>7, SimplyPlain

LEMMA GraceEndsPlain ==
  ASSUME LinkTypes, NEW x \in Place, EndFits(end[x], chan[x[1]]), GraceEnds(x)
  PROVE  Plain(x)
<1>1. PICK e \in End : e = end[x]
  BY DEF LinkTypes
<1>2. PICK h : h = Detach(e)
  OBVIOUS
<1>3. h \in End /\ Same(e, h) /\ h.on = 0 /\ ~h.open /\ h.acks = e.acks /\ h.queue = e.queue
  BY <1>2, DetachOf
<1>4. PICK g : g = Begin(h)
  OBVIOUS
<1>5. /\ g \in End /\ Same(h, g) /\ g.on = h.on /\ g.open = h.open
      /\ g.recovering /\ g.timed /\ g.acks = h.acks /\ g.queue = h.queue
  BY <1>3, <1>4, BeginOf
<1>6. Alike(e.queue, g.queue)
  BY <1>3, <1>5, AlikeItself
<1>7. PICK b \in BOOLEAN : b = (e.on # 0)
  OBVIOUS
<1>8. Simply(x, g, b) /\ (AttachedTo(e, chan[x[1]]) => b)
  BY <1>1, <1>2, <1>4, <1>7 DEF GraceEnds, AttachedTo
<1>9. NobodyLeaves
  BY DEF GraceEnds, NobodyLeaves
<1>10. /\ g.here = e.here /\ g.epoch = e.epoch /\ g.from = e.from /\ g.got = e.got
       /\ g.full = e.full /\ (g.due => e.due)
  BY <1>3, <1>5 DEF Same
<1> QED  BY <1>1, <1>3, <1>5, <1>6, <1>8, <1>9, <1>10, SimplyPlain

LEMMA FillWindowPlain ==
  ASSUME LinkTypes, NEW x \in Place, EndFits(end[x], chan[x[1]]), FillWindow(x)
  PROVE  Plain(x)
<1>1. PICK e \in End : e = end[x]
  BY DEF LinkTypes
<1>2. PICK g : g = [e EXCEPT !.full = TRUE]
  OBVIOUS
<1>3. /\ g \in End /\ g.here = e.here /\ g.epoch = e.epoch /\ g.from = e.from
      /\ g.got = e.got /\ g.acks = e.acks /\ g.on = e.on /\ g.open = e.open
      /\ g.recovering = e.recovering /\ g.timed = e.timed /\ g.queue = e.queue
      /\ g.media = e.media /\ g.low = e.low /\ g.due = e.due /\ g.quiet = e.quiet
  BY <1>2 DEF End
<1>4. Alike(e.queue, g.queue) /\ (g.recovering => g.timed)
  BY <1>1, <1>3, AlikeItself DEF EndFits
<1>5. Simply(x, g, FALSE)
  BY <1>1, <1>2 DEF FillWindow
<1>6. NobodyLeaves /\ media' = media /\ <<x[1], "flood">> \in spent'
  BY DEF FillWindow, Spend, NobodyLeaves, Elsewhere, mineVars
<1> QED  BY <1>1, <1>3, <1>4, <1>5, <1>6, SimplyPlain

LEMMA WindowEndsPlain ==
  ASSUME LinkTypes, NEW x \in Place, EndFits(end[x], chan[x[1]]), WindowEnds(x)
  PROVE  Plain(x)
<1>1. PICK e \in End : e = end[x]
  BY DEF LinkTypes
<1>2. PICK g : g = [e EXCEPT !.full = FALSE]
  OBVIOUS
<1>3. /\ g \in End /\ g.here = e.here /\ g.epoch = e.epoch /\ g.from = e.from
      /\ g.got = e.got /\ g.acks = e.acks /\ g.on = e.on /\ g.open = e.open
      /\ g.recovering = e.recovering /\ g.timed = e.timed /\ g.queue = e.queue
      /\ g.media = e.media /\ g.low = e.low /\ g.due = e.due /\ g.quiet = e.quiet /\ ~g.full
  BY <1>2 DEF End
<1>4. Alike(e.queue, g.queue) /\ (g.recovering => g.timed)
  BY <1>1, <1>3, AlikeItself DEF EndFits
<1>5. Simply(x, g, FALSE)
  BY <1>1, <1>2 DEF WindowEnds
<1>6. NobodyLeaves /\ media' = media
  BY DEF WindowEnds, NobodyLeaves, Elsewhere, mineVars
<1> QED  BY <1>1, <1>3, <1>4, <1>5, <1>6, SimplyPlain

\* Whatever was to be said before a flush is under way after it.
LEMMA FlushGoes ==
  ASSUME NEW g \in End, NEW f \in End, NEW w, NEW v, NEW t \in BOOLEAN, NEW c, NEW d,
         FlushRel(g, f, w, v, t, c), EndFits(g, c), d.gen = c.gen, d.alive => c.alive
  PROVE  \A r : \A u \in Nat :
           (c.alive /\ AttachedTo(g, c) /\ g.open /\ ~g.recovering /\ ~g.quiet => Tells(g.media, w, r, u))
             => Busy(f, d, v, r, u)
<1>1. CASE t
  <2>1. f.on = 0
    BY <1>1 DEF FlushRel
  <2> QED  BY <2>1 DEF Busy, AttachedTo
<1>2. CASE ~t
  <2>1. /\ f.on = g.on /\ f.open = g.open /\ f.grace = g.grace
        /\ f.recovering = g.recovering /\ f.quiet = g.quiet
    BY <1>2 DEF FlushRel, Same
  <2>2. ASSUME NEW r, NEW u \in Nat,
               c.alive /\ AttachedTo(g, c) /\ g.open /\ ~g.recovering /\ ~g.quiet => Tells(g.media, w, r, u),
               d.alive, AttachedTo(f, d), f.open, ~f.recovering, ~f.quiet
        PROVE  Flows(f, v, r, u)
    <3>1. c.alive /\ AttachedTo(g, c) /\ g.open /\ ~g.recovering /\ ~g.quiet
      BY <2>1, <2>2 DEF AttachedTo
    <3>2. g.here /\ g.on = c.gen
      BY <3>1 DEF EndFits, AttachedTo
    <3>3. Tells(g.media, w, r, u)
      BY <2>2, <3>1
    <3>4. /\ Frames(f) = <<>> \/ Len(v) > Low
          /\ Tells(g.media, w, r, u) => Tells(f.media, v, r, u)
      BY <1>2, <3>1, <3>2 DEF FlushRel
    <3> QED  BY <3>3, <3>4 DEF Flows
  <2> QED  BY <2>2 DEF Busy
<1> QED  BY <1>1, <1>2

LEMMA BufferLowPlain ==
  ASSUME LinkTypes, media \in Nat, NEW x \in Place, EndFits(end[x], chan[x[1]]), BufferLow(x)
  PROVE  Plain(x)
<1>1. PICK e \in End : e = end[x]
  BY DEF LinkTypes
<1>2. PICK g : g = [e EXCEPT !.low = FALSE]
  OBVIOUS
<1>3. /\ g \in End /\ Based(e, g) /\ g.open = e.open /\ g.recovering = e.recovering
      /\ g.timed = e.timed /\ g.full = e.full /\ g.media = e.media /\ g.quiet = e.quiet
  BY <1>2 DEF End, Based
<1>4. media' = media
  BY DEF BufferLow, Elsewhere, mineVars
<1>5. PICK w \in Seq(Frame) : w = wire[x]
  BY DEF LinkTypes
<1>6. PICK out \in Flushed(x, g, w) : Outcome(x, out, FALSE)
  BY <1>1, <1>2, <1>5 DEF BufferLow
<1>7. PICK c : c = chan[x[1]]
  OBVIOUS
<1>8. /\ out.end \in End /\ out.wire \in Seq(Frame) /\ out.threw \in BOOLEAN
      /\ FlushRel(g, out.end, w, out.wire, out.threw, c)
  BY <1>3, <1>6, <1>7, FlushedOf
<1>9. OpRel(g, out.end, w, out.wire, out.threw, c)
  BY <1>8, FlushIsOp
<1>10. EndFits(g, c)
  BY <1>1, <1>3, <1>7 DEF EndFits, Based
<1>11. /\ LinkTypes' /\ end'[x] = out.end /\ wire'[x] = out.wire
       /\ Turn(x, Range(end[x].acks)) /\ FarGoes(x) /\ Alike(end[x].queue, end'[x].queue)
       /\ ~out.threw => chan'[x[1]] = chan[x[1]]
       /\ chan'[x[1]].alive => chan[x[1]].alive
       /\ end'[x].full = g.full
       /\ \A q \in Peer \ {x[1]} : Untouched(q)
       /\ NobodyLeaves
  <2>1. g.recovering => g.timed
    BY <1>10 DEF EndFits
  <2> QED  BY <1>1, <1>3, <1>5, <1>6, <1>7, <1>8, <1>9, <2>1, OutcomeTurns
<1>12. NearGoes(x)
  <2>1. PICK d : d = chan'[x[1]]
    OBVIOUS
  <2>2. d.gen = c.gen /\ (d.alive => c.alive)
    BY <1>7, <1>11, <2>1 DEF Turn, EndMove
  <2>3. PICK f \in End : f = out.end
    BY <1>8
  <2>4. PICK v : v = out.wire
    OBVIOUS
  <2>5. PICK t \in BOOLEAN : t = out.threw
    BY <1>8
  <2>6. FlushRel(g, f, w, v, t, c)
    BY <1>8, <2>3, <2>4, <2>5
  <2>7. \A r : \A u \in Nat :
          (c.alive /\ AttachedTo(g, c) /\ g.open /\ ~g.recovering /\ ~g.quiet => Tells(g.media, w, r, u))
            => Busy(f, d, v, r, u)
    BY <1>3, <1>10, <2>2, <2>6, FlushGoes
  <2>9. ASSUME NEW r, Busy(e, c, w, r, media) PROVE Busy(f, d, v, r, media)
    <3>1. c.alive /\ AttachedTo(g, c) /\ g.open /\ ~g.recovering /\ ~g.quiet => Tells(g.media, w, r, media)
      BY <2>9, <1>3 DEF Busy, Flows, Based, AttachedTo
    <3> QED  BY <3>1, <2>7
  <2> QED  BY <1>1, <1>4, <1>5, <1>7, <1>11, <2>1, <2>3, <2>4, <2>7, <2>9 DEF NearGoes
<1> QED  BY <1>1, <1>3, <1>11, <1>12 DEF Plain, FullGoes

\* The timer of an end that runs out, but for the last time
LEMMA TimerPlain ==
  ASSUME LinkTypes, media \in Nat, NEW x \in Place, EndFits(end[x], chan[x[1]]), media' = media,
         \/ end[x].open /\ \E out \in Finish(x, end[x]) : Outcome(x, out, FALSE)
         \/ Spend(<<x[1], "early">>) /\ Simply(x, Replaced(end[x]), TRUE)
  PROVE  Plain(x)
<1>1. PICK e \in End : e = end[x]
  BY DEF LinkTypes
<1>2. ASSUME e.open, NEW out \in Finish(x, e), Outcome(x, out, FALSE) PROVE Plain(x)
  BY <1>1, <1>2, FinishPlain DEF Based
<1>3. ASSUME Spend(<<x[1], "early">>), Simply(x, Replaced(e), TRUE) PROVE Plain(x)
  <2>1. PICK g : g = Replaced(e)
    OBVIOUS
  <2>2. /\ g \in End /\ Same(e, g) /\ g.on = 0 /\ ~g.open
        /\ g.recovering /\ g.timed /\ g.acks = e.acks /\ g.queue = e.queue
    BY <2>1, ReplacedOf
  <2>3. Alike(e.queue, g.queue)
    BY <2>2, AlikeItself
  <2>4. NobodyLeaves
    BY <1>3 DEF Spend, NobodyLeaves
  <2>5. Simply(x, g, TRUE) /\ TRUE \in BOOLEAN
    BY <1>3, <2>1
  <2>6. /\ g.here = e.here /\ g.epoch = e.epoch /\ g.from = e.from /\ g.got = e.got /\ g.full = e.full
        /\ (g.due => e.due)
    BY <2>2 DEF Same
  <2> QED  BY <1>1, <2>2, <2>3, <2>4, <2>5, <2>6, SimplyPlain
<1> QED  BY <1>1, <1>2, <1>3

-----------------------------------------------------------------------------
(* Reading                                                                 *)

LEMMA SaysLess ==
  ASSUME NEW w \in Seq(Frame), w # <<>>, NEW r, NEW r1, NEW u, Says(w, r, u),
         Head(w).type = "participant.media" => r1 = Head(w).id,
         Head(w).type # "participant.media" => r1 = r
  PROVE  Says(Tail(w), r1, u)
<1>1. PICK t \in Seq(Frame) : t = Tail(w)
  BY TailOf
<1>2. PICK n \in Nat : n = Len(t)
  BY SMT
<1>3. Len(w) = n + 1 /\ Head(w) = w[1] /\ \A i \in 1..n : t[i] = w[i + 1]
  <2>1. /\ Len(w) \in Nat /\ Len(t) = Len(w) - 1
        /\ Head(w) = w[1] /\ \A i \in 1..Len(t) : t[i] = w[i + 1]
    BY <1>1, TailOf
  <2> QED  BY <2>1, <1>2
<1>4. ASSUME NEW i \in 1..n, t[i].type = "participant.media",
             \A j \in (i + 1)..n : t[j].type # "participant.media"
      PROVE t[i].id = u
  <2>1. i + 1 \in 1..(n + 1) /\ w[i + 1] = t[i]
    BY <1>3
  <2>2. \A j \in ((i + 1) + 1)..(n + 1) : w[j].type # "participant.media"
    <3> SUFFICES ASSUME NEW j \in ((i + 1) + 1)..(n + 1) PROVE w[j].type # "participant.media"
      OBVIOUS
    <3>1. j - 1 \in (i + 1)..n /\ j - 1 \in 1..n /\ (j - 1) + 1 = j
      OBVIOUS
    <3>2. t[j - 1] = w[(j - 1) + 1]
      BY <3>1, <1>3
    <3> QED  BY <3>1, <3>2, <1>4
  <2> QED  BY <2>1, <2>2, <1>3, <1>4 DEF Says
<1>5. ASSUME \A i \in 1..n : t[i].type # "participant.media" PROVE r1 = u
  <2>1. ASSUME NEW j \in 2..(n + 1) PROVE w[j].type # "participant.media"
    <3>1. j - 1 \in 1..n /\ (j - 1) + 1 = j
      OBVIOUS
    <3>2. t[j - 1] = w[(j - 1) + 1]
      BY <3>1, <1>3
    <3> QED  BY <3>1, <3>2, <1>5
  <2>2. CASE Head(w).type = "participant.media"
    <3>1. 1 \in 1..(n + 1) /\ \A j \in (1 + 1)..(n + 1) : w[j].type # "participant.media"
      BY <2>1
    <3> QED  BY <3>1, <2>2, <1>3 DEF Says
  <2>3. CASE Head(w).type # "participant.media"
    <3>1. \A j \in 1..(n + 1) : j = 1 \/ j \in 2..(n + 1)
      OBVIOUS
    <3>2. \A j \in 1..(n + 1) : w[j].type # "participant.media"
      BY <3>1, <2>1, <2>3, <1>3
    <3> QED  BY <3>2, <2>3, <1>3 DEF Says
  <2> QED  BY <2>2, <2>3
<1> QED  BY <1>1, <1>2, <1>4, <1>5 DEF Says

\* What flows still flows when the far end has read a frame.
LEMMA ReadGoes ==
  ASSUME NEW w \in Seq(Frame), w # <<>>, NEW n, NEW n1, NEW c, NEW d, NEW r, NEW r1, NEW u \in Nat,
         Busy(n, c, w, r, u), LowOnly(n, n1), Frames(n1) = Frames(n),
         Len(Tail(w)) = Low /\ AttachedTo(n, c) => n1.low,
         Head(w).type = "participant.media" => r1 = Head(w).id,
         Head(w).type # "participant.media" => r1 = r,
         d.alive => c.alive, d.gen = c.gen
  PROVE  Busy(n1, d, Tail(w), r1, u)
<1> SUFFICES ASSUME d.alive, AttachedTo(n1, d), n1.open, ~n1.recovering, ~n1.quiet
             PROVE  Flows(n1, Tail(w), r1, u)
  BY DEF Busy
<1>1. /\ c.alive /\ AttachedTo(n, c) /\ n.open /\ ~n.recovering /\ ~n.quiet
      /\ n1.media = n.media
  BY DEF AttachedTo, LowOnly
<1>2. Flows(n, w, r, u)
  BY <1>1 DEF Busy
<1>3. Tells(n1.media, Tail(w), r1, u)
  <2>1. CASE n.media = u
    BY <2>1, <1>1 DEF Tells
  <2>2. CASE n.media = None /\ Says(w, r, u)
    <3>1. Says(Tail(w), r1, u)
      BY <2>2, SaysLess
    <3> QED  BY <3>1, <2>2, <1>1 DEF Tells
  <2> QED  BY <2>1, <2>2, <1>2 DEF Flows, Tells
<1>4. Frames(n) = <<>> \/ Len(Tail(w)) > Low \/ n1.low
  <2>1. Len(w) \in Nat /\ Len(Tail(w)) = Len(w) - 1
    BY TailOf
  <2>2. Low \in Int
    BY ChatAssumption
  <2>3. Len(w) > Low => Len(Tail(w)) > Low \/ Len(Tail(w)) = Low
    <3>1. PICK a \in Nat : a = Len(w)
      BY Zenon, <2>1
    <3>2. Len(Tail(w)) = a - 1 /\ a - 1 \in Int
      BY <2>1, <3>1
    <3>3. PICK b \in Int : b = Len(Tail(w)) /\ b = a - 1
      BY <3>2, Zenon
    <3>4. PICK l \in Int : l = Low
      BY <2>2
    <3>5. a > l => b > l \/ b = l
      BY <3>3
    <3> QED  BY <3>1, <3>3, <3>4, <3>5
  <2> QED  BY <2>3, <1>1, <1>2 DEF Flows, LowOnly
<1> QED  BY <1>3, <1>4 DEF Flows

\* As long as the messages of the near end flow they go on flowing.
Telling(p) ==
  \A u \in Nat : Busy(end[<<p, "near">>], chan[p], wire[<<p, "near">>], remote[p], u)
                   => Busy(end'[<<p, "near">>], chan'[p], wire'[<<p, "near">>], remote'[p], u)

\* An end that reads: what it makes of itself is g, and it may answer.
LEMMA NotedTurns ==
  ASSUME LinkTypes, NEW x \in Place, NEW g \in End, wire[Other(x)] # <<>>, Noted(x, g),
         EndFits(end[x], chan[x[1]]), NEW A,
         g.here = end[x].here, g.epoch = end[x].epoch, g.from = end[x].from,
         g.on = end[x].on, g.open = end[x].open, g.recovering = end[x].recovering,
         g.timed = end[x].timed, g.full = end[x].full, g.due => end[x].due,
         Range(g.acks) \subseteq A, Range(g.got) \subseteq Range(end[x].got) \cup A
  PROVE  /\ LinkTypes' /\ end'[x] = g /\ wire'[x] = wire[x] /\ chan' = chan
         /\ Turn(x, A) /\ FullGoes(x)
         /\ wire'[Other(x)] = Tail(wire[Other(x)])
         /\ (Len(wire'[Other(x)]) = Low /\ Attached(Other(x))) => end'[Other(x)].low
         /\ \A q \in Peer \ {x[1]} : Untouched(q)
         /\ NobodyLeaves
<1>1. x[1] \in Peer /\ Other(x) \in Place
  BY PlacesOf
<1>2. /\ LinkTypes' /\ end'[x] = g /\ wire'[x] = wire[x] /\ chan' = chan /\ spent' = spent
      /\ LowOnly(end[Other(x)], end'[Other(x)])
      /\ Frames(end'[Other(x)]) = Frames(end[Other(x)])
      /\ wire'[Other(x)] = Tail(wire[Other(x)])
      /\ (Len(wire'[Other(x)]) = Low /\ Attached(Other(x))) => end'[Other(x)].low
      /\ \A q \in Peer \ {x[1]} : Untouched(q)
  BY NotedOf
<1>3. Range(wire'[Other(x)]) \subseteq Range(wire[Other(x)])
  <2>1. PICK w \in Seq(Frame) : w = wire[Other(x)]
    BY <1>1 DEF LinkTypes
  <2>2. Range(w) = {Head(w)} \cup Range(Tail(w))
    BY <2>1, TailOf
  <2> QED  BY <2>1, <2>2, <1>2
<1>4. EndMove(end[x], end'[x], AttachedTo(end[Other(x)], chan[x[1]]), chan[x[1]], chan'[x[1]],
              wire[x], wire'[x], A)
  <2>1. Brings(wire[x], wire[x], A, Ids(g.queue))
    BY DEF Brings
  <2>2. (end[x].recovering => end[x].timed) => (g.recovering => g.timed)
    OBVIOUS
  <2> QED  BY <1>2, <2>1, <2>2 DEF EndMove
<1>5. NobodyLeaves /\ FullGoes(x)
  BY <1>2 DEF NobodyLeaves, FullGoes
<1> QED  BY <1>2, <1>3, <1>4, <1>5 DEF Turn

\* What a step of the end x is in any case
Half(x, A) ==
  /\ LinkTypes' /\ Turn(x, A) /\ FullGoes(x)
  /\ \A q \in Peer \ {x[1]} : Untouched(q)
  /\ NobodyLeaves

LEMMA PlainIsHalf == ASSUME NEW x, Plain(x) PROVE Half(x, Range(end[x].acks))
  BY DEF Plain, Half

LEMMA IgnoreTurns ==
  ASSUME LinkTypes, NEW x \in Place, EndFits(end[x], chan[x[1]]), Ignore(x)
  PROVE  /\ Half(x, Range(end[x].acks)) /\ end'[x] = end[x] /\ NearGoes(x)
         /\ end[x].full
<1>1. PICK g \in End : g = end[x]
  BY DEF LinkTypes
<1>2. Noted(x, g) /\ wire[Other(x)] # <<>> /\ end[x].full
  BY <1>1 DEF Ignore
<1>3. PICK A : A = Range(end[x].acks)
  OBVIOUS
<1>4. /\ LinkTypes' /\ end'[x] = g /\ wire'[x] = wire[x] /\ chan' = chan
      /\ Turn(x, A) /\ FullGoes(x)
      /\ \A q \in Peer \ {x[1]} : Untouched(q)
      /\ NobodyLeaves
  BY <1>1, <1>2, <1>3, NotedTurns
<1>5. media' = media
  BY DEF Ignore, Elsewhere, mineVars
<1>6. NearGoes(x)
  BY <1>1, <1>4, <1>5 DEF NearGoes
<1> QED  BY <1>1, <1>2, <1>3, <1>4, <1>6 DEF Half

\* The far end reads the first frame: the others still flow.
LEMMA TellingOf ==
  ASSUME LinkTypes, NEW p \in Peer, wire[<<p, "near">>] # <<>>,
         LowOnly(end[<<p, "near">>], end'[<<p, "near">>]),
         Frames(end'[<<p, "near">>]) = Frames(end[<<p, "near">>]),
         wire'[<<p, "near">>] = Tail(wire[<<p, "near">>]),
         (Len(wire'[<<p, "near">>]) = Low /\ Attached(<<p, "near">>)) => end'[<<p, "near">>].low,
         chan'[p] = chan[p],
         Head(wire[<<p, "near">>]).type = "participant.media" => remote'[p] = Head(wire[<<p, "near">>]).id,
         Head(wire[<<p, "near">>]).type # "participant.media" => remote'[p] = remote[p]
  PROVE  Telling(p)
<1> SUFFICES ASSUME NEW u \in Nat,
                    Busy(end[<<p, "near">>], chan[p], wire[<<p, "near">>], remote[p], u)
             PROVE  Busy(end'[<<p, "near">>], chan'[p], wire'[<<p, "near">>], remote'[p], u)
  BY DEF Telling
<1>1. PICK w \in Seq(Frame) : w = wire[<<p, "near">>]
  BY BothEnds DEF LinkTypes
<1>2. PICK n : n = end[<<p, "near">>]
  OBVIOUS
<1>3. PICK n1 : n1 = end'[<<p, "near">>]
  OBVIOUS
<1>4. PICK c : c = chan[p]
  OBVIOUS
<1>5. PICK r : r = remote[p]
  OBVIOUS
<1>6. PICK r1 : r1 = remote'[p]
  OBVIOUS
<1>7. /\ w # <<>> /\ Busy(n, c, w, r, u) /\ LowOnly(n, n1) /\ Frames(n1) = Frames(n)
      /\ Head(w).type = "participant.media" => r1 = Head(w).id
      /\ Head(w).type # "participant.media" => r1 = r
  BY <1>1, <1>2, <1>3, <1>4, <1>5, <1>6
<1>8. Len(Tail(w)) = Low /\ AttachedTo(n, c) => n1.low
  BY <1>1, <1>2, <1>3, <1>4, BothEnds DEF Attached, AttachedTo
<1>9. Busy(n1, c, Tail(w), r1, u)
  BY <1>7, <1>8, ReadGoes
<1> QED  BY <1>1, <1>3, <1>4, <1>6, <1>9

LEMMA ReadMediaTurns ==
  ASSUME LinkTypes, NEW p \in Peer, EndFits(end[<<p, "far">>], chan[p]), ReadMedia(p),
         remote \in [Peer -> Nat \cup {None}]
  PROVE  /\ Half(<<p, "far">>, Range(end[<<p, "far">>].acks)) /\ end'[<<p, "far">>] = end[<<p, "far">>]
         /\ Telling(p)
<1>1. PICK x \in Place : x = <<p, "far">>
  BY BothEnds
<1>2. x[1] = p /\ x[2] = "far" /\ Other(x) = <<p, "near">>
  BY <1>1, BothEnds
<1>3. PICK g \in End : g = end[x]
  BY DEF LinkTypes
<1>4. /\ Noted(x, g) /\ wire[Other(x)] # <<>> /\ Head(wire[Other(x)]).type = "participant.media"
      /\ remote' = [remote EXCEPT ![p] = Head(wire[<<p, "near">>]).id]
  BY <1>1, <1>2, <1>3 DEF ReadMedia, Arrives
<1>5. PICK A : A = Range(end[x].acks)
  OBVIOUS
<1>6. /\ LinkTypes' /\ end'[x] = g /\ wire'[x] = wire[x] /\ chan' = chan
      /\ Turn(x, A) /\ FullGoes(x)
      /\ wire'[Other(x)] = Tail(wire[Other(x)])
      /\ (Len(wire'[Other(x)]) = Low /\ Attached(Other(x))) => end'[Other(x)].low
      /\ \A q \in Peer \ {x[1]} : Untouched(q)
      /\ NobodyLeaves
  BY ZenonT(40), <1>1, <1>2, <1>3, <1>4, <1>5, NotedTurns
<1>7. remote'[p] = Head(wire[<<p, "near">>]).id
  BY <1>4
<1>8. /\ LowOnly(end[Other(x)], end'[Other(x)])
      /\ Frames(end'[Other(x)]) = Frames(end[Other(x)])
  BY <1>6 DEF Turn
<1>9. Telling(p)
  BY <1>2, <1>4, <1>6, <1>7, <1>8, TellingOf
<1> QED  BY <1>1, <1>3, <1>5, <1>6, <1>9 DEF Half

LEMMA LatestOf ==
  ASSUME NEW s \in Seq(Chat), NEW m \in Chat
  PROVE  Latest(Append(s, m)) \in Seq(Chat) /\ Range(Latest(Append(s, m))) \subseteq Range(s) \cup {m}
<1>1. PICK t \in Seq(Chat) : t = Append(s, m) /\ Range(t) = Range(s) \cup {m} /\ t # <<>>
  <2>1. Append(s, m) \in Seq(Chat) /\ Append(s, m) # <<>>
    OBVIOUS
  <2>2. Range(Append(s, m)) = Range(s) \cup {m}
    BY AppendsTo
  <2> QED  BY <2>1, <2>2
<1>2. Tail(t) \in Seq(Chat) /\ Range(Tail(t)) \subseteq Range(t)
  BY <1>1, TailOf
<1>3. Latest(t) = t \/ Latest(t) = Tail(t)
  BY DEF Latest
<1> QED  BY <1>1, <1>2, <1>3

LEMMA ReadChatTurns ==
  ASSUME LinkTypes, NEW p \in Peer, EndFits(end[<<p, "far">>], chan[p]), ReadChat(p),
         NEW m \in Chat, Head(wire[<<p, "near">>]).id = m
  PROVE  /\ Half(<<p, "far">>, Range(end[<<p, "far">>].acks) \cup {m})
         /\ Telling(p)
<1>1. PICK x \in Place : x = <<p, "far">>
  BY BothEnds
<1>2. x[1] = p /\ x[2] = "far" /\ Other(x) = <<p, "near">>
  BY <1>1, BothEnds
<1>3. PICK b \in End : b = end[x]
  BY DEF LinkTypes
<1>4. PICK known : known = (m \in Range(b.got))
  OBVIOUS
<1>5. PICK have : have = (m \in Range(b.acks) \/ Len(b.acks) >= MaxAcks)
  OBVIOUS
<1>6. PICK e : e = [b EXCEPT !.got = IF known THEN @ ELSE Latest(Append(@, m)),
                             !.acks = IF have THEN @ ELSE Append(@, m)]
  OBVIOUS
<1>7. /\ wire[Other(x)] # <<>> /\ Head(wire[Other(x)]).type = "chat.message"
      /\ IF m \in Range(e.acks) THEN Reading(x, e) ELSE Noted(x, e)
      /\ remote' = remote /\ AttachedTo(b, chan[p])
  <2>1. Arrives(x, "chat.message") /\ remote' = remote
    BY <1>1 DEF ReadChat
  <2>2. IF m \in Range(e.acks) THEN Reading(x, e) ELSE Noted(x, e)
    BY <1>1, <1>3, <1>4, <1>5, <1>6 DEF ReadChat
  <2> QED  BY <1>2, <1>3, <2>1, <2>2 DEF Arrives, Attached, AttachedTo
<1>8. PICK got \in Seq(Chat) : /\ got = IF known THEN b.got ELSE Latest(Append(b.got, m))
                               /\ Range(got) \subseteq Range(b.got) \cup {m}
  <2>1. PICK s \in Seq(Chat) : s = b.got
    BY DEF End
  <2>2. Latest(Append(s, m)) \in Seq(Chat) /\ Range(Latest(Append(s, m))) \subseteq Range(s) \cup {m}
    BY LatestOf
  <2>3. CASE known
    BY <2>1, <2>3
  <2>4. CASE ~known
    BY <2>1, <2>2, <2>4
  <2> QED  BY <2>3, <2>4
<1>9. PICK acks \in Seq(Chat) : /\ acks = IF have THEN b.acks ELSE Append(b.acks, m)
                                /\ Range(acks) \subseteq Range(b.acks) \cup {m}
  <2>1. PICK s \in Seq(Chat) : s = b.acks
    BY DEF End
  <2>2. Append(s, m) \in Seq(Chat) /\ Range(Append(s, m)) = Range(s) \cup {m}
    BY AppendsTo
  <2>3. CASE have
    BY <2>1, <2>3
  <2>4. CASE ~have
    BY <2>1, <2>2, <2>4
  <2> QED  BY <2>3, <2>4
<1>10. e = [b EXCEPT !.got = got, !.acks = acks]
  BY <1>6, <1>8, <1>9
<1>11. /\ e \in End
       /\ e.here = b.here /\ e.epoch = b.epoch /\ e.from = b.from
       /\ e.on = b.on /\ e.open = b.open /\ e.recovering = b.recovering
       /\ e.timed = b.timed /\ e.full = b.full /\ e.got = got /\ e.acks = acks
       /\ e.due = b.due
  BY <1>10 DEF End
<1>12. PICK A : A = Range(b.acks) \cup {m}
  OBVIOUS
<1>13. Range(e.acks) \subseteq A /\ Range(e.got) \subseteq Range(b.got) \cup A
  BY <1>8, <1>9, <1>11, <1>12
<1>14. CASE m \notin Range(e.acks)
  <2>1. Noted(x, e)
    BY <1>7, <1>14
  <2>2. /\ LinkTypes' /\ end'[x] = e /\ wire'[x] = wire[x] /\ chan' = chan
        /\ Turn(x, A) /\ FullGoes(x)
        /\ wire'[Other(x)] = Tail(wire[Other(x)])
        /\ (Len(wire'[Other(x)]) = Low /\ Attached(Other(x))) => end'[Other(x)].low
        /\ \A q \in Peer \ {x[1]} : Untouched(q)
        /\ NobodyLeaves
    BY ZenonT(40), <1>1, <1>2, <1>3, <1>7, <1>11, <1>13, <2>1, NotedTurns
  <2>3. /\ LowOnly(end[Other(x)], end'[Other(x)])
        /\ Frames(end'[Other(x)]) = Frames(end[Other(x)])
    BY <2>2 DEF Turn
  <2>4. Telling(p)
    BY <1>2, <1>7, <2>2, <2>3, TellingOf
  <2> QED  BY <1>1, <1>3, <1>12, <2>2, <2>4 DEF Half
<1>15. CASE m \in Range(e.acks)
  <2>1. Reading(x, e)
    BY <1>7, <1>15
  <2>2. PICK o \in Flushed(x, e, wire[x]) :
           /\ LinkTypes' /\ end'[x] = o.end /\ wire'[x] = o.wire
           /\ LowOnly(end[Other(x)], end'[Other(x)])
           /\ Frames(end'[Other(x)]) = Frames(end[Other(x)])
           /\ o.threw => wire'[Other(x)] = <<>>
           /\ ~o.threw => wire'[Other(x)] = Tail(wire[Other(x)]) /\ chan'[x[1]] = chan[x[1]]
           /\ (Len(wire'[Other(x)]) = Low /\ Attached(Other(x)) /\ ~o.threw) => end'[Other(x)].low
           /\ chan'[x[1]].gen = chan[x[1]].gen
           /\ chan'[x[1]].alive <=> chan[x[1]].alive /\ ~o.threw
           /\ spent' = IF o.threw THEN spent \cup {<<x[1], "throw">>} ELSE spent
           /\ \A q \in Peer \ {x[1]} : Untouched(q)
    BY <1>7, <1>11, <2>1, ReadingOf
  <2>3. PICK w \in Seq(Frame) : w = wire[x]
    BY DEF LinkTypes
  <2>4. PICK c \in Channel : c = chan[p]
    BY DEF LinkTypes
  <2>5. /\ o.end \in End /\ o.wire \in Seq(Frame) /\ o.threw \in BOOLEAN
        /\ FlushRel(e, o.end, w, o.wire, o.threw, c)
    BY <1>2, <1>11, <2>2, <2>3, <2>4, FlushedOf
  <2>6. PICK f \in End : f = o.end
    BY <2>5
  <2>7. PICK v : v = o.wire
    OBVIOUS
  <2>8. PICK t \in BOOLEAN : t = o.threw
    BY <2>5
  <2>9. FlushRel(e, f, w, v, t, c)
    BY <2>5, <2>6, <2>7, <2>8
  <2>10. Ids(f.queue) = Ids(e.queue)
    <3>1. e.queue \in Seq(Entry) /\ f.queue \in Seq(Entry) /\ Alike(e.queue, f.queue)
      BY <1>11, <2>9 DEF End, FlushRel
    <3> QED  BY <3>1, AlikeIds
  <2>11. Brings(w, v, A, Ids(f.queue))
    <3>1. Brings(w, v, Range(e.acks), Ids(e.queue))
      BY <2>9 DEF FlushRel
    <3> QED  BY <3>1, <2>10, <1>13 DEF Brings
  <2>12. PICK d \in Channel : d = chan'[p] /\ d.gen = c.gen /\ (d.alive <=> c.alive /\ ~t) /\ (~t => d = c)
    <3>1. chan'[p] \in Channel
      BY <2>2 DEF LinkTypes
    <3> QED  BY <3>1, <1>2, <2>2, <2>4, <2>8
  <2>13. ASSUME NEW z PROVE EndMove(b, f, z, c, d, w, v, A)
    <3>1. f.here = b.here /\ f.epoch = b.epoch /\ f.from = b.from /\ f.got = e.got /\ (f.due => b.due)
      BY <1>11, <2>9 DEF FlushRel, Same
    <3>2. \/ /\ f.on = b.on /\ (d.alive <=> c.alive)
             /\ f.open => b.open \/ (z /\ AttachedTo(b, c))
          \/ /\ f.on = 0 /\ ~f.open
             /\ d.alive => c.alive /\ ~AttachedTo(b, c)
      BY <1>11, <2>9, <2>12 DEF FlushRel
    <3>3. (b.recovering => b.timed) => (f.recovering => f.timed)
      BY <1>11, <2>9 DEF FlushRel
    <3>4. v # w => AttachedTo(b, c) /\ (b.open \/ z)
      BY <1>7, <1>11, <2>4, <2>9 DEF FlushRel
    <3>5. Range(f.acks) \subseteq A /\ Range(f.got) \subseteq Range(b.got) \cup A
      BY <1>13, <3>1, <2>9 DEF FlushRel
    <3> QED  BY <2>11, <2>12, <3>1, <3>2, <3>3, <3>4, <3>5 DEF EndMove
  <2>14. Range(wire'[Other(x)]) \subseteq Range(wire[Other(x)])
    <3>1. Range(<<>>) = {}
      BY DEF Range
    <3>2. PICK u \in Seq(Frame) : u = wire[Other(x)]
      BY PlacesOf DEF LinkTypes
    <3>3. Range(u) = {Head(u)} \cup Range(Tail(u))
      BY <1>7, <3>2, TailOf
    <3> QED  BY <2>2, <3>1, <3>2, <3>3
  <2>15. Turn(x, A)
    BY <1>2, <1>3, <2>2, <2>3, <2>4, <2>6, <2>7, <2>12, <2>13, <2>14 DEF Turn
  <2>16. NobodyLeaves
    BY <2>2 DEF NobodyLeaves
  <2>17. FullGoes(x)
    BY <1>3, <1>11, <2>2, <2>6, <2>9 DEF FullGoes, FlushRel, Same
  <2>18. Telling(p)
    <3>1. CASE t
      <4>1. ~chan'[p].alive
        BY <2>12, <3>1
      <4> QED  BY <4>1 DEF Telling, Busy
    <3>2. CASE ~t
      BY <1>2, <1>7, <2>2, <2>8, <3>2, TellingOf
    <3> QED  BY <3>1, <3>2
  <2> QED  BY <1>1, <1>3, <1>12, <2>2, <2>15, <2>16, <2>17, <2>18 DEF Half
<1> QED  BY <1>14, <1>15

LEMMA ReadAckTurns ==
  ASSUME LinkTypes, NEW p \in Peer, EndFits(end[<<p, "near">>], chan[p]), ReadAck(p),
         NEW T, Range(end[<<p, "near">>].queue)
                  \ {c \in Range(end[<<p, "near">>].queue) : c.ever /\ c.id = Head(wire[<<p, "far">>]).id} = T
  PROVE  /\ Half(<<p, "near">>, Range(end[<<p, "near">>].acks))
         /\ NearGoes(<<p, "near">>)
         /\ end'[<<p, "near">>].queue = Only(end[<<p, "near">>].queue, T)
         /\ end'[<<p, "near">>].here = end[<<p, "near">>].here
<1>1. PICK x \in Place : x = <<p, "near">>
  BY BothEnds
<1>2. x[1] = p /\ x[2] = "near" /\ Other(x) = <<p, "far">>
  BY <1>1, BothEnds
<1>3. PICK e \in End : e = end[x]
  BY DEF LinkTypes
<1>4. PICK q \in Seq(Entry) : q = e.queue
  BY DEF End
<1>5. PICK r \in Seq(Entry) : r = Only(q, T) /\ Range(r) = Range(q) \cap T
  <2>1. Only(q, T) \in Seq(Entry) /\ Range(Only(q, T)) = Range(q) \cap T
    BY OnlyPlaces
  <2> QED  BY <2>1
<1>6. PICK g : g = [e EXCEPT !.queue = r]
  OBVIOUS
<1>7. /\ g \in End
      /\ g.here = e.here /\ g.epoch = e.epoch /\ g.from = e.from /\ g.grace = e.grace
      /\ g.on = e.on /\ g.open = e.open /\ g.recovering = e.recovering
      /\ g.timed = e.timed /\ g.full = e.full /\ g.got = e.got /\ g.acks = e.acks
      /\ g.media = e.media /\ g.low = e.low /\ g.queue = r
      /\ g.due = e.due /\ g.quiet = e.quiet
  BY <1>6 DEF End
<1>8. wire[Other(x)] # <<>> /\ Noted(x, g) /\ media' = media
  <2>1. Noted(x, [e EXCEPT !.queue = Only(@, T)])
    BY <1>1, <1>3 DEF ReadAck
  <2>2. [e EXCEPT !.queue = Only(@, T)] = g
    BY <1>4, <1>5, <1>6
  <2> QED  BY <1>1, <2>1, <2>2 DEF ReadAck, Arrives, Resting, mineVars
<1>9. PICK A : A = Range(e.acks)
  OBVIOUS
<1>10. /\ g.here = end[x].here /\ g.epoch = end[x].epoch /\ g.from = end[x].from
       /\ g.on = end[x].on /\ g.open = end[x].open /\ g.recovering = end[x].recovering
       /\ g.timed = end[x].timed /\ g.full = end[x].full /\ (g.due => end[x].due)
       /\ Range(g.acks) \subseteq A /\ Range(g.got) \subseteq Range(end[x].got) \cup A
  BY <1>3, <1>7, <1>9
<1>11. EndFits(end[x], chan[x[1]])
  BY <1>1, <1>2
<1>12. /\ LinkTypes' /\ end'[x] = g /\ wire'[x] = wire[x] /\ chan' = chan
       /\ Turn(x, A) /\ FullGoes(x)
       /\ \A s \in Peer \ {x[1]} : Untouched(s)
       /\ NobodyLeaves
  BY <1>7, <1>8, <1>10, <1>11, NotedTurns
<1>13. Frames(e) = <<>> => Frames(g) = <<>>
  <2>1. \A c \in Range(g.queue) : c \in Range(e.queue)
    BY <1>4, <1>5, <1>7
  <2> QED  BY <2>1, <1>7, NothingToSend
<1>14. NearGoes(x)
  <2>1. ASSUME NEW s, Busy(e, chan[p], wire[x], s, media) PROVE Busy(g, chan[p], wire[x], s, media)
    BY <2>1, <1>7, <1>13 DEF Busy, Flows, AttachedTo
  <2> QED  BY <1>2, <1>3, <1>8, <1>12, <2>1 DEF NearGoes
<1> QED  BY <1>1, <1>3, <1>4, <1>5, <1>7, <1>9, <1>12, <1>14 DEF Half

-----------------------------------------------------------------------------
(* Sending                                                                 *)

\* g is e with other messages or media to send.
Prepared(e, g) ==
  /\ g.here = e.here /\ g.epoch = e.epoch /\ g.from = e.from /\ g.on = e.on
  /\ g.open = e.open /\ g.recovering = e.recovering /\ g.timed = e.timed
  /\ g.grace = e.grace /\ g.full = e.full /\ g.acks = e.acks /\ g.got = e.got
  /\ g.due = e.due

\* The channel c of e becomes d, which has ended where a send of e threw.
Ends(e, c, d, t) == d.gen = c.gen /\ (d.alive <=> c.alive /\ ~(t /\ AttachedTo(e, c)))

\* When g, made of e, becomes f, what was to be said is under way.
AllGoes(e, g, f, w, v, c, d) ==
  \A r : \A u \in Nat :
    (c.alive /\ AttachedTo(e, c) /\ e.open /\ ~e.recovering /\ ~g.quiet => Tells(g.media, w, r, u))
      => Busy(f, d, v, r, u)

\* What flushing g, made of e, comes to; t says whether a send threw.
Through(e, g, f, z, c, d, w, v, t) ==
  /\ EndMove(e, f, z, c, d, w, v, Range(e.acks)) /\ Alike(g.queue, f.queue) /\ f.full = e.full
  /\ AllGoes(e, g, f, w, v, c, d)

LEMMA FlushTurns ==
  ASSUME NEW e \in End, NEW g \in End, NEW f \in End, NEW z, NEW c \in Channel, NEW d \in Channel,
         NEW w, NEW v, NEW t \in BOOLEAN, Prepared(e, g), EndFits(e, c),
         FlushRel(g, f, w, v, t, c), Ends(e, c, d, t)
  PROVE  Through(e, g, f, z, c, d, w, v, t)
<1>1. EndFits(g, c) /\ (AttachedTo(g, c) <=> AttachedTo(e, c))
  BY DEF Prepared, EndFits, AttachedTo
<1>2. \A r : \A u \in Nat :
        (c.alive /\ AttachedTo(g, c) /\ g.open /\ ~g.recovering /\ ~g.quiet => Tells(g.media, w, r, u))
          => Busy(f, d, v, r, u)
  BY <1>1, FlushGoes DEF Ends
<1>3. ASSUME NEW r, NEW u \in Nat,
             c.alive /\ AttachedTo(e, c) /\ e.open /\ ~e.recovering /\ ~g.quiet => Tells(g.media, w, r, u)
      PROVE  Busy(f, d, v, r, u)
  BY <1>1, <1>2, <1>3 DEF Prepared
<1>4. Same(g, f) /\ Alike(g.queue, f.queue) /\ Range(f.acks) \subseteq Range(g.acks)
  BY DEF FlushRel
<1>5. Brings(w, v, Range(e.acks), Ids(f.queue))
  <2>1. g.queue \in Seq(Entry) /\ f.queue \in Seq(Entry)
    BY DEF End
  <2>2. Ids(f.queue) = Ids(g.queue)
    BY <2>1, <1>4, AlikeIds
  <2>3. Brings(w, v, Range(g.acks), Ids(g.queue))
    BY DEF FlushRel
  <2> QED  BY <2>2, <2>3 DEF Prepared
<1>6. /\ f.here = e.here /\ f.epoch = e.epoch /\ f.from = e.from /\ f.got = e.got /\ f.full = e.full
      /\ f.due => e.due
  BY <1>4 DEF Same, Prepared
<1>7. \/ /\ f.on = e.on /\ (d.alive <=> c.alive)
         /\ f.open => e.open \/ (z /\ AttachedTo(e, c))
      \/ /\ f.on = 0 /\ ~f.open
         /\ d.alive => c.alive /\ ~AttachedTo(e, c)
  BY DEF FlushRel, Prepared, Ends
<1>8. (e.recovering => e.timed) => (f.recovering => f.timed)
  BY DEF FlushRel, Prepared
<1>9. v # w => AttachedTo(e, c) /\ (e.open \/ z)
  BY DEF FlushRel, Prepared, EndFits, AttachedTo
<1>10. EndMove(e, f, z, c, d, w, v, Range(e.acks))
  BY <1>4, <1>5, <1>6, <1>7, <1>8, <1>9 DEF EndMove, Prepared, Ends
<1>11. AllGoes(e, g, f, w, v, c, d)
  BY <1>3 DEF AllGoes
<1> QED  BY <1>1, <1>2, <1>4, <1>6, <1>10, <1>11 DEF Through

LEMMA FlushAllTurns ==
  ASSUME LinkTypes, NEW D \in SUBSET Peer, NEW ready \in [D -> End], NEW happened,
         FlushAll(ready, happened), \A d \in happened : d[2] # "leave",
         \A p \in D : EndFits(end[<<p, "near">>], chan[p]) /\ Prepared(end[<<p, "near">>], ready[p])
  PROVE  /\ LinkTypes' /\ NobodyLeaves
         /\ \A p \in Peer \ D : Untouched(p)
         /\ \A p \in D :
              /\ Turn(<<p, "near">>, Range(end[<<p, "near">>].acks))
              /\ Alike(ready[p].queue, end'[<<p, "near">>].queue)
              /\ FullGoes(<<p, "near">>)
              /\ AllGoes(end[<<p, "near">>], ready[p], end'[<<p, "near">>],
                         wire[<<p, "near">>], wire'[<<p, "near">>], chan[p], chan'[p])
<1>1. /\ LinkTypes'
      /\ \A p \in D : \E o \in Flushed(<<p, "near">>, ready[p], wire[<<p, "near">>]) :
              /\ end'[<<p, "near">>] = o.end /\ wire'[<<p, "near">>] = o.wire
              /\ end'[<<p, "far">>] = end[<<p, "far">>]
              /\ o.threw => wire'[<<p, "far">>] = <<>>
              /\ ~o.threw => wire'[<<p, "far">>] = wire[<<p, "far">>]
              /\ chan'[p].gen = chan[p].gen
              /\ chan'[p].alive <=> chan[p].alive /\ ~(o.threw /\ Attached(<<p, "near">>))
      /\ \A p \in Peer \ D : Untouched(p)
      /\ spent \subseteq spent'
      /\ \A d \in spent' : d \in spent \/ d \in happened \/ d[2] = "throw"
  BY FlushAllOf
<1>2. NobodyLeaves
  BY <1>1 DEF NobodyLeaves
<1>3. ASSUME NEW p \in D
      PROVE  /\ Turn(<<p, "near">>, Range(end[<<p, "near">>].acks))
             /\ Alike(ready[p].queue, end'[<<p, "near">>].queue)
             /\ FullGoes(<<p, "near">>)
             /\ AllGoes(end[<<p, "near">>], ready[p], end'[<<p, "near">>],
                        wire[<<p, "near">>], wire'[<<p, "near">>], chan[p], chan'[p])
  <2>1. PICK x \in Place : x = <<p, "near">>
    BY BothEnds
  <2>2. x[1] = p /\ Other(x) = <<p, "far">> /\ p \in Peer /\ Other(x) \in Place
    BY <2>1, BothEnds
  <2>3. PICK e \in End : e = end[x]
    BY DEF LinkTypes
  <2>4. PICK g \in End : g = ready[p]
    OBVIOUS
  <2>5. PICK c \in Channel : c = chan[p]
    BY DEF LinkTypes
  <2>6. PICK w \in Seq(Frame) : w = wire[x]
    BY DEF LinkTypes
  <2>7. PICK o \in Flushed(x, g, w) :
          /\ end'[x] = o.end /\ wire'[x] = o.wire
          /\ end'[Other(x)] = end[Other(x)]
          /\ o.threw => wire'[Other(x)] = <<>>
          /\ ~o.threw => wire'[Other(x)] = wire[Other(x)]
          /\ chan'[p].gen = chan[p].gen
          /\ chan'[p].alive <=> chan[p].alive /\ ~(o.threw /\ Attached(x))
    BY <1>1, <2>1, <2>2, <2>4, <2>6
  <2>8. /\ o.end \in End /\ o.wire \in Seq(Frame) /\ o.threw \in BOOLEAN
        /\ FlushRel(g, o.end, w, o.wire, o.threw, c)
    BY <2>2, <2>5, <2>7, FlushedOf
  <2>9. PICK f \in End : f = o.end
    BY <2>8
  <2>10. PICK v : v = o.wire
    OBVIOUS
  <2>11. PICK t \in BOOLEAN : t = o.threw
    BY <2>8
  <2>12. PICK d \in Channel : d = chan'[p]
    BY <1>1, <2>2 DEF LinkTypes
  <2>13. PICK z : z = AttachedTo(end[Other(x)], chan[x[1]])
    OBVIOUS
  <2>14. FlushRel(g, f, w, v, t, c) /\ Prepared(e, g) /\ EndFits(e, c)
    BY <2>1, <2>3, <2>4, <2>5, <2>8, <2>9, <2>10, <2>11
  <2>15. Ends(e, c, d, t)
    BY <2>2, <2>3, <2>5, <2>7, <2>11, <2>12 DEF Attached, AttachedTo, Ends
  <2>16. /\ EndMove(e, f, z, c, d, w, v, Range(e.acks)) /\ Alike(g.queue, f.queue) /\ f.full = e.full
         /\ AllGoes(e, g, f, w, v, c, d)
    <3>1. Through(e, g, f, z, c, d, w, v, t)
      BY <2>14, <2>15, FlushTurns
    <3> QED  BY <3>1, Zenon DEF Through
  <2>17. LowOnly(end[Other(x)], end'[Other(x)]) /\ Frames(end'[Other(x)]) = Frames(end[Other(x)])
    BY <2>7 DEF LowOnly, Same
  <2>18. Range(wire'[Other(x)]) \subseteq Range(wire[Other(x)])
    <3>1. Range(<<>>) = {}
      BY DEF Range
    <3> QED  BY <3>1, <2>7, <2>11
  <2>19. Turn(x, Range(e.acks))
    BY <2>2, <2>3, <2>5, <2>6, <2>7, <2>9, <2>10, <2>12, <2>13, <2>16, <2>17, <2>18 DEF Turn
  <2>20. FullGoes(x)
    BY <2>3, <2>7, <2>9, <2>16 DEF FullGoes
  <2>21. /\ Alike(ready[p].queue, end'[x].queue)
         /\ AllGoes(end[x], ready[p], end'[x], wire[x], wire'[x], chan[p], chan'[p])
    BY <2>3, <2>4, <2>5, <2>6, <2>7, <2>9, <2>10, <2>12, <2>16
  <2> QED  BY <2>1, <2>3, <2>19, <2>20, <2>21
<1> QED  BY <1>1, <1>2, <1>3

LEMMA ExpireTurns ==
  ASSUME LinkTypes, NEW p \in Peer, EndFits(end[<<p, "near">>], chan[p]), NEW m, Expire(p, m),
         NEW T, {c \in Range(end[<<p, "near">>].queue) : c.id # m} = T
  PROVE  /\ Half(<<p, "near">>, Range(end[<<p, "near">>].acks))
         /\ NearGoes(<<p, "near">>)
         /\ end'[<<p, "near">>].queue = Only(end[<<p, "near">>].queue, T)
         /\ end'[<<p, "near">>].here = end[<<p, "near">>].here
<1>1. PICK x \in Place : x = <<p, "near">>
  BY BothEnds
<1>2. x[1] = p /\ x[2] = "near" /\ Other(x) = <<p, "far">>
  BY <1>1, BothEnds
<1>3. PICK e \in End : e = end[x]
  BY DEF LinkTypes
<1>4. PICK q \in Seq(Entry) : q = e.queue
  BY DEF End
<1>5. PICK r \in Seq(Entry) : r = Only(q, T) /\ Range(r) = Range(q) \cap T
  <2>1. Only(q, T) \in Seq(Entry) /\ Range(Only(q, T)) = Range(q) \cap T
    BY OnlyPlaces
  <2> QED  BY <2>1
<1>6. PICK g : g = [e EXCEPT !.queue = r]
  OBVIOUS
<1>7. /\ g \in End
      /\ g.here = e.here /\ g.epoch = e.epoch /\ g.from = e.from /\ g.grace = e.grace
      /\ g.on = e.on /\ g.open = e.open /\ g.recovering = e.recovering
      /\ g.timed = e.timed /\ g.full = e.full /\ g.got = e.got /\ g.acks = e.acks
      /\ g.media = e.media /\ g.low = e.low /\ g.queue = r
      /\ g.due = e.due /\ g.quiet = e.quiet
  BY <1>6 DEF End
<1>8. Simply(x, g, FALSE) /\ media' = media /\ spent' = spent
  <2>1. Simply(x, [e EXCEPT !.queue = Only(@, T)], FALSE)
    BY <1>1, <1>3 DEF Expire
  <2>2. [e EXCEPT !.queue = Only(@, T)] = g
    BY <1>4, <1>5, <1>6
  <2> QED  BY <2>1, <2>2 DEF Expire, Resting, mineVars
<1>9. EndFits(e, chan[p]) /\ EndFits(end[x], chan[x[1]])
  BY <1>1, <1>2, <1>3
<1>10. /\ LinkTypes' /\ end'[x] = g /\ wire'[x] = wire[x]
       /\ Turn(x, Range(end[x].acks))
       /\ chan'[x[1]] = chan[x[1]]
       /\ \A s \in Peer \ {x[1]} : Untouched(s)
  <2>1. /\ g.here = end[x].here /\ g.epoch = end[x].epoch /\ g.from = end[x].from
        /\ g.got = end[x].got /\ g.acks = end[x].acks /\ (g.recovering => g.timed)
        /\ g.on = end[x].on /\ g.open = end[x].open /\ (g.due => end[x].due)
    BY <1>3, <1>7, <1>9 DEF EndFits
  <2>2. PICK k \in BOOLEAN : k = FALSE
    OBVIOUS
  <2>3. Simply(x, g, k)
    BY <1>8, <2>2
  <2>4. /\ LinkTypes' /\ end'[x] = g /\ wire'[x] = wire[x]
        /\ Turn(x, Range(end[x].acks)) /\ FarGoes(x)
        /\ ~k => chan'[x[1]] = chan[x[1]] /\ wire'[Other(x)] = wire[Other(x)]
        /\ chan'[x[1]].alive => chan[x[1]].alive
        /\ \A s \in Peer \ {x[1]} : Untouched(s)
    BY <1>7, <1>9, <2>1, <2>2, <2>3, SimplyTurns
  <2> QED  BY <2>2, <2>4
<1>11. Frames(e) = <<>> => Frames(g) = <<>>
  <2>1. \A c \in Range(g.queue) : c \in Range(e.queue)
    BY <1>4, <1>5, <1>7
  <2> QED  BY <2>1, <1>7, NothingToSend
<1>12. NearGoes(x)
  <2>1. ASSUME NEW s, Busy(e, chan[p], wire[x], s, media) PROVE Busy(g, chan[p], wire[x], s, media)
    BY <2>1, <1>7, <1>11 DEF Busy, Flows, AttachedTo
  <2> QED  BY <1>2, <1>3, <1>8, <1>10, <2>1 DEF NearGoes
<1>13. FullGoes(x) /\ NobodyLeaves
  BY <1>3, <1>7, <1>8, <1>10 DEF FullGoes, NobodyLeaves
<1> QED  BY <1>1, <1>3, <1>4, <1>5, <1>7, <1>10, <1>12, <1>13 DEF Half

-----------------------------------------------------------------------------
(* Channels and connections that are new                                   *)

\* The end x starts anew, or goes, and its channel with it.
Restarts(x) ==
  /\ end'[x].on = 0 /\ ~end'[x].open /\ (end'[x].recovering => end'[x].timed)
  /\ end'[x].due => end[x].due
  /\ end'[x].queue = <<>>
  /\ x[2] = "far" => end'[x].acks = <<>> /\ end'[x].got = <<>> /\ ~end'[x].full
  /\ end'[Other(x)] = end[Other(x)] /\ wire'[x] = wire[x] /\ wire'[Other(x)] = <<>>
  /\ chan'[x[1]].gen = chan[x[1]].gen
  /\ chan'[x[1]].alive => chan[x[1]].alive /\ ~Attached(x)

LEMMA SimplyRestarts ==
  ASSUME LinkTypes, NEW x \in Place, NEW g \in End, Simply(x, g, TRUE),
         g.on = 0, ~g.open, ~g.recovering, ~g.due, g.queue = <<>>, g.acks = <<>>, g.got = <<>>,
         ~g.full
  PROVE  /\ LinkTypes' /\ end'[x] = g /\ Restarts(x)
         /\ \A q \in Peer \ {x[1]} : Untouched(q)
<1>1. PICK out : out = [end |-> g, wire |-> wire[x], threw |-> FALSE]
  OBVIOUS
<1>2. out.end = g /\ out.wire = wire[x] /\ out.threw = FALSE /\ out.end \in End
      /\ out.wire \in Seq(Frame) /\ out.threw \in BOOLEAN
  BY <1>1 DEF LinkTypes
<1>3. PICK k \in BOOLEAN : k = TRUE
  OBVIOUS
<1>4. PICK rest \in Seq(Frame) : rest = wire[Other(x)]
  BY PlacesOf DEF LinkTypes
<1>5. Becomes(x, out, k, rest)
  BY <1>1, <1>3, <1>4 DEF Simply
<1>6. /\ LinkTypes'
      /\ end'[x] = out.end /\ wire'[x] = out.wire /\ end'[Other(x)] = end[Other(x)]
      /\ (k \/ out.threw) => wire'[Other(x)] = <<>>
      /\ chan'[x[1]].gen = chan[x[1]].gen
      /\ chan'[x[1]].alive <=> chan[x[1]].alive /\ ~((k \/ out.threw) /\ end[x].on = chan[x[1]].gen)
      /\ \A q \in Peer \ {x[1]} : Untouched(q)
  BY <1>2, <1>5, BecomesOf
<1>7. Restarts(x)
  BY <1>2, <1>3, <1>6 DEF Restarts, Attached
<1> QED  BY <1>2, <1>6, <1>7

LEMMA GoneRestarts ==
  ASSUME LinkTypes, NEW x \in Place, Simply(x, Gone(end[x]), TRUE)
  PROVE  /\ LinkTypes' /\ Restarts(x) /\ ~end'[x].here
         /\ end'[x].epoch = end[x].epoch /\ end'[x].from = end[x].from
         /\ \A q \in Peer \ {x[1]} : Untouched(q)
<1>1. PICK e \in End : e = end[x]
  BY DEF LinkTypes
<1>2. PICK g : g = Gone(e)
  OBVIOUS
<1>3. /\ g \in End /\ ~g.here /\ g.epoch = e.epoch /\ g.from = e.from /\ g.on = 0 /\ ~g.open
      /\ ~g.recovering /\ ~g.due /\ ~g.full /\ g.queue = <<>> /\ g.acks = <<>> /\ g.got = <<>>
  BY <1>2, GoneOf
<1>5. Simply(x, g, TRUE)
  BY <1>1, <1>2
<1>6. LinkTypes' /\ end'[x] = g /\ Restarts(x) /\ \A q \in Peer \ {x[1]} : Untouched(q)
  BY <1>3, <1>5, SimplyRestarts
<1> QED  BY <1>1, <1>3, <1>6

LEMMA FreshRestarts ==
  ASSUME LinkTypes, NEW x \in Place, NEW n \in Nat, NEW s \in Nat \cup {None},
         Simply(x, Fresh(n, s), TRUE)
  PROVE  /\ LinkTypes' /\ Restarts(x) /\ end'[x].here /\ end'[x].epoch = n /\ end'[x].from = s
         /\ \A q \in Peer \ {x[1]} : Untouched(q)
<1>1. PICK g : g = Fresh(n, s)
  OBVIOUS
<1>2. /\ g \in End /\ g.here /\ g.epoch = n /\ g.from = s /\ g.on = 0 /\ ~g.open
      /\ ~g.recovering /\ ~g.due /\ ~g.full /\ g.queue = <<>> /\ g.acks = <<>>
      /\ g.got = <<>>
  BY <1>1, FreshOf
<1>3. Simply(x, g, TRUE)
  BY Zenon, <1>1
<1>4. LinkTypes' /\ end'[x] = g /\ Restarts(x) /\ \A q \in Peer \ {x[1]} : Untouched(q)
  BY <1>2, <1>3, SimplyRestarts
<1> QED  BY <1>2, <1>4

LEMMA RejoinRestarts ==
  ASSUME LinkTypes, Rejoin, roster \subseteq Peer,
         \A p \in Peer : /\ EndFits(end[<<p, "near">>], chan[p])
                         /\ ~end[<<p, "near">>].here => end[<<p, "near">>].queue = <<>>
                         /\ p \notin roster => ~end[<<p, "near">>].here
  PROVE  /\ LinkTypes' /\ NobodyLeaves
         /\ \A p \in Peer :
              /\ Restarts(<<p, "near">>)
              /\ p \in roster => end'[<<p, "near">>].here
                                 /\ end'[<<p, "near">>].epoch = end[<<p, "near">>].epoch + 1
              /\ p \notin roster => end'[<<p, "near">>] = end[<<p, "near">>]
<1>1. /\ end' = [x \in Place |-> IF x[2] = "near" /\ x[1] \in roster
                                  THEN Fresh(end[x].epoch + 1, None) ELSE end[x]]
      /\ chan' = [p \in Peer |-> [chan[p] EXCEPT !.alive = @ /\ ~Attached(<<p, "near">>)]]
      /\ wire' = [x \in Place |-> IF x[2] = "far" THEN <<>> ELSE wire[x]]
      /\ spent' = spent \cup {<<None, "rejoin">>}
  BY Zenon DEF Rejoin, Spend
<1>2. ASSUME NEW x \in Place
      PROVE  /\ end'[x] \in End /\ wire'[x] \in Seq(Frame)
             /\ x[2] = "far" => end'[x] = end[x] /\ wire'[x] = <<>>
             /\ x[2] = "near" => wire'[x] = wire[x]
  <2>1. CASE x[2] = "near" /\ x[1] \in roster
    <3>1. PICK n \in Nat : n = end[x].epoch + 1
      BY DEF LinkTypes, End
    <3>2. PICK s \in Nat \cup {None} : s = None
      OBVIOUS
    <3>3. PICK g : g = Fresh(n, s)
      OBVIOUS
    <3>4. g \in End
      BY <3>3, FreshOf
    <3>5. end'[x] = g /\ wire'[x] = wire[x]
      BY <1>1, <2>1, <3>1, <3>2, <3>3
    <3> QED  BY <2>1, <3>4, <3>5 DEF LinkTypes
  <2>2. CASE ~(x[2] = "near" /\ x[1] \in roster)
    <3>1. end'[x] = end[x] /\ wire'[x] = IF x[2] = "far" THEN <<>> ELSE wire[x]
      BY <1>1, <2>2
    <3>2. <<>> \in Seq(Frame)
      OBVIOUS
    <3>3. CASE x[2] = "far"
      BY <3>1, <3>2, <3>3 DEF LinkTypes
    <3>4. CASE x[2] # "far"
      BY <3>1, <3>4 DEF LinkTypes
    <3> QED  BY <3>3, <3>4
  <2> QED  BY <2>1, <2>2
<1>3. ASSUME NEW p \in Peer
      PROVE  /\ chan'[p] \in Channel /\ chan'[p].gen = chan[p].gen
             /\ chan'[p].alive => chan[p].alive /\ ~Attached(<<p, "near">>)
  <2>1. PICK c \in Channel : c = chan[p]
    BY DEF LinkTypes
  <2>2. PICK b \in BOOLEAN : b = (c.alive /\ ~Attached(<<p, "near">>))
    BY <2>1 DEF Channel, Attached
  <2>3. chan'[p] = [c EXCEPT !.alive = b]
    BY <1>1, <2>1, <2>2
  <2>4. [c EXCEPT !.alive = b] \in Channel /\ [c EXCEPT !.alive = b].gen = c.gen
        /\ [c EXCEPT !.alive = b].alive = b
    BY DEF Channel
  <2> QED  BY <2>1, <2>2, <2>3, <2>4
<1>4. LinkTypes' /\ NobodyLeaves
  <2>1. /\ end' = [x \in Place |-> end'[x]] /\ chan' = [p \in Peer |-> chan'[p]]
        /\ wire' = [x \in Place |-> wire'[x]]
    BY <1>1
  <2>2. NobodyLeaves
    BY <1>1 DEF NobodyLeaves
  <2> QED  BY <1>2, <1>3, <2>1, <2>2 DEF LinkTypes
<1>5. ASSUME NEW p \in Peer
      PROVE  /\ Restarts(<<p, "near">>)
             /\ p \in roster => end'[<<p, "near">>].here
                                /\ end'[<<p, "near">>].epoch = end[<<p, "near">>].epoch + 1
             /\ p \notin roster => end'[<<p, "near">>] = end[<<p, "near">>]
  <2>1. PICK x \in Place : x = <<p, "near">>
    BY BothEnds
  <2>2. x[1] = p /\ x[2] = "near" /\ Other(x) \in Place /\ Other(x)[2] = "far"
    BY ZenonT(40), <2>1, BothEnds
  <2>3. /\ end'[Other(x)] = end[Other(x)] /\ wire'[x] = wire[x] /\ wire'[Other(x)] = <<>>
        /\ chan'[x[1]].gen = chan[x[1]].gen
        /\ chan'[x[1]].alive => chan[x[1]].alive /\ ~Attached(x)
    BY <1>2, <1>3, <2>1, <2>2
  <2>4. CASE p \in roster
    <3>1. PICK n \in Nat : n = end[x].epoch + 1
      BY DEF LinkTypes, End
    <3>2. PICK s \in Nat \cup {None} : s = None
      OBVIOUS
    <3>3. PICK g : g = Fresh(n, s)
      OBVIOUS
    <3>4. /\ g.here /\ g.epoch = n /\ g.on = 0 /\ ~g.open
          /\ ~g.recovering /\ ~g.due /\ g.queue = <<>>
      BY <3>3, FreshOf
    <3>5. end'[x] = g
      BY <1>1, <2>2, <2>4, <3>1, <3>2, <3>3
    <3>6. Restarts(x)
      BY <2>2, <2>3, <3>4, <3>5 DEF Restarts
    <3> QED  BY <2>1, <2>4, <3>1, <3>4, <3>5, <3>6
  <2>5. CASE p \notin roster
    <3>1. PICK g \in End : g = end[x]
      BY DEF LinkTypes
    <3>2. end'[x] = g
      BY <1>1, <2>2, <2>5, <3>1
    <3>3. EndFits(g, chan[p]) /\ ~g.here /\ g.queue = <<>>
      BY <2>1, <2>5, <3>1
    <3>4. g.on = 0 /\ ~g.open /\ (g.recovering => g.timed)
      BY <3>3 DEF EndFits
    <3>5. Restarts(x)
      BY <2>2, <2>3, <3>1, <3>2, <3>3, <3>4 DEF Restarts
    <3> QED  BY <2>1, <2>5, <3>1, <3>2, <3>5
  <2> QED  BY <2>4, <2>5
<1> QED  BY <1>4, <1>5

\* What another channel leaves alone
Stays(e, f) ==
  f.here = e.here /\ f.epoch = e.epoch /\ f.from = e.from /\ f.got = e.got /\ f.full = e.full

\* A new channel, made by the end x
Makes(x) ==
  /\ end[x].here /\ end[x].on = 0
  /\ Stays(end[x], end'[x]) /\ end'[x].on = chan[x[1]].gen + 1 /\ ~end'[x].open
  /\ end'[x].due => end[x].due \/ chan[x[1]].gen # 0
  /\ end'[x].recovering = end[x].recovering /\ end'[x].timed = end[x].timed
  /\ end'[x].acks = end[x].acks /\ Alike(end[x].queue, end'[x].queue)
  /\ end'[Other(x)] = end[Other(x)] /\ wire'[x] = <<>> /\ wire'[Other(x)] = <<>>
  /\ chan'[x[1]].gen = chan[x[1]].gen + 1 /\ chan'[x[1]].alive

LEMMA CreateMakes ==
  ASSUME LinkTypes, NEW x \in Place, CreateChannel(x)
  PROVE  LinkTypes' /\ Makes(x) /\ NobodyLeaves /\ \A q \in Peer \ {x[1]} : Untouched(q)
<1>1. PICK e \in End : e = end[x]
  BY DEF LinkTypes
<1>2. PICK c \in Channel : c = chan[x[1]]
  BY PlacesOf DEF LinkTypes
<1>3. PICK n \in Nat : n = c.gen + 1
  BY DEF Channel
<1>4. PICK h : h = Attach(e, n)
  OBVIOUS
<1>5. /\ h \in End /\ Same(e, h) /\ h.on = n /\ ~h.open
       /\ h.recovering = e.recovering /\ h.timed = e.timed /\ h.acks = e.acks /\ h.due = e.due
       /\ Alike(e.queue, h.queue)
  BY <1>4, AttachOf
<1>6. PICK k \in BOOLEAN : k = (e.due \/ OnItsWay(x)) /\ (k => e.due \/ c.gen # 0)
  <2>1. OnItsWay(x) => c.gen # 0
    BY <1>2, PlacesOf DEF OnItsWay, Attached
  <2> QED  BY <1>5, <2>1
<1>7. PICK g : g = [h EXCEPT !.due = k]
  OBVIOUS
<1>8. /\ g \in End /\ Stays(e, g) /\ g.on = n /\ ~g.open /\ g.due = k
      /\ g.recovering = e.recovering /\ g.timed = e.timed /\ g.acks = e.acks
      /\ g.queue = h.queue
  BY <1>5, <1>7 DEF End, Stays, Same
<1>9. Alike(e.queue, g.queue)
  BY <1>8, <1>5
<1>10. PICK b \in BOOLEAN : b = (e.attempt = 1)
  OBVIOUS
<1>11. PICK d \in Channel : d = [gen |-> n, alive |-> TRUE, fresh |-> b, by |-> x[2]]
  BY DEF Channel, Place
<1>12. d.gen = n /\ d.alive
  BY <1>11
<1>13. /\ end' = [end EXCEPT ![x] = g] /\ chan' = [chan EXCEPT ![x[1]] = d]
      /\ wire' = [wire EXCEPT ![x] = <<>>, ![Other(x)] = <<>>]
  <2>1. /\ end' = [end EXCEPT ![x] = [Attach(@, chan[x[1]].gen + 1)
                                       EXCEPT !.due = end[x].due \/ OnItsWay(x)]]
        /\ chan' = [chan EXCEPT ![x[1]] = [gen |-> @.gen + 1, alive |-> TRUE,
                                          fresh |-> end[x].attempt = 1, by |-> x[2]]]
        /\ wire' = [wire EXCEPT ![x] = <<>>, ![Other(x)] = <<>>]
    BY Zenon DEF CreateChannel
  <2>2. [Attach(end[x], chan[x[1]].gen + 1) EXCEPT !.due = end[x].due \/ OnItsWay(x)] = g
    BY <1>1, <1>2, <1>3, <1>4, <1>6, <1>7
  <2>3. [gen |-> chan[x[1]].gen + 1, alive |-> TRUE, fresh |-> end[x].attempt = 1, by |-> x[2]] = d
    BY <1>1, <1>2, <1>3, <1>10, <1>11
  <2> QED  BY <2>1, <2>2, <2>3
<1>14. <<>> \in Seq(Frame)
  OBVIOUS
<1>15. LinkTypes'
  <2>1. end' \in [Place -> End] /\ chan' \in [Peer -> Channel]
    BY <1>8, <1>13 DEF LinkTypes
  <2>2. wire' \in [Place -> Seq(Frame)]
    BY <1>13, <1>14 DEF LinkTypes
  <2> QED  BY <2>1, <2>2 DEF LinkTypes
<1>16. /\ end'[x] = g /\ end'[Other(x)] = end[Other(x)] /\ chan'[x[1]] = d
       /\ wire'[x] = <<>> /\ wire'[Other(x)] = <<>>
  BY <1>13, PlacesOf DEF LinkTypes
<1>17. Makes(x)
  <2>1. e.here /\ e.on = 0
    BY <1>1 DEF CreateChannel
  <2> QED  BY <1>1, <1>2, <1>3, <1>8, <1>12, <1>16, <1>6, <1>9, <2>1 DEF Makes
<1>18. ASSUME NEW q \in Peer \ {x[1]}
       PROVE  Untouched(q)
  <2>1. /\ <<q, "near">> \in Place /\ <<q, "far">> \in Place
        /\ <<q, "near">>[1] # x[1] /\ <<q, "far">>[1] # x[1]
    BY BothEnds
  <2>2. Other(x)[1] = x[1] /\ x[1] \in Peer
    BY PlacesOf
  <2> QED  BY <1>13, <2>1, <2>2 DEF Untouched, LinkTypes
<1>19. NobodyLeaves
  BY DEF CreateChannel, Spend, NobodyLeaves
<1> QED  BY <1>15, <1>17, <1>18, <1>19

\* The end x hears of the channel of its link.
Takes(x) ==
  /\ end[x].here /\ chan[x[1]].alive
  /\ end[Other(x)].epoch = end[x].epoch
  /\ Stays(end[x], end'[x]) /\ (end'[x].due => end[x].due) /\ end'[x].on = chan[x[1]].gen /\ ~end'[x].open
  /\ (end[x].recovering => end[x].timed) => (end'[x].recovering => end'[x].timed)
  /\ end'[x].acks = end[x].acks /\ Alike(end[x].queue, end'[x].queue)
  /\ ~Attached(x)
  /\ end'[Other(x)] = end[Other(x)] /\ wire'[x] = wire[x] /\ wire'[Other(x)] = wire[Other(x)]
  /\ chan'[x[1]] = chan[x[1]]

LEMMA ArrivesTakes ==
  ASSUME LinkTypes, NEW x \in Place, ChannelArrives(x)
  PROVE  LinkTypes' /\ Takes(x) /\ \A q \in Peer \ {x[1]} : Untouched(q)
<1>1. PICK e \in End : e = end[x]
  BY DEF LinkTypes
<1>2. PICK c \in Channel : c = chan[x[1]]
  BY PlacesOf DEF LinkTypes
<1>3. PICK n \in Nat : n = c.gen
  BY DEF Channel
<1>4. PICK h \in End : /\ h = IF c.fresh THEN Replaced(e) ELSE e
                       /\ Same(e, h) /\ h.acks = e.acks /\ h.queue = e.queue
                       /\ (e.recovering => e.timed) => (h.recovering => h.timed)
  <2>1. Replaced(e) \in End /\ Same(e, Replaced(e)) /\ Replaced(e).timed
        /\ Replaced(e).acks = e.acks /\ Replaced(e).queue = e.queue
    BY ReplacedOf
  <2>2. Same(e, e)
    BY DEF Same
  <2> QED  BY <2>1, <2>2
<1>5. PICK g : g = Attach(h, n)
  OBVIOUS
<1>6. /\ g \in End /\ Same(h, g) /\ g.on = n /\ ~g.open
      /\ g.recovering = h.recovering /\ g.timed = h.timed /\ g.acks = h.acks
      /\ Alike(h.queue, g.queue)
  BY <1>5, AttachOf
<1>7. end' = [end EXCEPT ![x] = g] /\ chan' = chan /\ wire' = wire
  <2>1. /\ end' = [end EXCEPT ![x] = Attach(IF chan[x[1]].fresh THEN Replaced(@) ELSE @, chan[x[1]].gen)]
        /\ chan' = chan /\ wire' = wire
    BY Zenon DEF ChannelArrives
  <2>2. Attach(IF chan[x[1]].fresh THEN Replaced(end[x]) ELSE end[x], chan[x[1]].gen) = g
    BY <1>1, <1>2, <1>3, <1>4, <1>5
  <2> QED  BY <2>1, <2>2
<1>8. LinkTypes'
  BY <1>6, <1>7 DEF LinkTypes
<1>9. end'[x] = g /\ end'[Other(x)] = end[Other(x)]
  BY <1>7, PlacesOf DEF LinkTypes
<1>10. Takes(x)
  <2>1. /\ e.here /\ ~Attached(x) /\ c.alive
        /\ end[Other(x)].epoch = e.epoch
    BY <1>1, <1>2 DEF ChannelArrives
  <2>2. Same(e, g) /\ g.acks = e.acks /\ Alike(e.queue, g.queue)
        /\ ((e.recovering => e.timed) => (g.recovering => g.timed))
    BY <1>4, <1>6 DEF Same
  <2> QED  BY <1>1, <1>2, <1>3, <1>6, <1>7, <1>9, <2>1, <2>2 DEF Takes, Stays, Same
<1>11. ASSUME NEW q \in Peer \ {x[1]}
       PROVE  Untouched(q)
  <2>1. /\ <<q, "near">> \in Place /\ <<q, "far">> \in Place
        /\ <<q, "near">>[1] # x[1] /\ <<q, "far">>[1] # x[1]
    BY BothEnds
  <2> QED  BY <1>7, <2>1 DEF Untouched, LinkTypes
<1> QED  BY <1>8, <1>10, <1>11

-----------------------------------------------------------------------------
(* What holds of every link                                                *)

Shaped(p) == LinkShape(end[<<p, "near">>], end[<<p, "far">>], chan[p], wire[<<p, "near">>])

\* A peer of the present connection knows the sender by its present id, and
\* whoever has left is not there.
Member(p) ==
  /\ end[<<p, "far">>].here /\ end[<<p, "far">>].epoch = end[<<p, "near">>].epoch
       => end[<<p, "far">>].from = self
  /\ end[<<p, "far">>].from \in Nat
  /\ p \notin roster => <<p, "leave">> \in spent /\ ~end[<<p, "near">>].here
  /\ <<p, "leave">> \in spent => ~end[<<p, "far">>].here

\* What the sender has to say to a peer is under way.
Synced(p) ==
  <<p, "flood">> \notin spent =>
    /\ ~end[<<p, "far">>].full
    /\ Busy(end[<<p, "near">>], chan[p], wire[<<p, "near">>], remote[p], media)

LEMMA ShapedNear ==
  ASSUME LinkTypes, LinkTypes', NEW p \in Peer, Shaped(p), NEW A, Turn(<<p, "near">>, A)
  PROVE  Shaped(p)'
<1>1. /\ end[<<p, "near">>] \in End /\ end'[<<p, "near">>] \in End
      /\ end[<<p, "far">>] \in End /\ end'[<<p, "far">>] \in End
      /\ chan[p] \in Channel /\ chan'[p] \in Channel
  BY BothEnds DEF LinkTypes
<1>2. /\ EndMove(end[<<p, "near">>], end'[<<p, "near">>], AttachedTo(end[<<p, "far">>], chan[p]),
                 chan[p], chan'[p], wire[<<p, "near">>], wire'[<<p, "near">>], A)
      /\ LowOnly(end[<<p, "far">>], end'[<<p, "far">>])
  BY BothEnds DEF Turn
<1>3. LinkShape(end[<<p, "near">>], end[<<p, "far">>], chan[p], wire[<<p, "near">>])
  BY DEF Shaped
<1>4. LinkShape(end'[<<p, "near">>], end'[<<p, "far">>], chan'[p], wire'[<<p, "near">>])
  BY <1>1, <1>2, <1>3, NearMoves
<1> QED  BY <1>4 DEF Shaped

LEMMA ShapedFar ==
  ASSUME LinkTypes, LinkTypes', NEW p \in Peer, Shaped(p), NEW A, Turn(<<p, "far">>, A)
  PROVE  Shaped(p)'
<1>1. /\ end[<<p, "near">>] \in End /\ end'[<<p, "near">>] \in End
      /\ end[<<p, "far">>] \in End /\ end'[<<p, "far">>] \in End
      /\ chan[p] \in Channel /\ chan'[p] \in Channel
      /\ wire[<<p, "near">>] \in Seq(Frame) /\ wire'[<<p, "near">>] \in Seq(Frame)
  BY ZenonT(40), BothEnds DEF LinkTypes
<1>2. /\ EndMove(end[<<p, "far">>], end'[<<p, "far">>], AttachedTo(end[<<p, "near">>], chan[p]),
                 chan[p], chan'[p], wire[<<p, "far">>], wire'[<<p, "far">>], A)
      /\ LowOnly(end[<<p, "near">>], end'[<<p, "near">>])
      /\ Range(wire'[<<p, "near">>]) \subseteq Range(wire[<<p, "near">>])
  BY BothEnds DEF Turn
<1>3. wire[<<p, "near">>] = <<>> => wire'[<<p, "near">>] = <<>>
  <2>1. PICK w \in Seq(Frame) : w = wire[<<p, "near">>]
    BY <1>1
  <2>2. PICK v \in Seq(Frame) : v = wire'[<<p, "near">>]
    BY <1>1
  <2>3. (w = <<>> <=> Range(w) = {}) /\ (v = <<>> <=> Range(v) = {})
    BY EmptyRange
  <2>4. Range(v) \subseteq Range(w)
    BY <1>2, <2>1, <2>2
  <2> QED  BY <2>1, <2>2, <2>3, <2>4
<1>4. LinkShape(end[<<p, "near">>], end[<<p, "far">>], chan[p], wire[<<p, "near">>])
  BY DEF Shaped
<1>5. LinkShape(end'[<<p, "near">>], end'[<<p, "far">>], chan'[p], wire'[<<p, "near">>])
  BY <1>1, <1>2, <1>3, <1>4, FarMoves
<1> QED  BY <1>5 DEF Shaped

LEMMA ShapedRestarts ==
  ASSUME LinkTypes, LinkTypes', NEW p \in Peer, Shaped(p)
  PROVE  /\ Restarts(<<p, "near">>) /\ end[<<p, "near">>].epoch <= end'[<<p, "near">>].epoch => Shaped(p)'
         /\ Restarts(<<p, "far">>) /\ end'[<<p, "far">>].epoch <= end[<<p, "near">>].epoch => Shaped(p)'
<1>1. PICK n \in End : n = end[<<p, "near">>]
  BY BothEnds DEF LinkTypes
<1>2. PICK f \in End : f = end[<<p, "far">>]
  BY BothEnds DEF LinkTypes
<1>3. PICK c \in Channel : c = chan[p]
  BY DEF LinkTypes
<1>4. PICK d \in Channel : d = chan'[p]
  BY DEF LinkTypes
<1>5. PICK w \in Seq(Frame) : w = wire[<<p, "near">>]
  BY BothEnds DEF LinkTypes
<1>6. LinkShape(n, f, c, w)
  BY <1>1, <1>2, <1>3, <1>5 DEF Shaped
<1>7. CASE Restarts(<<p, "near">>) /\ end[<<p, "near">>].epoch <= end'[<<p, "near">>].epoch
  <2>1. PICK n1 \in End : n1 = end'[<<p, "near">>]
    BY BothEnds DEF LinkTypes
  <2>2. /\ n1.on = 0 /\ ~n1.open /\ (n1.recovering => n1.timed) /\ n.epoch <= n1.epoch
        /\ n1.due => n.due
        /\ end'[<<p, "far">>] = f /\ wire'[<<p, "near">>] = w
        /\ d.gen = c.gen /\ (d.alive => c.alive /\ ~AttachedTo(n, c))
    BY <1>1, <1>2, <1>3, <1>4, <1>5, <1>7, <2>1, BothEnds DEF Restarts, Attached, AttachedTo
  <2>3. EndFits(n1, d) /\ EndFits(f, d)
    BY <1>6, <2>2 DEF LinkShape, EndFits, End, Channel
  <2>4. ~AttachedTo(n1, d) /\ (AttachedTo(f, d) <=> AttachedTo(f, c)) /\ (d.alive => c.alive)
    BY <2>2 DEF AttachedTo, End, Channel
  <2>5. f.epoch <= n1.epoch
    BY <1>6, <2>2 DEF LinkShape, End
  <2>6. LinkShape(n1, f, d, w)
    BY <1>6, <2>3, <2>4, <2>5 DEF LinkShape
  <2> QED  BY <1>4, <2>1, <2>2, <2>6 DEF Shaped
<1>8. CASE Restarts(<<p, "far">>) /\ end'[<<p, "far">>].epoch <= end[<<p, "near">>].epoch
  <2>1. PICK f1 \in End : f1 = end'[<<p, "far">>]
    BY BothEnds DEF LinkTypes
  <2>2. /\ f1.on = 0 /\ ~f1.open /\ (f1.recovering => f1.timed) /\ f1.epoch <= n.epoch
        /\ f1.due => f.due
        /\ end'[<<p, "near">>] = n /\ wire'[<<p, "near">>] = <<>>
        /\ d.gen = c.gen /\ (d.alive => c.alive /\ ~AttachedTo(f, c))
    BY <1>1, <1>2, <1>3, <1>4, <1>8, <2>1, BothEnds DEF Restarts, Attached, AttachedTo
  <2>3. LinkShape(n, f1, d, <<>>)
    BY <1>6, <2>2 DEF LinkShape, EndFits, AttachedTo, End, Channel
  <2> QED  BY <1>4, <2>1, <2>2, <2>3 DEF Shaped
<1> QED  BY <1>7, <1>8

LEMMA ShapedAttaches ==
  ASSUME LinkTypes, LinkTypes', NEW p \in Peer, Shaped(p), NEW x \in Place, x[1] = p,
         Makes(x) \/ Takes(x)
  PROVE  Shaped(p)'
<1>1. PICK e \in End : e = end[x]
  BY DEF LinkTypes
<1>2. PICK g \in End : g = end'[x]
  BY DEF LinkTypes
<1>3. PICK o \in End : o = end[Other(x)]
  BY PlacesOf DEF LinkTypes
<1>4. PICK c \in Channel : c = chan[p]
  BY DEF LinkTypes
<1>5. PICK d \in Channel : d = chan'[p]
  BY DEF LinkTypes
<1>6. PICK w \in Seq(Frame) : w = wire[<<p, "near">>]
  BY BothEnds DEF LinkTypes
<1>7. PICK v \in Seq(Frame) : v = wire'[<<p, "near">>]
  BY BothEnds DEF LinkTypes
<1>8. end'[Other(x)] = o
  BY <1>3 DEF Makes, Takes
<1>9. \/ x = <<p, "near">> /\ Other(x) = <<p, "far">>
      \/ x = <<p, "far">> /\ Other(x) = <<p, "near">>
  BY PlacesOf
<1>10. EndFits(e, c) /\ EndFits(o, c)
  BY <1>1, <1>3, <1>4, <1>9 DEF Shaped, LinkShape
<1>11. g.here = e.here /\ g.epoch = e.epoch /\ g.timed \in BOOLEAN /\ ~g.open /\ e.here
  BY <1>1, <1>2 DEF Makes, Takes, Stays, End
<1>12. CASE Makes(x)
  <2>1. g.on = d.gen /\ d.gen = c.gen + 1 /\ d.alive /\ v = <<>> /\ (g.recovering => g.timed)
        /\ e.on = 0 /\ (g.due => e.due \/ c.gen # 0)
    BY <1>1, <1>2, <1>4, <1>5, <1>7, <1>9, <1>10, <1>12 DEF Makes, EndFits
  <2>2. EndFits(g, d) /\ EndFits(o, d) /\ ~AttachedTo(o, d)
    BY <1>10, <1>11, <2>1 DEF EndFits, AttachedTo, End, Channel
  <2>3. CASE x = <<p, "near">>
    <3>1. LinkShape(e, o, c, w)
      BY <1>1, <1>3, <1>4, <1>6, <1>9, <2>3 DEF Shaped
    <3>2. LinkShape(g, o, d, v)
      BY <1>11, <2>1, <2>2, <3>1 DEF LinkShape
    <3> QED  BY <1>2, <1>5, <1>7, <1>8, <1>9, <2>3, <3>2 DEF Shaped
  <2>4. CASE x = <<p, "far">>
    <3>1. LinkShape(o, e, c, w)
      BY <1>1, <1>3, <1>4, <1>6, <1>9, <2>4 DEF Shaped
    <3>2. LinkShape(o, g, d, v)
      BY <1>11, <2>1, <2>2, <3>1 DEF LinkShape
    <3> QED  BY <1>2, <1>5, <1>7, <1>8, <1>9, <2>4, <3>2 DEF Shaped
  <2> QED  BY <1>9, <2>3, <2>4
<1>13. CASE Takes(x)
  <2>1. g.on = c.gen /\ d = c /\ c.alive /\ v = w /\ (g.recovering => g.timed) /\ o.epoch = e.epoch
        /\ ~AttachedTo(e, c) /\ (g.due => e.due)
    BY <1>1, <1>2, <1>3, <1>4, <1>5, <1>6, <1>7, <1>9, <1>10, <1>13 DEF Takes, EndFits, Attached, AttachedTo
  <2>2. EndFits(g, d)
    BY <1>10, <1>11, <2>1 DEF EndFits, End, Channel
  <2>3. CASE x = <<p, "near">>
    <3>1. LinkShape(e, o, c, w)
      BY <1>1, <1>3, <1>4, <1>6, <1>9, <2>3 DEF Shaped
    <3>2. LinkShape(g, o, d, v)
      BY <1>11, <2>1, <2>2, <3>1 DEF LinkShape
    <3> QED  BY <1>2, <1>5, <1>7, <1>8, <1>9, <2>3, <3>2 DEF Shaped
  <2>4. CASE x = <<p, "far">>
    <3>1. LinkShape(o, e, c, w)
      BY <1>1, <1>3, <1>4, <1>6, <1>9, <2>4 DEF Shaped
    <3>2. LinkShape(o, g, d, v)
      BY <1>11, <2>1, <2>2, <3>1 DEF LinkShape, AttachedTo
    <3> QED  BY <1>2, <1>5, <1>7, <1>8, <1>9, <2>4, <3>2 DEF Shaped
  <2> QED  BY <1>9, <2>3, <2>4
<1> QED  BY <1>12, <1>13

LEMMA ShapedUntouched ==
  ASSUME NEW p \in Peer, Shaped(p), Untouched(p)
  PROVE  Shaped(p)'
BY DEF Shaped, Untouched

LEMMA MemberStays ==
  ASSUME NEW p \in Peer, Member(p), self' = self, roster' = roster, NobodyLeaves,
         end'[<<p, "near">>].here = end[<<p, "near">>].here,
         end'[<<p, "near">>].epoch = end[<<p, "near">>].epoch,
         end'[<<p, "far">>].here = end[<<p, "far">>].here,
         end'[<<p, "far">>].epoch = end[<<p, "far">>].epoch,
         end'[<<p, "far">>].from = end[<<p, "far">>].from
  PROVE  Member(p)'
<1>1. <<p, "leave">> \in spent' <=> <<p, "leave">> \in spent
  BY DEF NobodyLeaves
<1> QED  BY <1>1 DEF Member

\* What a turn leaves of the two ends
LEMMA TurnKeeps ==
  ASSUME NEW p \in Peer, NEW x \in Place, x[1] = p, NEW A, Turn(x, A)
  PROVE  /\ end'[<<p, "near">>].here = end[<<p, "near">>].here
         /\ end'[<<p, "near">>].epoch = end[<<p, "near">>].epoch
         /\ end'[<<p, "far">>].here = end[<<p, "far">>].here
         /\ end'[<<p, "far">>].epoch = end[<<p, "far">>].epoch
         /\ end'[<<p, "far">>].from = end[<<p, "far">>].from
         /\ chan'[p].gen = chan[p].gen /\ (chan'[p].alive => chan[p].alive)
<1>1. \/ x = <<p, "near">> /\ Other(x) = <<p, "far">>
      \/ x = <<p, "far">> /\ Other(x) = <<p, "near">>
  BY PlacesOf
<1>2. /\ end'[x].here = end[x].here /\ end'[x].epoch = end[x].epoch /\ end'[x].from = end[x].from
      /\ chan'[p].gen = chan[p].gen /\ (chan'[p].alive => chan[p].alive)
  BY DEF Turn, EndMove
<1>3. /\ end'[Other(x)].here = end[Other(x)].here /\ end'[Other(x)].epoch = end[Other(x)].epoch
      /\ end'[Other(x)].from = end[Other(x)].from
  BY DEF Turn, LowOnly, Same
<1> QED  BY <1>1, <1>2, <1>3

\* The near end moves.
LEMMA SyncedNear ==
  ASSUME NEW p \in Peer, Synced(p), NEW A, Turn(<<p, "near">>, A),
         spent \subseteq spent', remote'[p] = remote[p],
         Busy(end[<<p, "near">>], chan[p], wire[<<p, "near">>], remote[p], media)
           => Busy(end'[<<p, "near">>], chan'[p], wire'[<<p, "near">>], remote[p], media')
  PROVE  Synced(p)'
<1>1. end'[<<p, "far">>].full = end[<<p, "far">>].full
  BY BothEnds DEF Turn, LowOnly, Same
<1> QED  BY <1>1 DEF Synced

LEMMA SyncedNearGoes ==
  ASSUME NEW p \in Peer, Synced(p), NEW A, Turn(<<p, "near">>, A),
         spent \subseteq spent', remote'[p] = remote[p], NearGoes(<<p, "near">>)
  PROVE  Synced(p)'
<1>1. Busy(end[<<p, "near">>], chan[p], wire[<<p, "near">>], remote[p], media)
        => Busy(end'[<<p, "near">>], chan'[p], wire'[<<p, "near">>], remote[p], media')
  BY BothEnds DEF NearGoes
<1> QED  BY <1>1, SyncedNear

\* The far end moves, and reads nothing or the right thing.
LEMMA SyncedFar ==
  ASSUME LinkTypes, NEW p \in Peer, Synced(p), NEW A, Turn(<<p, "far">>, A), FullGoes(<<p, "far">>),
         spent \subseteq spent', media' = media,
         <<p, "flood">> \notin spent
           /\ Busy(end[<<p, "near">>], chan[p], wire[<<p, "near">>], remote[p], media)
           => Busy(end'[<<p, "near">>], chan'[p], wire'[<<p, "near">>], remote'[p], media)
  PROVE  Synced(p)'
<1>1. end'[<<p, "far">>].full => end[<<p, "far">>].full \/ <<p, "flood">> \in spent'
  BY BothEnds DEF FullGoes
<1> QED  BY <1>1 DEF Synced

LEMMA SyncedFarGoes ==
  ASSUME LinkTypes, NEW p \in Peer, Synced(p), Shaped(p)', NEW A, Turn(<<p, "far">>, A),
         FullGoes(<<p, "far">>), FarGoes(<<p, "far">>), remote'[p] = remote[p],
         spent \subseteq spent', media' = media
  PROVE  Synced(p)'
<1>1. PICK n : n = end[<<p, "near">>]
  OBVIOUS
<1>2. PICK n1 : n1 = end'[<<p, "near">>]
  OBVIOUS
<1>3. /\ LowOnly(n, n1) /\ Frames(n1) = Frames(n)
      /\ EndMove(end[<<p, "far">>], end'[<<p, "far">>], AttachedTo(n, chan[p]),
                 chan[p], chan'[p], wire[<<p, "far">>], wire'[<<p, "far">>], A)
  BY <1>1, <1>2, BothEnds DEF Turn
<1>4. ASSUME Busy(n, chan[p], wire[<<p, "near">>], remote[p], media)
      PROVE  Busy(n1, chan'[p], wire'[<<p, "near">>], remote'[p], media)
  <2> SUFFICES ASSUME chan'[p].alive, AttachedTo(n1, chan'[p]), n1.open, ~n1.recovering, ~n1.quiet
               PROVE  Flows(n1, wire'[<<p, "near">>], remote'[p], media)
    BY DEF Busy
  <2>1. chan'[p].gen = chan[p].gen /\ chan[p].alive
    BY <1>3 DEF EndMove
  <2>2. AttachedTo(n, chan[p]) /\ n.open /\ ~n.recovering /\ ~n.quiet
    BY <1>3, <2>1 DEF LowOnly, AttachedTo
  <2>3. Flows(n, wire[<<p, "near">>], remote[p], media)
    BY <1>4, <2>1, <2>2 DEF Busy
  <2>4. AttachedTo(end'[<<p, "far">>], chan'[p])
    BY <1>2 DEF Shaped, LinkShape
  <2>5. AttachedTo(end[<<p, "far">>], chan[p])
    <3>1. chan[p].gen \in Nat
      BY DEF LinkTypes, Channel
    <3> QED  BY <1>3, <2>1, <2>4, <3>1 DEF EndMove, AttachedTo
  <2>6. wire'[<<p, "near">>] = wire[<<p, "near">>]
    BY <2>5, BothEnds DEF FarGoes, Attached, AttachedTo
  <2> QED  BY <1>3, <2>3, <2>6 DEF Flows, LowOnly
<1> QED  BY <1>1, <1>2, <1>4, SyncedFar

\* An end starts anew: nothing flows.
LEMMA SyncedRestarts ==
  ASSUME NEW p \in Peer, NEW x \in Place, x[1] = p, Synced(p), Shaped(p), Shaped(p)', Restarts(x),
         spent \subseteq spent'
  PROVE  Synced(p)'
<1>1. PICK n : n = end[<<p, "near">>]
  OBVIOUS
<1>2. PICK n1 : n1 = end'[<<p, "near">>]
  OBVIOUS
<1>3. CASE x = <<p, "near">>
  <2>1. n1.on = 0
    BY <1>2, <1>3 DEF Restarts
  <2>2. end'[<<p, "far">>] = end[<<p, "far">>]
    BY <1>3, BothEnds DEF Restarts
  <2>3. ~Busy(n1, chan'[p], wire'[<<p, "near">>], remote'[p], media') => FALSE
    BY <2>1 DEF Busy, AttachedTo
  <2> QED  BY <1>2, <2>1, <2>2, <2>3 DEF Synced
<1>4. CASE x = <<p, "far">>
  <2>1. n1 = n /\ ~end'[<<p, "far">>].full
    BY <1>1, <1>2, <1>4, BothEnds DEF Restarts
  <2>2. ~AttachedTo(end'[<<p, "far">>], chan'[p])
    BY <1>4 DEF Restarts, AttachedTo
  <2>3. chan'[p].alive /\ AttachedTo(n1, chan'[p]) /\ n1.open => FALSE
    BY <1>2, <2>2 DEF Shaped, LinkShape
  <2>4. Busy(n1, chan'[p], wire'[<<p, "near">>], remote'[p], media')
    BY <2>3 DEF Busy
  <2> QED  BY <1>1, <1>2, <2>1, <2>4 DEF Synced
<1> QED  BY <1>3, <1>4, PlacesOf

LEMMA SyncedAttaches ==
  ASSUME LinkTypes, NEW p \in Peer, NEW x \in Place, x[1] = p, Synced(p), Shaped(p),
         Makes(x) \/ (Takes(x) /\ media' = media /\ remote'[p] = remote[p]),
         spent \subseteq spent'
  PROVE  Synced(p)'
<1>1. PICK n \in End : n = end[<<p, "near">>]
  BY BothEnds DEF LinkTypes
<1>2. PICK n1 : n1 = end'[<<p, "near">>]
  OBVIOUS
<1>3. EndFits(n, chan[p]) /\ n.on \in Nat /\ chan[p].gen \in Nat
  BY <1>1 DEF Shaped, LinkShape, LinkTypes, End, Channel
<1>4. CASE x = <<p, "near">>
  <2>1. ~n1.open
    BY <1>2, <1>4 DEF Makes, Takes
  <2>2. Busy(n1, chan'[p], wire'[<<p, "near">>], remote'[p], media')
    BY <2>1 DEF Busy
  <2>3. end'[<<p, "far">>] = end[<<p, "far">>]
    BY <1>4, BothEnds DEF Makes, Takes
  <2> QED  BY <1>2, <2>2, <2>3 DEF Synced
<1>5. CASE x = <<p, "far">> /\ Makes(x)
  <2>1. n1 = n /\ chan'[p].gen = chan[p].gen + 1 /\ end'[<<p, "far">>].full = end[<<p, "far">>].full
    BY <1>1, <1>2, <1>5, BothEnds DEF Makes, Stays
  <2>2. ~AttachedTo(n1, chan'[p])
    BY <1>3, <2>1 DEF EndFits, AttachedTo
  <2>3. Busy(n1, chan'[p], wire'[<<p, "near">>], remote'[p], media')
    BY <2>2 DEF Busy
  <2> QED  BY <1>2, <2>1, <2>3 DEF Synced
<1>6. CASE x = <<p, "far">> /\ Takes(x) /\ media' = media /\ remote'[p] = remote[p]
  <2>1. /\ end'[<<p, "near">>] = end[<<p, "near">>] /\ wire'[<<p, "near">>] = wire[<<p, "near">>]
        /\ chan'[p] = chan[p] /\ end'[<<p, "far">>].full = end[<<p, "far">>].full
    BY <1>6, BothEnds DEF Takes, Stays
  <2> QED  BY <1>6, <2>1 DEF Synced
<1> QED  BY <1>4, <1>5, <1>6, PlacesOf

LEMMA SyncedUntouched ==
  ASSUME NEW p \in Peer, Synced(p), Shaped(p), Untouched(p), spent \subseteq spent',
         remote'[p] = remote[p], media' = media \/ ~end[<<p, "near">>].here
  PROVE  Synced(p)'
<1>1. CASE media' = media
  BY <1>1 DEF Synced, Untouched
<1>2. CASE ~end[<<p, "near">>].here
  <2>1. ~end'[<<p, "near">>].open
    BY <1>2 DEF Untouched, Shaped, LinkShape, EndFits
  <2>2. Busy(end'[<<p, "near">>], chan'[p], wire'[<<p, "near">>], remote'[p], media')
    BY <2>1 DEF Busy
  <2> QED  BY <2>2 DEF Synced, Untouched
<1> QED  BY <1>1, <1>2

-----------------------------------------------------------------------------
(* What the peer knows                                                     *)

\* What the far end acknowledges, or takes for received, was shown once.
Known(p) ==
  /\ \A m \in Range(end[<<p, "far">>].acks) \cup Range(end[<<p, "far">>].got) : shown[p][m] = 1
  /\ \A f \in Range(wire[<<p, "far">>]) : f.type = "chat.ack" => f.id \in Chat /\ shown[p][f.id] = 1

LEMMA KnownNear ==
  ASSUME NEW p \in Peer, Known(p), NEW A, Turn(<<p, "near">>, A), shown' = shown
  PROVE  Known(p)'
<1>1. /\ end'[<<p, "far">>].acks = end[<<p, "far">>].acks
      /\ end'[<<p, "far">>].got = end[<<p, "far">>].got
      /\ Range(wire'[<<p, "far">>]) \subseteq Range(wire[<<p, "far">>])
  BY BothEnds DEF Turn, LowOnly, Same
<1> QED  BY <1>1 DEF Known

LEMMA KnownFar ==
  ASSUME NEW p \in Peer, Known(p), NEW A, Turn(<<p, "far">>, A),
         \A m \in A : m \in Chat /\ shown'[p][m] = 1,
         \A m \in Chat : shown[p][m] = 1 => shown'[p][m] = 1,
         Range(end[<<p, "far">>].got) \subseteq Chat
  PROVE  Known(p)'
<1>1. /\ Range(end'[<<p, "far">>].acks) \subseteq A
      /\ Range(end'[<<p, "far">>].got) \subseteq Range(end[<<p, "far">>].got) \cup A
      /\ Brings(wire[<<p, "far">>], wire'[<<p, "far">>], A, Ids(end'[<<p, "far">>].queue))
  BY DEF Turn, EndMove
<1>2. \A m \in Range(end'[<<p, "far">>].acks) \cup Range(end'[<<p, "far">>].got) : shown'[p][m] = 1
  BY <1>1 DEF Known
<1>3. ASSUME NEW f \in Range(wire'[<<p, "far">>]), f.type = "chat.ack"
      PROVE  f.id \in Chat /\ shown'[p][f.id] = 1
  <2>1. f \in Range(wire[<<p, "far">>]) \/ f.id \in A
    BY <1>1, <1>3 DEF Brings
  <2> QED  BY <1>3, <2>1 DEF Known
<1> QED  BY <1>2, <1>3 DEF Known

\* An end that is new knows nothing, or as much as before.
LEMMA KnownAnew ==
  ASSUME NEW p \in Peer, Known(p), NEW x \in Place, x[1] = p, Restarts(x) \/ Makes(x) \/ Takes(x),
         shown' = shown
  PROVE  Known(p)'
<1>1. Range(<<>>) = {}
  BY DEF Range
<1>2. /\ end'[<<p, "far">>].acks = end[<<p, "far">>].acks \/ end'[<<p, "far">>].acks = <<>>
      /\ end'[<<p, "far">>].got = end[<<p, "far">>].got \/ end'[<<p, "far">>].got = <<>>
      /\ wire'[<<p, "far">>] = wire[<<p, "far">>] \/ wire'[<<p, "far">>] = <<>>
  <2>1. CASE x = <<p, "near">>
    BY <2>1, BothEnds DEF Restarts, Makes, Takes
  <2>2. CASE x = <<p, "far">>
    BY <2>2, BothEnds DEF Restarts, Makes, Takes, Stays
  <2> QED  BY <2>1, <2>2, PlacesOf
<1>3. /\ Range(end'[<<p, "far">>].acks) \subseteq Range(end[<<p, "far">>].acks)
      /\ Range(end'[<<p, "far">>].got) \subseteq Range(end[<<p, "far">>].got)
      /\ Range(wire'[<<p, "far">>]) \subseteq Range(wire[<<p, "far">>])
  BY <1>1, <1>2
<1> QED  BY <1>3 DEF Known

LEMMA KnownUntouched ==
  ASSUME NEW p \in Peer, Known(p), Untouched(p), shown'[p] = shown[p]
  PROVE  Known(p)'
BY DEF Known, Untouched

\* What is under way to a peer that listens is of the sender it knows, and is on
\* the books.
Heading(p) ==
  AttachedTo(end[<<p, "far">>], chan[p]) =>
    \A f \in Range(wire[<<p, "near">>]) :
      f.type = "chat.message" =>
        f.id \in Chat /\ author[f.id] = end[<<p, "far">>].from /\ ledger[f.id][p] # "none"

\* No author changes, and what is on the books for p stays there.
Keeps(p) ==
  \A m \in Chat : /\ author[m] # None => author'[m] = author[m]
                  /\ ledger[m][p] # "none" => ledger'[m][p] # "none"

LEMMA HeadingNear ==
  ASSUME NEW p \in Peer, Heading(p), Shaped(p), Member(p), NEW A, Turn(<<p, "near">>, A), Keeps(p),
         \A m \in Ids(end'[<<p, "near">>].queue) :
           m \in Chat /\ author'[m] = self /\ ledger'[m][p] # "none"
  PROVE  Heading(p)'
<1>1. PICK n : n = end[<<p, "near">>]
  OBVIOUS
<1>2. PICK f : f = end[<<p, "far">>]
  OBVIOUS
<1>3. PICK f1 : f1 = end'[<<p, "far">>]
  OBVIOUS
<1>4. /\ EndMove(n, end'[<<p, "near">>], AttachedTo(f, chan[p]), chan[p], chan'[p],
                 wire[<<p, "near">>], wire'[<<p, "near">>], A)
      /\ LowOnly(f, f1)
  BY <1>1, <1>2, <1>3, BothEnds DEF Turn
<1> SUFFICES ASSUME AttachedTo(f1, chan'[p]),
                    NEW a \in Range(wire'[<<p, "near">>]), a.type = "chat.message"
             PROVE  a.id \in Chat /\ author'[a.id] = f1.from /\ ledger'[a.id][p] # "none"
  BY <1>3 DEF Heading
<1>5. AttachedTo(f, chan[p]) /\ f1.from = f.from /\ f.from # None
  <2>1. f.from \in Nat
    BY <1>2 DEF Member
  <2> QED  BY <1>4, <2>1, ChatAssumption DEF EndMove, LowOnly, Same, AttachedTo
<1>6. CASE a \in Range(wire[<<p, "near">>])
  <2>1. a.id \in Chat /\ author[a.id] = f.from /\ ledger[a.id][p] # "none"
    BY <1>2, <1>5, <1>6 DEF Heading
  <2> QED  BY <1>5, <2>1 DEF Keeps
<1>7. CASE a \notin Range(wire[<<p, "near">>])
  <2>1. a.id \in Ids(end'[<<p, "near">>].queue)
    BY <1>4, <1>7 DEF EndMove, Brings
  <2>2. AttachedTo(n, chan[p])
    BY <1>4, <1>7 DEF EndMove
  <2>3. n.epoch = f.epoch /\ f.here
    BY <1>1, <1>2, <1>5, <2>2 DEF Shaped, LinkShape, EndFits, AttachedTo
  <2>4. f.from = self
    BY <1>1, <1>2, <2>3 DEF Member
  <2> QED  BY <1>5, <2>1, <2>4
<1> QED  BY <1>6, <1>7

LEMMA HeadingFar ==
  ASSUME LinkTypes, NEW p \in Peer, Heading(p), Member(p), NEW A, Turn(<<p, "far">>, A), Keeps(p)
  PROVE  Heading(p)'
<1>1. PICK f : f = end[<<p, "far">>]
  OBVIOUS
<1>2. PICK f1 : f1 = end'[<<p, "far">>]
  OBVIOUS
<1>3. /\ f1.from = f.from /\ chan'[p].gen = chan[p].gen
      /\ f1.on = f.on \/ f1.on = 0 \/ f1.on < chan[p].gen
      /\ Range(wire'[<<p, "near">>]) \subseteq Range(wire[<<p, "near">>])
  BY <1>1, <1>2, BothEnds DEF Turn, EndMove
<1>4. f.from # None
  BY <1>1, ChatAssumption DEF Member
<1> SUFFICES ASSUME AttachedTo(f1, chan'[p]),
                    NEW a \in Range(wire'[<<p, "near">>]), a.type = "chat.message"
             PROVE  a.id \in Chat /\ author'[a.id] = f1.from /\ ledger'[a.id][p] # "none"
  BY <1>2 DEF Heading
<1>5. AttachedTo(f, chan[p]) /\ a \in Range(wire[<<p, "near">>])
  <2>1. chan[p].gen \in Nat
    BY DEF LinkTypes, Channel
  <2> QED  BY <1>3, <2>1 DEF AttachedTo
<1>6. a.id \in Chat /\ author[a.id] = f.from /\ ledger[a.id][p] # "none"
  BY <1>1, <1>5 DEF Heading
<1> QED  BY <1>3, <1>4, <1>6 DEF Keeps

LEMMA HeadingAnew ==
  ASSUME LinkTypes, NEW p \in Peer, Heading(p), Shaped(p), Member(p), NEW x \in Place, x[1] = p,
         Restarts(x) \/ Makes(x) \/ Takes(x), Keeps(p)
  PROVE  Heading(p)'
<1>1. PICK f : f = end[<<p, "far">>]
  OBVIOUS
<1>2. PICK f1 : f1 = end'[<<p, "far">>]
  OBVIOUS
<1>3. f.from # None /\ Range(<<>>) = {}
  BY <1>1, ChatAssumption DEF Member, Range
<1>4. \/ wire'[<<p, "near">>] = <<>>
      \/ ~AttachedTo(f1, chan'[p])
      \/ f1 = f /\ chan'[p].gen = chan[p].gen /\ wire'[<<p, "near">>] = wire[<<p, "near">>]
  <2>1. CASE x = <<p, "near">>
    BY <1>1, <1>2, <2>1, BothEnds DEF Restarts, Makes, Takes
  <2>2. CASE x = <<p, "far">> /\ ~Takes(x)
    BY <1>1, <1>2, <2>2, BothEnds DEF Restarts, Makes, AttachedTo
  <2>3. CASE x = <<p, "far">> /\ Takes(x)
    <3>1. chan[p].alive /\ ~AttachedTo(f, chan[p]) /\ wire'[<<p, "near">>] = wire[<<p, "near">>]
      BY <1>1, <2>3, BothEnds DEF Takes, Attached, AttachedTo
    <3> QED  BY <1>1, <3>1 DEF Shaped, LinkShape
  <2> QED  BY <2>1, <2>2, <2>3, PlacesOf
<1> SUFFICES ASSUME AttachedTo(f1, chan'[p]),
                    NEW a \in Range(wire'[<<p, "near">>]), a.type = "chat.message"
             PROVE  a.id \in Chat /\ author'[a.id] = f1.from /\ ledger'[a.id][p] # "none"
  BY <1>2 DEF Heading
<1>5. f1 = f /\ AttachedTo(f, chan[p]) /\ a \in Range(wire[<<p, "near">>])
  BY <1>3, <1>4 DEF AttachedTo
<1>6. a.id \in Chat /\ author[a.id] = f.from /\ ledger[a.id][p] # "none"
  BY <1>1, <1>5 DEF Heading
<1> QED  BY <1>3, <1>5, <1>6 DEF Keeps

LEMMA HeadingUntouched ==
  ASSUME NEW p \in Peer, Heading(p), Member(p), Untouched(p), Keeps(p)
  PROVE  Heading(p)'
<1>1. end[<<p, "far">>].from # None
  BY ChatAssumption DEF Member
<1> SUFFICES ASSUME AttachedTo(end[<<p, "far">>], chan[p]),
                    NEW a \in Range(wire[<<p, "near">>]), a.type = "chat.message"
             PROVE  a.id \in Chat /\ author'[a.id] = end[<<p, "far">>].from /\ ledger'[a.id][p] # "none"
  BY DEF Heading, Untouched
<1> QED  BY <1>1 DEF Heading, Keeps

\* A message was shown once if the peer has seen it of its author, and otherwise
\* never.
Credit(p) ==
  /\ \A k \in seen[p] : k[1] = author[k[2]] /\ k[1] # None
  /\ \A m \in Chat : IF <<author[m], m>> \in seen[p] THEN shown[p][m] = 1 ELSE shown[p][m] = 0

LEMMA CreditStays ==
  ASSUME NEW p \in Peer, Credit(p), Keeps(p), seen[p] \subseteq (Nat \cup {None}) \X Chat,
         seen'[p] = seen[p], shown'[p] = shown[p]
  PROVE  Credit(p)'
<1>1. ASSUME NEW k \in seen[p]
      PROVE  k[1] = author'[k[2]] /\ k[1] # None
  BY DEF Credit, Keeps
<1>2. ASSUME NEW m \in Chat
      PROVE  <<author'[m], m>> \in seen[p] <=> <<author[m], m>> \in seen[p]
  <2>1. CASE author[m] # None
    BY <2>1 DEF Keeps
  <2>2. CASE author[m] = None
    <3>1. ASSUME NEW a, <<a, m>> \in seen[p] PROVE FALSE
      <4>1. <<a, m>>[1] = author[<<a, m>>[2]] /\ <<a, m>>[1] # None
        BY <3>1 DEF Credit
      <4> QED  BY <2>2, <4>1
    <3> QED  BY <3>1
  <2> QED  BY <2>1, <2>2
<1> QED  BY <1>1, <1>2 DEF Credit

-----------------------------------------------------------------------------
(* The books of the sender                                                 *)

Distinct(q) == \A i, j \in 1..Len(q) : q[i].id = q[j].id => i = j

LEMMA AlikeDistinct ==
  ASSUME NEW q \in Seq(Entry), NEW r \in Seq(Entry), Alike(q, r), Distinct(q)
  PROVE  Distinct(r)
BY DEF Alike, Distinct

LEMMA NoneDistinct == Distinct(<<>>) /\ Ids(<<>>) = {}
  BY DEF Distinct, Ids

\* Taking messages out
LEMMA OnlyIds ==
  ASSUME NEW q \in Seq(Entry), NEW T, Distinct(q)
  PROVE  /\ Only(q, T) \in Seq(Entry) /\ Distinct(Only(q, T))
         /\ Ids(Only(q, T)) = {c.id : c \in Range(q) \cap T}
         /\ q = <<>> => Only(q, T) = <<>>
<1>1. PICK r \in Seq(Entry) : r = Only(q, T) /\ Len(r) \in Nat /\ Range(r) = Range(q) \cap T
  <2>1. /\ Only(q, T) \in Seq(Entry) /\ Len(Only(q, T)) \in Nat
        /\ Range(Only(q, T)) = Range(q) \cap T
    BY OnlyPlaces
  <2> QED  BY <2>1
<1>2. PICK f \in [1..Len(r) -> 1..Len(q)] :
         /\ \A k \in 1..Len(r) : r[k] = q[f[k]]
         /\ \A k, l \in 1..Len(r) : f[k] = f[l] => k = l
  BY <1>1, OnlyPlaces
<1>3. Distinct(r)
  BY <1>2 DEF Distinct
<1>4. Ids(r) = {c.id : c \in Range(r)}
  BY AlikeItself, AlikeIds
<1>5. q = <<>> => r = <<>>
  <2>1. (q = <<>> <=> Range(q) = {}) /\ (r = <<>> <=> Range(r) = {})
    BY EmptyRange
  <2> QED  BY <1>1, <2>1
<1> QED  BY <1>1, <1>3, <1>4, <1>5

\* A queue with one more message
LEMMA EnqueuedOf ==
  ASSUME NEW e \in End, NEW m \in Chat, NEW g, g = Enqueued(e, m)
  PROVE  /\ g \in End /\ Prepared(e, g) /\ g.media = e.media /\ g.quiet = e.quiet
         /\ Ids(g.queue) = Ids(e.queue) \cup {m}
         /\ Distinct(e.queue) /\ m \notin Ids(e.queue) => Distinct(g.queue)
<1>1. PICK q \in Seq(Entry) : q = e.queue
  BY DEF End
<1>2. PICK c \in Entry : c = [id |-> m, sent |-> FALSE, ever |-> FALSE]
  BY DEF Entry
<1>3. PICK r \in Seq(Entry) :
         /\ r = Append(q, c) /\ Len(r) = Len(q) + 1 /\ Len(q) \in Nat /\ r[Len(q) + 1] = c
         /\ \A i \in 1..Len(q) : r[i] = q[i]
  <2>1. /\ Append(q, c) \in Seq(Entry) /\ Len(Append(q, c)) = Len(q) + 1 /\ Len(q) \in Nat
        /\ Append(q, c)[Len(q) + 1] = c
        /\ \A i \in 1..Len(q) : Append(q, c)[i] = q[i]
    BY AppendsTo
  <2> QED  BY <2>1
<1>4. c.id = m
  BY <1>2
<1>5. Ids(r) = Ids(q) \cup {m}
  BY <1>3, <1>4 DEF Ids
<1>6. Distinct(q) /\ m \notin Ids(q) => Distinct(r)
  BY <1>3, <1>4 DEF Distinct, Ids
<1>7. g = [e EXCEPT !.queue = r]
  BY <1>1, <1>2, <1>3 DEF Enqueued
<1>8. g \in End /\ Prepared(e, g) /\ g.media = e.media /\ g.quiet = e.quiet /\ g.queue = r
  BY ZenonT(40), <1>7 DEF End, Prepared
<1> QED  BY <1>1, <1>5, <1>6, <1>8

\* The messages p has not reported on
Awaited(p) == {m \in Chat : ledger[m][p] = "pending"}

Waiting(p) ==
  /\ Ids(end[<<p, "near">>].queue) = Awaited(p)
  /\ Distinct(end[<<p, "near">>].queue)
  /\ \A m \in Awaited(p) : author[m] = self
  /\ ~end[<<p, "near">>].here => end[<<p, "near">>].queue = <<>>

BookTypes ==
  /\ ledger \in [Chat -> [Peer -> State]] /\ kept \subseteq Chat /\ history \in Seq(Chat)
  /\ author \in [Chat -> Nat \cup {None}] /\ self \in Nat

BookFits ==
  /\ kept = Range(history) \cup {m \in Chat : \E p \in Peer : ledger[m][p] = "pending"}
  /\ \A i, j \in 1..Len(history) : history[i] = history[j] => i = j
  /\ \A m \in Chat : author[m] = None =>
       m \notin Range(history) /\ \A p \in Peer : ledger[m][p] = "none"

\* Of the reports only those of p on M may change, and only if they are open.
Reported(p, M, s) ==
  \A m \in Chat, q \in Peer :
    ledger'[m][q] = IF q = p /\ m \in M /\ ledger[m][q] = "pending" THEN s ELSE ledger[m][q]

LEMMA MarkOf ==
  ASSUME BookTypes, BookFits, NEW p \in Peer, NEW M, NEW s \in {"failed", "acknowledged"},
         Mark(p, M, s), history' = history, author' = author, self' = self
  PROVE  /\ BookTypes' /\ BookFits' /\ Reported(p, M, s)
         /\ \A q \in Peer : Keeps(q)
<1>1. PICK marked : marked = {m \in M : m \in kept /\ ledger[m][p] = "pending"}
  OBVIOUS
<1>2. /\ ledger' = [m \in Chat |-> IF m \in marked THEN [ledger[m] EXCEPT ![p] = s] ELSE ledger[m]]
      /\ kept' = kept \ {m \in marked : /\ m \notin Range(history)
                                        /\ \A q \in Peer \ {p} : ledger[m][q] # "pending"}
  BY <1>1 DEF Mark
<1>3. kept = Range(history) \cup {m \in Chat : \E q \in Peer : ledger[m][q] = "pending"}
  BY DEF BookFits
<1>4. ASSUME NEW m \in Chat, NEW q \in Peer
      PROVE  /\ m \in marked <=> m \in M /\ ledger[m][p] = "pending"
             /\ ledger'[m][q] = IF q = p /\ m \in M /\ ledger[m][q] = "pending" THEN s ELSE ledger[m][q]
  <2>1. m \in marked <=> m \in M /\ ledger[m][p] = "pending"
    BY <1>1, <1>3
  <2>2. ledger[m] \in [Peer -> State]
    BY DEF BookTypes
  <2>3. CASE m \in marked
    <3>1. ledger'[m] = [ledger[m] EXCEPT ![p] = s]
      BY <1>2, <2>3
    <3> QED  BY <2>1, <2>2, <2>3, <3>1
  <2>4. CASE m \notin marked
    <3>1. ledger'[m] = ledger[m]
      BY <1>2, <2>4
    <3> QED  BY <2>1, <2>4, <3>1
  <2> QED  BY <2>1, <2>3, <2>4
<1>5. Reported(p, M, s)
  BY <1>4 DEF Reported
<1>6. ledger' \in [Chat -> [Peer -> State]] /\ kept' \subseteq Chat
  <2>1. ASSUME NEW m \in Chat
        PROVE  (IF m \in marked THEN [ledger[m] EXCEPT ![p] = s] ELSE ledger[m]) \in [Peer -> State]
    BY DEF BookTypes, State
  <2>2. kept' \subseteq kept
    BY <1>2
  <2> QED  BY <1>2, <2>1, <2>2 DEF BookTypes
<1>7. BookTypes'
  BY <1>6 DEF BookTypes
<1>8. kept' = Range(history) \cup {m \in Chat : \E q \in Peer : ledger'[m][q] = "pending"}
  <2>1. Range(history) \subseteq Chat
    <3>1. PICK h \in Seq(Chat) : h = history
      BY DEF BookTypes
    <3>2. Range(h) = {h[i] : i \in 1..Len(h)}
      BY RangeEquality
    <3> QED  BY <3>1, <3>2
  <2>2. ASSUME NEW m \in Chat
        PROVE  m \in kept' <=> m \in Range(history) \/ \E q \in Peer : ledger'[m][q] = "pending"
    <3>1. CASE m \in marked
      <4>1. m \in kept' <=> m \in Range(history) \/ \E q \in Peer \ {p} : ledger[m][q] = "pending"
        BY <1>1, <1>2, <3>1
      <4>2. \A q \in Peer : ledger'[m][q] = "pending" <=> q # p /\ ledger[m][q] = "pending"
        BY <1>4, <3>1
      <4> QED  BY <4>1, <4>2
    <3>2. CASE m \notin marked
      <4>1. m \in kept' <=> m \in kept
        BY <1>2, <3>2
      <4>2. \A q \in Peer : ledger'[m][q] = ledger[m][q]
        BY <1>4, <3>2
      <4> QED  BY <1>3, <4>1, <4>2
    <3> QED  BY <3>1, <3>2
  <2> QED  BY <1>6, <2>1, <2>2
<1>9. BookFits'
  <2>1. \A m \in Chat : author[m] = None =>
          m \notin Range(history) /\ \A q \in Peer : ledger'[m][q] = "none"
    BY <1>4 DEF BookFits
  <2> QED  BY <1>8, <2>1 DEF BookFits
<1>10. \A q \in Peer : Keeps(q)
  BY <1>4 DEF Keeps
<1> QED  BY <1>5, <1>7, <1>9, <1>10

LEMMA WaitingStays ==
  ASSUME LinkTypes, LinkTypes', BookTypes, NEW p \in Peer, Waiting(p), Keeps(p), self' = self,
         \A m \in Chat : ledger'[m][p] = ledger[m][p],
         Alike(end[<<p, "near">>].queue, end'[<<p, "near">>].queue),
         end'[<<p, "near">>].here = end[<<p, "near">>].here
  PROVE  Waiting(p)'
<1>1. PICK q \in Seq(Entry) : q = end[<<p, "near">>].queue
  BY BothEnds DEF LinkTypes, End
<1>2. PICK r \in Seq(Entry) : r = end'[<<p, "near">>].queue
  BY BothEnds DEF LinkTypes, End
<1>3. Alike(q, r) /\ Distinct(q) /\ Ids(q) = Awaited(p)
  BY <1>1, <1>2 DEF Waiting
<1>4. Distinct(r) /\ Ids(r) = Ids(q) /\ (q = <<>> => r = <<>>)
  BY <1>3, AlikeDistinct, AlikeIds
<1>5. Awaited(p)' = Awaited(p)
  BY DEF Awaited
<1>6. ASSUME NEW m \in Awaited(p)
      PROVE  author'[m] = self
  <2>1. author[m] = self /\ self # None /\ m \in Chat
    BY ChatAssumption DEF Waiting, BookTypes, Awaited
  <2> QED  BY <2>1 DEF Keeps
<1> QED  BY <1>1, <1>2, <1>3, <1>4, <1>5, <1>6 DEF Waiting

LEMMA WaitingEmpty ==
  ASSUME NEW p \in Peer, end'[<<p, "near">>].queue = <<>>,
         \A m \in Chat : ledger'[m][p] # "pending"
  PROVE  Waiting(p)'
<1>1. Awaited(p)' = {}
  BY DEF Awaited
<1> QED  BY <1>1, NoneDistinct DEF Waiting

-----------------------------------------------------------------------------
(* The invariant                                                           *)

LinkFits(p) ==
  Shaped(p) /\ Member(p) /\ Synced(p) /\ Known(p) /\ Heading(p) /\ Credit(p) /\ Waiting(p)

ChatInv == ChatTypes /\ BookFits /\ \A p \in Peer : LinkFits(p)

\* The same participants, and the books go on.
Abides(p) ==
  /\ self' = self /\ spent \subseteq spent'
  /\ p \in roster' <=> p \in roster
  /\ <<p, "leave">> \in spent' <=> <<p, "leave">> \in spent
  /\ Keeps(p)

\* The reports of p stay too, and what the peer shows.
Quiet(p) ==
  /\ Abides(p) /\ remote'[p] = remote[p]
  /\ shown'[p] = shown[p] /\ seen'[p] = seen[p]
  /\ \A m \in Chat : ledger'[m][p] = ledger[m][p]

LEMMA TypesOf ==
  ASSUME ChatTypes
  PROVE  /\ LinkTypes /\ BookTypes /\ media \in Nat /\ roster \subseteq Peer
         /\ \A p \in Peer : seen[p] \subseteq (Nat \cup {None}) \X Chat
         /\ \A p \in Peer : Range(end[<<p, "far">>].got) \subseteq Chat
                            /\ Range(end[<<p, "far">>].acks) \subseteq Chat
<1>1. LinkTypes /\ BookTypes /\ media \in Nat /\ roster \subseteq Peer
      /\ \A p \in Peer : seen[p] \subseteq (Nat \cup {None}) \X Chat
  BY DEF ChatTypes, LinkTypes, BookTypes
<1>2. ASSUME NEW p \in Peer
      PROVE  Range(end[<<p, "far">>].got) \subseteq Chat /\ Range(end[<<p, "far">>].acks) \subseteq Chat
  <2>1. PICK s \in Seq(Chat) : s = end[<<p, "far">>].got
    BY <1>1, BothEnds DEF LinkTypes, End
  <2>2. PICK t \in Seq(Chat) : t = end[<<p, "far">>].acks
    BY <1>1, BothEnds DEF LinkTypes, End
  <2>3. Range(s) = {s[i] : i \in 1..Len(s)} /\ Range(t) = {t[i] : i \in 1..Len(t)}
    BY RangeEquality
  <2> QED  BY <2>1, <2>2, <2>3
<1> QED  BY <1>1, <1>2

\* A link that nothing happens to
LEMMA OtherFits ==
  ASSUME ChatTypes, LinkTypes', NEW p \in Peer, LinkFits(p), Untouched(p), Quiet(p),
         media' = media \/ ~end[<<p, "near">>].here
  PROVE  LinkFits(p)'
<1>1. LinkTypes /\ BookTypes /\ seen[p] \subseteq (Nat \cup {None}) \X Chat
  BY TypesOf
<1>2. Keeps(p)
  BY DEF Quiet, Abides
<1>3. Shaped(p)' /\ Synced(p)'
  BY ShapedUntouched, SyncedUntouched DEF LinkFits, Quiet, Abides
<1>4. Member(p)'
  BY DEF LinkFits, Member, Quiet, Abides, Untouched
<1>5. Known(p)' /\ Heading(p)' /\ Credit(p)'
  BY <1>1, <1>2, KnownUntouched, HeadingUntouched, CreditStays DEF LinkFits, Quiet, Abides
<1>6. Waiting(p)'
  BY <1>1, <1>2, WaitingStays, AlikeItself DEF LinkFits, Quiet, Abides, Untouched
<1> QED  BY <1>3, <1>4, <1>5, <1>6 DEF LinkFits

LEMMA NearFits ==
  ASSUME ChatTypes, LinkTypes', NEW p \in Peer, LinkFits(p), NEW A, Turn(<<p, "near">>, A), Abides(p),
         shown' = shown, seen' = seen, Synced(p)', Waiting(p)'
  PROVE  LinkFits(p)'
<1>1. LinkTypes /\ BookTypes /\ seen[p] \subseteq (Nat \cup {None}) \X Chat
  BY TypesOf
<1>2. Keeps(p)
  BY DEF Abides
<1>3. Shaped(p)'
  BY <1>1, ShapedNear DEF LinkFits
<1>4. Member(p)'
  <2>1. /\ end'[<<p, "near">>].here = end[<<p, "near">>].here
        /\ end'[<<p, "near">>].epoch = end[<<p, "near">>].epoch
        /\ end'[<<p, "far">>].here = end[<<p, "far">>].here
        /\ end'[<<p, "far">>].epoch = end[<<p, "far">>].epoch
        /\ end'[<<p, "far">>].from = end[<<p, "far">>].from
    BY BothEnds, TurnKeeps
  <2> QED  BY <2>1 DEF LinkFits, Member, Abides
<1>5. Known(p)' /\ Credit(p)'
  BY <1>1, <1>2, KnownNear, CreditStays DEF LinkFits, Abides
<1>6. Heading(p)'
  <2>1. ASSUME NEW m \in Ids(end'[<<p, "near">>].queue)
        PROVE  m \in Chat /\ author'[m] = self /\ ledger'[m][p] # "none"
    BY DEF Waiting, Awaited, Abides
  <2> QED  BY <1>2, <2>1, HeadingNear DEF LinkFits
<1> QED  BY <1>3, <1>4, <1>5, <1>6 DEF LinkFits

LEMMA FarFits ==
  ASSUME ChatTypes, LinkTypes', NEW p \in Peer, LinkFits(p), NEW A, Turn(<<p, "far">>, A), Abides(p),
         \A m \in Chat : ledger'[m][p] = ledger[m][p],
         Synced(p)', Known(p)', Credit(p)'
  PROVE  LinkFits(p)'
<1>1. LinkTypes /\ BookTypes
  BY TypesOf
<1>2. Keeps(p)
  BY DEF Abides
<1>3. Shaped(p)'
  BY <1>1, ShapedFar DEF LinkFits
<1>4. /\ end'[<<p, "near">>].here = end[<<p, "near">>].here
      /\ end'[<<p, "near">>].epoch = end[<<p, "near">>].epoch
      /\ end'[<<p, "far">>].here = end[<<p, "far">>].here
      /\ end'[<<p, "far">>].epoch = end[<<p, "far">>].epoch
      /\ end'[<<p, "far">>].from = end[<<p, "far">>].from
  BY BothEnds, TurnKeeps
<1>5. Member(p)'
  BY <1>4 DEF LinkFits, Member, Abides
<1>6. Heading(p)'
  BY <1>1, <1>2, HeadingFar DEF LinkFits
<1>7. Waiting(p)'
  <2>1. end'[<<p, "near">>].queue = end[<<p, "near">>].queue
    BY BothEnds DEF Turn, LowOnly
  <2> QED  BY <1>1, <1>2, <1>4, <2>1, WaitingStays, AlikeItself DEF LinkFits, Abides
<1> QED  BY <1>3, <1>5, <1>6, <1>7 DEF LinkFits

\* A new channel or connection
LEMMA AnewFits ==
  ASSUME ChatTypes, LinkTypes', NEW p \in Peer, LinkFits(p), NEW x \in Place, x[1] = p,
         Restarts(x) \/ Makes(x) \/ Takes(x), Keeps(p), shown' = shown, seen' = seen,
         Shaped(p)', Member(p)', Synced(p)', Waiting(p)'
  PROVE  LinkFits(p)'
<1>1. LinkTypes /\ seen[p] \subseteq (Nat \cup {None}) \X Chat
  BY TypesOf
<1>2. Known(p)'
  BY KnownAnew DEF LinkFits
<1>3. Heading(p)'
  BY <1>1, HeadingAnew DEF LinkFits
<1>4. Credit(p)'
  BY <1>1, CreditStays DEF LinkFits
<1> QED  BY <1>2, <1>3, <1>4 DEF LinkFits

-----------------------------------------------------------------------------
(* Steps of one link                                                       *)

\* What the sender may rely on goes on.
MailStep == [Mailbox!Next]_(Mailbox!vars)

LEMMA MailRests ==
  ASSUME ledger' = ledger, shown' = shown
  PROVE  MailStep
BY DEF MailStep, Mailbox!vars

LEMMA ElsewhereRests ==
  ASSUME ChatInv, LinkTypes', Elsewhere, spent \subseteq spent'
  PROVE  /\ ChatTypes' /\ BookFits' /\ MailStep
         /\ self' = self /\ roster' = roster /\ media' = media
         /\ ledger' = ledger /\ shown' = shown /\ seen' = seen /\ remote' = remote
         /\ \A q \in Peer : /\ Keeps(q)
                            /\ (<<q, "leave">> \in spent' => <<q, "leave">> \in spent) => Quiet(q)
<1>1. /\ self' = self /\ roster' = roster /\ media' = media
      /\ ledger' = ledger /\ kept' = kept /\ history' = history /\ author' = author
      /\ shown' = shown /\ seen' = seen /\ remote' = remote
  BY DEF Elsewhere, ledgerVars, mineVars, theirVars
<1>2. ChatTypes'
  BY <1>1 DEF ChatInv, ChatTypes, LinkTypes
<1>3. BookFits'
  BY <1>1 DEF ChatInv, BookFits
<1>4. ASSUME NEW q \in Peer
      PROVE  Keeps(q) /\ ((<<q, "leave">> \in spent' => <<q, "leave">> \in spent) => Quiet(q))
  <2>1. Keeps(q)
    BY <1>1 DEF Keeps
  <2> QED  BY <1>1, <2>1 DEF Quiet, Abides
<1> QED  BY <1>1, <1>2, <1>3, <1>4, MailRests

\* The links of the others
LEMMA OthersFit ==
  ASSUME ChatInv, LinkTypes', NEW p, \A q \in Peer \ {p} : Untouched(q) /\ Quiet(q), media' = media
  PROVE  \A q \in Peer \ {p} : LinkFits(q)'
<1> TAKE q \in Peer \ {p}
<1>1. ChatTypes /\ LinkFits(q) /\ Untouched(q) /\ Quiet(q)
  BY DEF ChatInv
<1> QED  BY <1>1, OtherFits

LEMMA PlainFits ==
  ASSUME ChatInv, NEW x \in Place, Plain(x), Elsewhere
  PROVE  ChatInv' /\ MailStep
<1>1. PICK p \in Peer : p = x[1]
  BY PlacesOf
<1>2. /\ LinkTypes' /\ Turn(x, Range(end[x].acks)) /\ Alike(end[x].queue, end'[x].queue)
      /\ NearGoes(x) /\ FarGoes(x) /\ FullGoes(x) /\ NobodyLeaves
      /\ \A q \in Peer \ {p} : Untouched(q)
  BY <1>1 DEF Plain
<1>3. spent \subseteq spent' /\ \A q \in Peer : <<q, "leave">> \in spent' => <<q, "leave">> \in spent
  BY <1>2 DEF NobodyLeaves
<1>4. /\ ChatTypes' /\ BookFits' /\ MailStep
      /\ self' = self /\ roster' = roster /\ media' = media
      /\ ledger' = ledger /\ shown' = shown /\ seen' = seen /\ remote' = remote
      /\ \A q \in Peer : Quiet(q)
  BY <1>2, <1>3, ElsewhereRests
<1>5. \A q \in Peer \ {p} : LinkFits(q)'
  BY <1>2, <1>4, OthersFit
<1>6. ChatTypes /\ LinkFits(p) /\ Quiet(p) /\ Abides(p) /\ Keeps(p)
  BY <1>4 DEF ChatInv, Quiet, Abides
<1>7. /\ LinkTypes /\ BookTypes
      /\ \A m \in Range(end[<<p, "far">>].acks) : m \in Chat
      /\ Range(end[<<p, "far">>].got) \subseteq Chat
  BY <1>6, TypesOf
<1>8. LinkFits(p)'
  <2>1. CASE x = <<p, "near">>
    <3>1. Turn(<<p, "near">>, Range(end[x].acks)) /\ NearGoes(<<p, "near">>)
      BY <1>2, <2>1
    <3>2. Synced(p)'
      BY <1>3, <1>4, <1>6, <3>1, SyncedNearGoes DEF LinkFits
    <3>3. Waiting(p)'
      <4>1. /\ Alike(end[<<p, "near">>].queue, end'[<<p, "near">>].queue)
            /\ end'[<<p, "near">>].here = end[<<p, "near">>].here
        BY <1>2, <2>1, <3>1 DEF Turn, EndMove
      <4> QED  BY <1>2, <1>4, <1>6, <1>7, <4>1, WaitingStays DEF LinkFits
    <3> QED  BY <1>2, <1>4, <1>6, <3>1, <3>2, <3>3, NearFits
  <2>2. CASE x = <<p, "far">>
    <3>1. /\ Turn(<<p, "far">>, Range(end[<<p, "far">>].acks)) /\ FarGoes(<<p, "far">>)
          /\ FullGoes(<<p, "far">>)
      BY <1>2, <2>2
    <3>2. Shaped(p)'
      BY <1>2, <1>6, <1>7, <3>1, ShapedFar DEF LinkFits
    <3>3. Synced(p)'
      BY <1>3, <1>4, <1>6, <1>7, <3>1, <3>2, SyncedFarGoes DEF LinkFits
    <3>4. Known(p)'
      BY <1>4, <1>6, <1>7, <3>1, KnownFar DEF LinkFits, Known
    <3>5. Credit(p)'
      BY <1>4, <1>6, TypesOf, CreditStays DEF LinkFits
    <3> QED  BY <1>2, <1>4, <1>6, <3>1, <3>3, <3>4, <3>5, FarFits
  <2> QED  BY <1>1, <2>1, <2>2, PlacesOf
<1> QED  BY <1>4, <1>5, <1>8 DEF ChatInv

LEMMA IgnoreFits ==
  ASSUME ChatInv, NEW x \in Place, Ignore(x)
  PROVE  ChatInv' /\ MailStep
<1>1. PICK p \in Peer : p = x[1]
  BY PlacesOf
<1>2. ChatTypes /\ LinkFits(p) /\ LinkTypes /\ BookTypes /\ Elsewhere
      /\ (\A m \in Range(end[<<p, "far">>].acks) : m \in Chat)
      /\ Range(end[<<p, "far">>].got) \subseteq Chat
  BY TypesOf DEF ChatInv, Ignore
<1>3. x = <<p, "near">> \/ x = <<p, "far">>
  BY <1>1, PlacesOf
<1>4. EndFits(end[x], chan[x[1]])
  BY <1>1, <1>2, <1>3 DEF LinkFits, Shaped, LinkShape
<1>5. /\ Half(x, Range(end[x].acks)) /\ end'[x] = end[x] /\ NearGoes(x) /\ end[x].full
  BY <1>2, <1>4, IgnoreTurns
<1>6. /\ LinkTypes' /\ Turn(x, Range(end[x].acks)) /\ FullGoes(x) /\ NobodyLeaves
      /\ \A q \in Peer \ {p} : Untouched(q)
  BY <1>1, <1>5 DEF Half
<1>7. spent \subseteq spent' /\ \A q \in Peer : <<q, "leave">> \in spent' => <<q, "leave">> \in spent
  BY <1>6 DEF NobodyLeaves
<1>8. /\ ChatTypes' /\ BookFits' /\ MailStep
      /\ self' = self /\ roster' = roster /\ media' = media
      /\ ledger' = ledger /\ shown' = shown /\ seen' = seen /\ remote' = remote
      /\ \A q \in Peer : Quiet(q)
  BY <1>2, <1>6, <1>7, ElsewhereRests
<1>9. \A q \in Peer \ {p} : LinkFits(q)'
  BY <1>6, <1>8, OthersFit
<1>10. Abides(p) /\ Keeps(p)
  BY <1>8 DEF Quiet, Abides
<1>11. LinkFits(p)'
  <2>1. CASE x = <<p, "near">>
    <3>1. Turn(<<p, "near">>, Range(end[x].acks)) /\ NearGoes(<<p, "near">>)
      BY <1>5, <1>6, <2>1
    <3>2. Synced(p)'
      BY <1>2, <1>7, <1>8, <3>1, SyncedNearGoes DEF LinkFits
    <3>3. Waiting(p)'
      BY <1>2, <1>5, <1>6, <1>8, <1>10, <2>1, WaitingStays, AlikeItself DEF LinkFits
    <3> QED  BY <1>2, <1>6, <1>8, <1>10, <3>1, <3>2, <3>3, NearFits
  <2>2. CASE x = <<p, "far">>
    <3>1. /\ Turn(<<p, "far">>, Range(end[<<p, "far">>].acks)) /\ FullGoes(<<p, "far">>)
          /\ end[<<p, "far">>].full
      BY <1>5, <1>6, <2>2
    <3>2. <<p, "flood">> \in spent
      BY <1>2, <3>1 DEF LinkFits, Synced
    <3>3. Synced(p)'
      BY <1>2, <1>7, <1>8, <3>1, <3>2, SyncedFar DEF LinkFits
    <3>4. Known(p)'
      BY <1>2, <1>8, <3>1, KnownFar DEF LinkFits, Known
    <3>5. Credit(p)'
      BY <1>2, <1>8, <1>10, TypesOf, CreditStays DEF LinkFits
    <3> QED  BY <1>2, <1>6, <1>8, <1>10, <3>1, <3>3, <3>4, <3>5, FarFits
  <2> QED  BY <1>3, <2>1, <2>2
<1> QED  BY <1>8, <1>9, <1>11 DEF ChatInv

\* A channel is made, or arrives.
LEMMA AttachFits ==
  ASSUME ChatInv, NEW x \in Place, CreateChannel(x) \/ ChannelArrives(x)
  PROVE  ChatInv' /\ MailStep
<1>1. PICK p \in Peer : p = x[1]
  BY PlacesOf
<1>2. ChatTypes /\ LinkFits(p) /\ LinkTypes /\ BookTypes
  BY TypesOf DEF ChatInv
<1>3. /\ LinkTypes' /\ (Makes(x) \/ Takes(x)) /\ \A q \in Peer \ {p} : Untouched(q)
  BY <1>1, <1>2, CreateMakes, ArrivesTakes
<1>4. Elsewhere /\ NobodyLeaves /\ spent \subseteq spent'
      /\ \A q \in Peer : <<q, "leave">> \in spent' => <<q, "leave">> \in spent
  <2>1. CASE CreateChannel(x)
    <3>1. Elsewhere
      BY <2>1, Zenon DEF CreateChannel
    <3> QED  BY <1>2, <2>1, <3>1, CreateMakes DEF NobodyLeaves
  <2>2. CASE ChannelArrives(x)
    BY <2>2 DEF ChannelArrives, NobodyLeaves
  <2> QED  BY <2>1, <2>2
<1>5. /\ ChatTypes' /\ BookFits' /\ MailStep
      /\ self' = self /\ roster' = roster /\ media' = media
      /\ ledger' = ledger /\ shown' = shown /\ seen' = seen /\ remote' = remote
      /\ \A q \in Peer : Quiet(q)
  BY <1>3, <1>4, ElsewhereRests
<1>6. \A q \in Peer \ {p} : LinkFits(q)'
  BY <1>3, <1>5, OthersFit
<1>7. Abides(p) /\ Keeps(p)
  BY <1>5 DEF Quiet, Abides
<1>8. LinkFits(p)'
  <2>1. Shaped(p)'
    BY <1>1, <1>2, <1>3, ShapedAttaches DEF LinkFits
  <2>2. Synced(p)'
    BY <1>1, <1>2, <1>3, <1>4, <1>5, SyncedAttaches DEF LinkFits
  <2>3. /\ Stays(end[x], end'[x]) /\ Alike(end[x].queue, end'[x].queue)
        /\ end'[Other(x)] = end[Other(x)]
    BY <1>3 DEF Makes, Takes
  <2>4. \/ x = <<p, "near">> /\ Other(x) = <<p, "far">>
        \/ x = <<p, "far">> /\ Other(x) = <<p, "near">>
    BY <1>1, PlacesOf
  <2>5. Member(p)'
    <3>1. /\ end'[<<p, "near">>].here = end[<<p, "near">>].here
          /\ end'[<<p, "near">>].epoch = end[<<p, "near">>].epoch
          /\ end'[<<p, "far">>].here = end[<<p, "far">>].here
          /\ end'[<<p, "far">>].epoch = end[<<p, "far">>].epoch
          /\ end'[<<p, "far">>].from = end[<<p, "far">>].from
      BY <2>3, <2>4 DEF Stays
    <3> QED  BY <1>2, <1>4, <1>5, <3>1, MemberStays DEF LinkFits
  <2>6. Waiting(p)'
    <3>1. /\ Alike(end[<<p, "near">>].queue, end'[<<p, "near">>].queue)
          /\ end'[<<p, "near">>].here = end[<<p, "near">>].here
      BY <2>3, <2>4, AlikeItself DEF Stays
    <3> QED  BY <1>2, <1>3, <1>5, <1>7, <3>1, WaitingStays DEF LinkFits
  <2> QED  BY <1>1, <1>2, <1>3, <1>5, <1>7, <2>1, <2>2, <2>5, <2>6, AnewFits
<1> QED  BY <1>5, <1>6, <1>8 DEF ChatInv

-----------------------------------------------------------------------------
(* Ends that start anew                                                    *)

LEMMA MailFails ==
  ASSUME \A m \in Chat, q \in Peer : \/ ledger'[m][q] = ledger[m][q]
                                     \/ ledger[m][q] = "pending" /\ ledger'[m][q] = "failed",
         BookTypes', shown' = shown
  PROVE  MailStep
<1>1. DOMAIN ledger' = Chat
  BY DEF BookTypes
<1>2. Mailbox!Change(Chat, {"pending"}, {"failed"})
  BY <1>1 DEF Mailbox!Change
<1> QED  BY <1>2 DEF MailStep, Mailbox!Fail, Mailbox!Next

LEMMA DisposeOf ==
  ASSUME ChatInv, NEW x \in Place, Dispose(x) \/ (x[2] = "far" /\ UNCHANGED ledgerVars),
         history' = history, author' = author, self' = self, shown' = shown
  PROVE  /\ BookTypes' /\ BookFits' /\ MailStep
         /\ \A q \in Peer : Keeps(q)
         /\ x[2] = "near" => \A m \in Chat : ledger'[m][x[1]] # "pending"
         /\ x[2] = "far" => ledger' = ledger
         /\ \A q \in Peer \ {x[1]}, m \in Chat : ledger'[m][q] = ledger[m][q]
<1>1. PICK p \in Peer : p = x[1]
  BY PlacesOf
<1>2. ChatTypes /\ BookFits /\ LinkFits(p) /\ LinkTypes /\ BookTypes
  BY TypesOf DEF ChatInv
<1>3. CASE x[2] = "far"
  <2>1. ledger' = ledger /\ kept' = kept
    BY <1>3 DEF Dispose, ledgerVars
  <2>2. BookTypes' /\ BookFits' /\ MailStep
    BY <1>2, <2>1, MailRests DEF BookTypes, BookFits
  <2>3. \A q \in Peer : Keeps(q)
    BY <2>1 DEF Keeps
  <2> QED  BY <1>3, <2>1, <2>2, <2>3
<1>4. CASE x[2] = "near"
  <2>1. PICK q \in Seq(Entry) : q = end[x].queue
    BY <1>2 DEF LinkTypes, End
  <2>2. PICK M : M = {c.id : c \in Range(q)}
    OBVIOUS
  <2>3. Mark(p, M, "failed")
    BY <1>1, <1>4, <2>1, <2>2 DEF Dispose
  <2>4. M = Awaited(p)
    <3>1. Ids(q) = M
      BY <2>2, AlikeItself, AlikeIds
    <3>2. x = <<p, "near">>
      BY <1>1, <1>4, PlacesOf
    <3> QED  BY <1>2, <2>1, <3>1, <3>2 DEF LinkFits, Waiting
  <2>5. BookTypes' /\ BookFits' /\ Reported(p, M, "failed") /\ \A r \in Peer : Keeps(r)
    BY <1>2, <2>3, MarkOf
  <2>6. \A m \in Chat : ledger'[m][p] # "pending"
    BY <2>4, <2>5 DEF Reported, Awaited
  <2>7. \A r \in Peer \ {p}, m \in Chat : ledger'[m][r] = ledger[m][r]
    BY <2>5 DEF Reported
  <2>8. MailStep
    <3>1. \A m \in Chat, r \in Peer : \/ ledger'[m][r] = ledger[m][r]
                                      \/ ledger[m][r] = "pending" /\ ledger'[m][r] = "failed"
      BY <2>5 DEF Reported
    <3> QED  BY <2>5, <3>1, MailFails
  <2> QED  BY <1>1, <1>4, <2>5, <2>6, <2>7, <2>8
<1> QED  BY <1>3, <1>4, PlacesOf

\* An end x that starts anew with its books closed, and what is known of it then
LEMMA RestartFits ==
  ASSUME ChatInv, NEW x \in Place, LinkTypes', Restarts(x),
         Dispose(x) \/ (x[2] = "far" /\ UNCHANGED ledgerVars),
         \A q \in Peer \ {x[1]} : Untouched(q),
         self' = self, media' = media, history' = history, author' = author,
         shown' = shown, seen' = seen, spent \subseteq spent',
         roster' \subseteq Peer, remote' \in [Peer -> Nat \cup {None}],
         \A q \in Peer \ {x[1]} : /\ q \in roster' <=> q \in roster
                                  /\ <<q, "leave">> \in spent' <=> <<q, "leave">> \in spent
                                  /\ remote'[q] = remote[q],
         Member(x[1])',
         x[2] = "near" => end[x].epoch <= end'[x].epoch,
         x[2] = "far" => end'[x].epoch <= end[Other(x)].epoch
  PROVE  ChatInv' /\ MailStep
<1>1. PICK p \in Peer : p = x[1]
  BY PlacesOf
<1>2. ChatTypes /\ LinkFits(p) /\ LinkTypes /\ BookTypes
  BY TypesOf DEF ChatInv
<1>3. /\ BookTypes' /\ BookFits' /\ MailStep
      /\ \A q \in Peer : Keeps(q)
      /\ x[2] = "near" => \A m \in Chat : ledger'[m][p] # "pending"
      /\ x[2] = "far" => ledger' = ledger
      /\ \A q \in Peer \ {p}, m \in Chat : ledger'[m][q] = ledger[m][q]
  BY <1>1, DisposeOf
<1>4. ChatTypes'
  BY <1>2, <1>3 DEF ChatTypes, LinkTypes, BookTypes
<1>5. \A q \in Peer \ {p} : LinkFits(q)'
  <2>1. ASSUME NEW q \in Peer \ {p} PROVE Untouched(q) /\ Quiet(q)
    BY <1>1, <1>3 DEF Quiet, Abides
  <2> QED  BY <2>1, OthersFit
<1>6. LinkFits(p)'
  <2>1. CASE x = <<p, "near">>
    <3>1. Shaped(p)'
      BY <1>2, <2>1, ShapedRestarts DEF LinkFits
    <3>2. Synced(p)'
      BY <1>1, <1>2, <3>1, SyncedRestarts DEF LinkFits
    <3>3. Waiting(p)'
      BY <1>3, <2>1, WaitingEmpty DEF Restarts
    <3> QED  BY <1>1, <1>2, <1>3, <3>1, <3>2, <3>3, AnewFits
  <2>2. CASE x = <<p, "far">>
    <3>1. Shaped(p)'
      BY <1>2, <2>2, BothEnds, ShapedRestarts DEF LinkFits
    <3>2. Synced(p)'
      BY <1>1, <1>2, <3>1, SyncedRestarts DEF LinkFits
    <3>3. Waiting(p)'
      <4>1. end'[<<p, "near">>] = end[<<p, "near">>]
        BY <2>2, BothEnds DEF Restarts
      <4>2. ledger' = ledger /\ Keeps(p)
        BY <1>3, <2>2
      <4> QED  BY <1>2, <4>1, <4>2, AlikeItself, WaitingStays DEF LinkFits
    <3> QED  BY <1>1, <1>2, <1>3, <3>1, <3>2, <3>3, AnewFits
  <2> QED  BY <1>1, <2>1, <2>2, PlacesOf
<1> QED  BY <1>3, <1>4, <1>5, <1>6 DEF ChatInv

\* The timer of a recovery runs out for the last time.
GiveUp(x) ==
  /\ Spend(<<x[1], "giveup">>)
  /\ Dispose(x)
  /\ Simply(x, Gone(end[x]), TRUE)
  /\ Resting

LEMMA GiveUpFits ==
  ASSUME ChatInv, NEW x \in Place, GiveUp(x)
  PROVE  ChatInv' /\ MailStep
<1>1. PICK p \in Peer : p = x[1]
  BY PlacesOf
<1>2. ChatTypes /\ LinkFits(p) /\ LinkTypes /\ BookTypes
  BY TypesOf DEF ChatInv
<1>3. /\ LinkTypes' /\ Restarts(x) /\ ~end'[x].here
      /\ end'[x].epoch = end[x].epoch /\ end'[x].from = end[x].from
      /\ \A q \in Peer \ {x[1]} : Untouched(q)
  BY <1>2, GoneRestarts DEF GiveUp
<1>4. /\ Dispose(x) /\ self' = self /\ media' = media /\ history' = history
      /\ author' = author /\ shown' = shown /\ seen' = seen /\ roster' = roster /\ remote' = remote
  BY DEF GiveUp, Resting, mineVars, theirVars
<1>5. spent \subseteq spent' /\ \A q \in Peer : <<q, "leave">> \in spent' <=> <<q, "leave">> \in spent
  BY DEF GiveUp, Spend
<1>6. \/ x = <<p, "near">> /\ Other(x) = <<p, "far">>
      \/ x = <<p, "far">> /\ Other(x) = <<p, "near">>
  BY <1>1, PlacesOf
<1>7. end'[Other(x)] = end[Other(x)]
  BY <1>3 DEF Restarts
<1>8. end[x].epoch \in Nat /\ end[Other(x)].epoch \in Nat
  BY <1>2, PlacesOf DEF LinkTypes, End
<1>9. Member(p)'
  BY <1>2, <1>3, <1>4, <1>5, <1>6, <1>7 DEF LinkFits, Member
<1>10. /\ x[2] = "near" => end[x].epoch <= end'[x].epoch
       /\ x[2] = "far" => end'[x].epoch <= end[Other(x)].epoch
  <2>1. x = <<p, "far">> => end[x].epoch <= end[Other(x)].epoch
    BY <1>2, BothEnds DEF LinkFits, Shaped, LinkShape
  <2> QED  BY <1>3, <1>6, <1>8, <2>1
<1>11. roster' \subseteq Peer /\ remote' \in [Peer -> Nat \cup {None}]
  BY <1>2, <1>4 DEF ChatTypes
<1> QED  BY <1>1, <1>3, <1>4, <1>5, <1>9, <1>10, <1>11, RestartFits

LEMMA AgainFits ==
  ASSUME ChatInv, NEW p \in Peer, Again(p)
  PROVE  ChatInv' /\ MailStep
<1>1. PICK x \in Place : x = <<p, "near">>
  BY BothEnds
<1>2. x[1] = p /\ x[2] = "near" /\ Other(x) = <<p, "far">>
  BY <1>1, BothEnds
<1>3. ChatTypes /\ LinkFits(p) /\ LinkTypes /\ BookTypes
  BY TypesOf DEF ChatInv
<1>4. PICK n \in Nat : n = end[x].epoch + 1
  BY <1>3 DEF LinkTypes, End
<1>5. PICK s \in Nat \cup {None} : s = None
  OBVIOUS
<1>6. Simply(x, Fresh(n, s), TRUE)
  BY <1>1, <1>4, <1>5 DEF Again
<1>7. /\ LinkTypes' /\ Restarts(x) /\ end'[x].here /\ end'[x].epoch = n /\ end'[x].from = s
      /\ \A q \in Peer \ {x[1]} : Untouched(q)
  BY <1>3, <1>6, FreshRestarts
<1>8. /\ Dispose(x) /\ self' = self /\ media' = media /\ history' = history
      /\ author' = author /\ shown' = shown /\ seen' = seen /\ roster' = roster /\ remote' = remote
  BY <1>1 DEF Again, Resting, mineVars, theirVars
<1>9. /\ spent \subseteq spent' /\ \A q \in Peer : <<q, "leave">> \in spent' <=> <<q, "leave">> \in spent
      /\ p \in roster
  BY DEF Again, Spend
<1>10. end'[<<p, "far">>] = end[<<p, "far">>]
  BY <1>2, <1>7 DEF Restarts
<1>11. end[<<p, "far">>].epoch \in Nat /\ end[<<p, "far">>].epoch <= end[x].epoch /\ end[x].epoch \in Nat
  BY <1>1, <1>3, BothEnds DEF LinkFits, Shaped, LinkShape, LinkTypes, End
<1>12. Member(p)'
  <2>1. end'[<<p, "far">>].epoch # end'[<<p, "near">>].epoch
    BY <1>1, <1>4, <1>7, <1>10, <1>11
  <2> QED  BY <1>3, <1>8, <1>9, <1>10, <2>1 DEF LinkFits, Member
<1>13. roster' \subseteq Peer /\ remote' \in [Peer -> Nat \cup {None}]
  BY <1>3, <1>8 DEF ChatTypes
<1>14. end[x].epoch <= end'[x].epoch
  BY <1>4, <1>7, <1>11
<1> QED  BY <1>2, <1>7, <1>8, <1>9, <1>12, <1>13, <1>14, RestartFits

LEMMA RenewFits ==
  ASSUME ChatInv, NEW p \in Peer, Renew(p)
  PROVE  ChatInv' /\ MailStep
<1>1. PICK x \in Place : x = <<p, "far">>
  BY BothEnds
<1>2. x[1] = p /\ x[2] = "far" /\ Other(x) = <<p, "near">>
  BY <1>1, BothEnds
<1>3. ChatTypes /\ LinkFits(p) /\ LinkTypes /\ BookTypes
  BY TypesOf DEF ChatInv
<1>4. PICK n \in Nat : n = end[Other(x)].epoch
  <2>1. PICK e \in End : e = end[Other(x)]
    BY <1>3, PlacesOf DEF LinkTypes
  <2>2. e.epoch \in Nat
    BY DEF End
  <2> QED  BY <2>1, <2>2
<1>5. PICK s \in Nat \cup {None} : s = self
  BY <1>3 DEF BookTypes
<1>6. /\ Simply(x, Fresh(n, s), TRUE) /\ <<p, "leave">> \notin spent
      /\ remote' = [remote EXCEPT ![p] = IF end[x].from = self THEN @ ELSE None]
      /\ ledger' = ledger /\ kept' = kept
  BY <1>1, <1>2, <1>4, <1>5 DEF Renew, ledgerVars
<1>7. /\ LinkTypes' /\ Restarts(x) /\ end'[x].here /\ end'[x].epoch = n /\ end'[x].from = s
      /\ \A q \in Peer \ {x[1]} : Untouched(q)
  BY <1>3, <1>6, FreshRestarts
<1>8. /\ self' = self /\ media' = media /\ history' = history
      /\ author' = author /\ shown' = shown /\ seen' = seen /\ roster' = roster /\ spent' = spent
  BY DEF Renew, mineVars
<1>9. end'[<<p, "near">>] = end[<<p, "near">>]
  BY <1>2, <1>7 DEF Restarts
<1>10. Member(p)'
  <2>1. end'[<<p, "far">>].from = self /\ self \in Nat
    BY <1>1, <1>3, <1>5, <1>7 DEF BookTypes
  <2> QED  BY <1>3, <1>6, <1>8, <1>9, <2>1 DEF LinkFits, Member
<1>11. /\ roster' \subseteq Peer /\ remote' \in [Peer -> Nat \cup {None}]
       /\ \A q \in Peer \ {p} : remote'[q] = remote[q]
  <2>1. remote \in [Peer -> Nat \cup {None}] /\ roster \subseteq Peer
    BY <1>3 DEF ChatTypes
  <2>2. (IF end[x].from = self THEN remote[p] ELSE None) \in Nat \cup {None}
    BY <2>1
  <2> QED  BY <1>6, <1>8, <2>1, <2>2
<1>12. end'[x].epoch <= end[Other(x)].epoch
  BY <1>4, <1>7
<1>13. UNCHANGED ledgerVars
  BY <1>6 DEF ledgerVars
<1> QED  BY <1>2, <1>7, <1>8, <1>10, <1>11, <1>12, <1>13, RestartFits

LEMMA PeerLeavesFits ==
  ASSUME ChatInv, NEW p \in Peer, PeerLeaves(p)
  PROVE  ChatInv' /\ MailStep
<1>1. PICK x \in Place : x = <<p, "far">>
  BY BothEnds
<1>2. x[1] = p /\ x[2] = "far" /\ Other(x) = <<p, "near">>
  BY <1>1, BothEnds
<1>3. ChatTypes /\ LinkFits(p) /\ LinkTypes /\ BookTypes
  BY TypesOf DEF ChatInv
<1>4. Simply(x, Gone(end[x]), TRUE) /\ spent' = spent \cup {<<p, "leave">>} /\ Elsewhere
  BY <1>1 DEF PeerLeaves, Spend
<1>5. /\ LinkTypes' /\ Restarts(x) /\ ~end'[x].here
      /\ end'[x].epoch = end[x].epoch /\ end'[x].from = end[x].from
      /\ \A q \in Peer \ {x[1]} : Untouched(q)
  BY <1>3, <1>4, GoneRestarts
<1>6. /\ self' = self /\ media' = media /\ history' = history
      /\ author' = author /\ shown' = shown /\ seen' = seen /\ roster' = roster /\ remote' = remote
      /\ UNCHANGED ledgerVars
  BY <1>4 DEF Elsewhere, mineVars, theirVars
<1>7. spent \subseteq spent' /\ \A q \in Peer \ {p} : <<q, "leave">> \in spent' <=> <<q, "leave">> \in spent
  BY <1>4
<1>8. end'[<<p, "near">>] = end[<<p, "near">>]
  BY <1>2, <1>5 DEF Restarts
<1>9. Member(p)'
  BY <1>1, <1>3, <1>5, <1>6, <1>7, <1>8 DEF LinkFits, Member
<1>10. end'[x].epoch <= end[Other(x)].epoch
  <2>1. end[x].epoch <= end[Other(x)].epoch
    BY <1>1, <1>2, <1>3 DEF LinkFits, Shaped, LinkShape
  <2> QED  BY <1>5, <2>1
<1>11. roster' \subseteq Peer /\ remote' \in [Peer -> Nat \cup {None}]
  BY <1>3, <1>6 DEF ChatTypes
<1> QED  BY <1>2, <1>5, <1>6, <1>7, <1>9, <1>10, <1>11, RestartFits

LEMMA RemovePeerFits ==
  ASSUME ChatInv, NEW p \in Peer, RemovePeer(p)
  PROVE  ChatInv' /\ MailStep
<1>1. PICK x \in Place : x = <<p, "near">>
  BY BothEnds
<1>2. x[1] = p /\ x[2] = "near" /\ Other(x) = <<p, "far">>
  BY <1>1, BothEnds
<1>3. ChatTypes /\ LinkFits(p) /\ LinkTypes /\ BookTypes
  BY TypesOf DEF ChatInv
<1>4. Simply(x, Gone(end[x]), TRUE) /\ Dispose(x) /\ roster' = roster \ {p} /\ <<p, "leave">> \in spent
  BY <1>1 DEF RemovePeer
<1>5. /\ LinkTypes' /\ Restarts(x) /\ ~end'[x].here
      /\ end'[x].epoch = end[x].epoch /\ end'[x].from = end[x].from
      /\ \A q \in Peer \ {x[1]} : Untouched(q)
  BY <1>3, <1>4, GoneRestarts
<1>6. /\ self' = self /\ media' = media /\ history' = history
      /\ author' = author /\ shown' = shown /\ seen' = seen /\ remote' = remote /\ spent' = spent
  BY Zenon DEF RemovePeer, theirVars
<1>7. end'[<<p, "far">>] = end[<<p, "far">>]
  BY <1>2, <1>5 DEF Restarts
<1>8. Member(p)'
  BY <1>1, <1>3, <1>4, <1>5, <1>6, <1>7 DEF LinkFits, Member
<1>9. end[x].epoch <= end'[x].epoch
  <2>1. end[x].epoch \in Nat
    BY <1>3 DEF LinkTypes, End
  <2> QED  BY <1>5, <2>1
<1>10. /\ roster' \subseteq Peer /\ remote' \in [Peer -> Nat \cup {None}]
       /\ \A q \in Peer \ {p} : q \in roster' <=> q \in roster
  BY <1>3, <1>4, <1>6 DEF ChatTypes
<1> QED  BY <1>2, <1>4, <1>5, <1>6, <1>8, <1>9, <1>10, RestartFits

LEMMA RejoinFits ==
  ASSUME ChatInv, Rejoin
  PROVE  ChatInv' /\ MailStep
<1>1. ChatTypes /\ BookFits /\ LinkTypes /\ BookTypes /\ roster \subseteq Peer
  BY TypesOf DEF ChatInv
<1>2. /\ LinkTypes' /\ NobodyLeaves
      /\ \A p \in Peer :
           /\ Restarts(<<p, "near">>)
           /\ p \in roster => end'[<<p, "near">>].here
                              /\ end'[<<p, "near">>].epoch = end[<<p, "near">>].epoch + 1
           /\ p \notin roster => end'[<<p, "near">>] = end[<<p, "near">>]
  <2>1. ASSUME NEW p \in Peer
        PROVE  /\ EndFits(end[<<p, "near">>], chan[p])
               /\ ~end[<<p, "near">>].here => end[<<p, "near">>].queue = <<>>
               /\ p \notin roster => ~end[<<p, "near">>].here
    BY DEF ChatInv, LinkFits, Shaped, LinkShape, Waiting, Member
  <2> QED  BY <1>1, <2>1, RejoinRestarts
<1>3. /\ self' = self + 1 /\ kept' = kept \cap Range(history)
      /\ roster' = roster /\ media' = media /\ history' = history
      /\ author' = author /\ shown' = shown /\ seen' = seen /\ remote' = remote
  BY Zenon DEF Rejoin, theirVars
<1>4. ledger' = [m \in Chat |-> [p \in Peer |-> IF ledger[m][p] = "pending" THEN "failed" ELSE ledger[m][p]]]
  BY Zenon DEF Rejoin
<1>5. ASSUME NEW m \in Chat, NEW p \in Peer
      PROVE  /\ ledger[m][p] \in State
             /\ ledger'[m][p] = IF ledger[m][p] = "pending" THEN "failed" ELSE ledger[m][p]
             /\ ledger'[m][p] # "pending"
  <2>1. ledger[m][p] \in State
    BY <1>1 DEF BookTypes
  <2>2. ledger'[m] = [q \in Peer |-> IF ledger[m][q] = "pending" THEN "failed" ELSE ledger[m][q]]
    BY <1>4
  <2>3. ledger'[m][p] = IF ledger[m][p] = "pending" THEN "failed" ELSE ledger[m][p]
    BY <2>2
  <2> QED  BY <2>1, <2>3
<1>6. BookTypes'
  <2>1. ledger' \in [Chat -> [Peer -> State]]
    BY <1>4, <1>5 DEF State
  <2>2. self' \in Nat
    BY <1>1, <1>3 DEF BookTypes
  <2> QED  BY <1>1, <1>3, <2>1, <2>2 DEF BookTypes
<1>7. BookFits'
  <2>1. kept' = Range(history)
    BY <1>1, <1>3 DEF BookFits
  <2>2. {m \in Chat : \E p \in Peer : ledger'[m][p] = "pending"} = {}
    BY <1>5
  <2>3. \A m \in Chat : author[m] = None => m \notin Range(history) /\ \A p \in Peer : ledger'[m][p] = "none"
    BY <1>1, <1>5 DEF BookFits
  <2> QED  BY <1>1, <1>3, <2>1, <2>2, <2>3 DEF BookFits
<1>8. ChatTypes'
  BY <1>1, <1>2, <1>3, <1>6 DEF ChatTypes, LinkTypes, BookTypes
<1>9. MailStep
  BY <1>3, <1>5, <1>6, MailFails
<1>10. ASSUME NEW p \in Peer
       PROVE  LinkFits(p)'
  <2>1. PICK x \in Place : x = <<p, "near">>
    BY BothEnds
  <2>2. x[1] = p /\ Other(x) = <<p, "far">>
    BY <2>1, BothEnds
  <2>3. LinkFits(p) /\ Restarts(x) /\ Restarts(<<p, "near">>)
    BY <1>2, <2>1 DEF ChatInv
  <2>4. Keeps(p)
    BY <1>3, <1>5 DEF Keeps
  <2>5. end'[<<p, "far">>] = end[<<p, "far">>]
    BY <2>2, <2>3 DEF Restarts
  <2>6. /\ end[<<p, "far">>].epoch \in Nat /\ end[<<p, "near">>].epoch \in Nat
        /\ end[<<p, "far">>].epoch <= end[<<p, "near">>].epoch
    <3>1. PICK e \in End : e = end[<<p, "near">>]
      BY <1>1, BothEnds DEF LinkTypes
    <3>2. PICK f \in End : f = end[<<p, "far">>]
      BY <1>1, BothEnds DEF LinkTypes
    <3>3. e.epoch \in Nat /\ f.epoch \in Nat
      BY DEF End
    <3> QED  BY <2>3, <3>1, <3>2, <3>3 DEF LinkFits, Shaped, LinkShape
  <2>7. end[<<p, "near">>].epoch <= end'[<<p, "near">>].epoch
    BY <1>2, <2>6
  <2>8. Shaped(p)'
    BY <1>1, <1>2, <2>3, <2>7, ShapedRestarts DEF LinkFits
  <2>9. Member(p)'
    <3>1. <<p, "leave">> \in spent' <=> <<p, "leave">> \in spent
      BY <1>2 DEF NobodyLeaves
    <3>2. CASE p \in roster
      <4>1. end'[<<p, "far">>].epoch # end'[<<p, "near">>].epoch
        BY <1>2, <2>5, <2>6, <3>2
      <4> QED  BY <1>3, <2>3, <2>5, <3>1, <3>2, <4>1 DEF LinkFits, Member
    <3>3. CASE p \notin roster
      BY <1>2, <1>3, <2>3, <2>5, <3>1, <3>3 DEF LinkFits, Member
    <3> QED  BY <3>2, <3>3
  <2>10. Synced(p)'
    BY <1>2, <1>3, <2>2, <2>3, <2>8, SyncedRestarts DEF LinkFits, NobodyLeaves
  <2>11. Waiting(p)'
    <3>1. end'[<<p, "near">>].queue = <<>>
      BY <2>3 DEF Restarts
    <3> QED  BY <1>5, <3>1, WaitingEmpty
  <2> QED  BY <1>1, <1>2, <1>3, <2>2, <2>3, <2>4, <2>8, <2>9, <2>10, <2>11, AnewFits
<1> QED  BY <1>7, <1>8, <1>9, <1>10 DEF ChatInv

-----------------------------------------------------------------------------
(* Messages that are taken out of a queue                                  *)

LEMMA DistinctOf ==
  ASSUME NEW q \in Seq(Entry), Distinct(q)
  PROVE  /\ Ids(q) = {c.id : c \in Range(q)}
         /\ \A c, d \in Range(q) : c.id = d.id => c = d
<1>1. Range(q) = {q[i] : i \in 1..Len(q)}
  BY RangeEquality
<1>2. Ids(q) = {c.id : c \in Range(q)}
  BY AlikeItself, AlikeIds
<1> QED  BY <1>1, <1>2 DEF Distinct

\* The queue of p loses the messages of M, and they are reported as s.
LEMMA TakenFits ==
  ASSUME ChatInv, NEW p \in Peer, NEW M, NEW s \in {"failed", "acknowledged"}, Mark(p, M, s), Resting,
         NEW T, Half(<<p, "near">>, Range(end[<<p, "near">>].acks)), NearGoes(<<p, "near">>),
         end'[<<p, "near">>].queue = Only(end[<<p, "near">>].queue, T),
         end'[<<p, "near">>].here = end[<<p, "near">>].here,
         {c.id : c \in Range(end[<<p, "near">>].queue) \cap T} = Ids(end[<<p, "near">>].queue) \ M
  PROVE  ChatInv' /\ Reported(p, M, s) /\ BookTypes'
<1>1. ChatTypes /\ BookFits /\ LinkFits(p) /\ LinkTypes /\ BookTypes
  BY TypesOf DEF ChatInv
<1>2. /\ roster' = roster /\ self' = self /\ media' = media /\ history' = history
      /\ author' = author /\ shown' = shown /\ seen' = seen /\ remote' = remote
  BY DEF Resting, mineVars, theirVars
<1>3. BookTypes' /\ BookFits' /\ Reported(p, M, s) /\ \A q \in Peer : Keeps(q)
  BY <1>1, <1>2, MarkOf
<1>4. /\ LinkTypes' /\ Turn(<<p, "near">>, Range(end[<<p, "near">>].acks)) /\ NobodyLeaves
      /\ \A q \in Peer \ {p} : Untouched(q)
  BY BothEnds DEF Half
<1>5. ChatTypes'
  BY <1>1, <1>2, <1>3, <1>4 DEF ChatTypes, LinkTypes, BookTypes
<1>6. ASSUME NEW q \in Peer
      PROVE  Abides(q) /\ (q # p => Quiet(q))
  <2>1. Abides(q)
    BY <1>2, <1>3, <1>4 DEF Abides, NobodyLeaves
  <2>2. q # p => \A m \in Chat : ledger'[m][q] = ledger[m][q]
    BY <1>3 DEF Reported
  <2> QED  BY <1>2, <2>1, <2>2 DEF Quiet
<1>7. \A q \in Peer \ {p} : LinkFits(q)'
  BY <1>2, <1>4, <1>6, OthersFit
<1>8. Synced(p)'
  BY <1>1, <1>2, <1>4, SyncedNearGoes DEF LinkFits, NobodyLeaves
<1>9. Waiting(p)'
  <2>1. PICK q \in Seq(Entry) : q = end[<<p, "near">>].queue
    BY <1>1, BothEnds DEF LinkTypes, End
  <2>2. Distinct(q) /\ Ids(q) = Awaited(p)
    BY <1>1, <2>1 DEF LinkFits, Waiting
  <2>3. PICK r \in Seq(Entry) : /\ r = Only(q, T) /\ Distinct(r) /\ Ids(r) = {c.id : c \in Range(q) \cap T}
                                /\ q = <<>> => r = <<>>
    <3>1. /\ Only(q, T) \in Seq(Entry) /\ Distinct(Only(q, T))
          /\ Ids(Only(q, T)) = {c.id : c \in Range(q) \cap T}
          /\ q = <<>> => Only(q, T) = <<>>
      BY <2>2, OnlyIds
    <3> QED  BY <3>1
  <2>4. end'[<<p, "near">>].queue = r /\ Ids(r) = Ids(q) \ M
    BY <2>1, <2>3
  <2>5. Awaited(p)' = Awaited(p) \ M
    <3>1. \A m \in Chat : ledger'[m][p] = "pending" <=> ledger[m][p] = "pending" /\ m \notin M
      BY <1>3 DEF Reported
    <3> QED  BY <3>1 DEF Awaited
  <2>6. \A m \in Awaited(p)' : author'[m] = self'
    BY <1>1, <1>2, <2>5 DEF LinkFits, Waiting
  <2>7. ~end'[<<p, "near">>].here => end'[<<p, "near">>].queue = <<>>
    BY <1>1, <2>1, <2>3, <2>4 DEF LinkFits, Waiting
  <2> QED  BY <2>2, <2>3, <2>4, <2>5, <2>6, <2>7 DEF Waiting
<1>10. LinkFits(p)'
  BY <1>1, <1>2, <1>4, <1>6, <1>8, <1>9, NearFits
<1> QED  BY <1>3, <1>5, <1>7, <1>10 DEF ChatInv

LEMMA ExpireFits ==
  ASSUME ChatInv, NEW p \in Peer, NEW m \in Chat, Expire(p, m)
  PROVE  ChatInv' /\ MailStep
<1>1. ChatTypes /\ LinkFits(p) /\ LinkTypes
  BY TypesOf DEF ChatInv
<1>2. PICK q \in Seq(Entry) : q = end[<<p, "near">>].queue
  BY <1>1, BothEnds DEF LinkTypes, End
<1>3. PICK T : T = {c \in Range(q) : c.id # m}
  OBVIOUS
<1>4. EndFits(end[<<p, "near">>], chan[p]) /\ Distinct(q)
  BY <1>1, <1>2 DEF LinkFits, Shaped, LinkShape, Waiting
<1>5. {c \in Range(end[<<p, "near">>].queue) : c.id # m} = T
  BY <1>2, <1>3
<1>6. /\ Half(<<p, "near">>, Range(end[<<p, "near">>].acks))
      /\ NearGoes(<<p, "near">>)
      /\ end'[<<p, "near">>].queue = Only(end[<<p, "near">>].queue, T)
      /\ end'[<<p, "near">>].here = end[<<p, "near">>].here
  BY <1>1, <1>4, <1>5, ExpireTurns
<1>7. PICK M : M = {m}
  OBVIOUS
<1>8. Mark(p, M, "failed") /\ Resting
  BY <1>7 DEF Expire
<1>9. {c.id : c \in Range(end[<<p, "near">>].queue) \cap T} = Ids(end[<<p, "near">>].queue) \ M
  <2>1. Ids(q) = {c.id : c \in Range(q)}
    BY <1>4, DistinctOf
  <2>2. {c.id : c \in Range(q) \cap T} = Ids(q) \ M
    BY <1>3, <1>7, <2>1
  <2> QED  BY <1>2, <2>2
<1>10. ChatInv' /\ Reported(p, M, "failed") /\ BookTypes'
  BY <1>6, <1>8, <1>9, TakenFits
<1>11. MailStep
  <2>1. \A n \in Chat, r \in Peer : \/ ledger'[n][r] = ledger[n][r]
                                    \/ ledger[n][r] = "pending" /\ ledger'[n][r] = "failed"
    BY <1>10 DEF Reported
  <2>2. shown' = shown
    BY <1>8 DEF Resting, theirVars
  <2> QED  BY <1>10, <2>1, <2>2, MailFails
<1> QED  BY <1>10, <1>11

LEMMA ReadAckFits ==
  ASSUME ChatInv, NEW p \in Peer, ReadAck(p)
  PROVE  ChatInv' /\ MailStep
<1>1. ChatTypes /\ LinkFits(p) /\ LinkTypes
  BY TypesOf DEF ChatInv
<1>2. PICK q \in Seq(Entry) : q = end[<<p, "near">>].queue
  BY <1>1, BothEnds DEF LinkTypes, End
<1>3. PICK w \in Seq(Frame) : w = wire[<<p, "far">>]
  BY <1>1, BothEnds DEF LinkTypes
<1>4. PICK m : m = Head(w).id
  OBVIOUS
<1>5. PICK awaited : awaited = {c \in Range(q) : c.ever /\ c.id = m}
  OBVIOUS
<1>6. /\ w # <<>> /\ Head(w).type = "chat.ack"
      /\ Mark(p, {c.id : c \in awaited}, "acknowledged") /\ Resting
  BY <1>2, <1>3, <1>4, <1>5, BothEnds DEF ReadAck, Arrives
<1>7. m \in Chat /\ shown[p][m] = 1
  <2>1. Head(w) \in Range(w)
    BY <1>6, TailOf
  <2> QED  BY <1>1, <1>3, <1>4, <1>6, <2>1 DEF LinkFits, Known
<1>8. PICK T : T = Range(q) \ awaited
  OBVIOUS
<1>9. EndFits(end[<<p, "near">>], chan[p]) /\ Distinct(q) /\ Ids(q) = Awaited(p)
  BY <1>1, <1>2 DEF LinkFits, Shaped, LinkShape, Waiting
<1>10. Range(end[<<p, "near">>].queue)
         \ {c \in Range(end[<<p, "near">>].queue) : c.ever /\ c.id = Head(wire[<<p, "far">>]).id} = T
  BY <1>2, <1>3, <1>4, <1>5, <1>8
<1>11. /\ Half(<<p, "near">>, Range(end[<<p, "near">>].acks))
       /\ NearGoes(<<p, "near">>)
       /\ end'[<<p, "near">>].queue = Only(end[<<p, "near">>].queue, T)
       /\ end'[<<p, "near">>].here = end[<<p, "near">>].here
  BY <1>1, <1>9, <1>10, ReadAckTurns
<1>12. PICK M : M = {c.id : c \in awaited}
  OBVIOUS
<1>13. Mark(p, M, "acknowledged") /\ (M = {} \/ M = {m}) /\ M \subseteq Ids(q)
  <2>1. Ids(q) = {c.id : c \in Range(q)}
    BY <1>9, DistinctOf
  <2> QED  BY <1>5, <1>6, <1>12, <2>1
<1>14. {c.id : c \in Range(end[<<p, "near">>].queue) \cap T} = Ids(end[<<p, "near">>].queue) \ M
  <2>1. /\ Ids(q) = {c.id : c \in Range(q)}
        /\ \A c, d \in Range(q) : c.id = d.id => c = d
    BY <1>9, DistinctOf
  <2>2. {c.id : c \in Range(q) \cap T} = Ids(q) \ M
    BY <1>5, <1>8, <1>12, <2>1
  <2> QED  BY <1>2, <2>2
<1>15. ChatInv' /\ Reported(p, M, "acknowledged") /\ BookTypes'
  BY <1>6, <1>11, <1>13, <1>14, TakenFits
<1>16. MailStep
  <2>1. /\ ledger \in [Chat -> [Peer -> State]] /\ ledger' \in [Chat -> [Peer -> State]]
        /\ shown' = shown
    BY <1>1, <1>6, <1>15 DEF ChatTypes, BookTypes, Resting, theirVars
  <2>2. CASE M = {}
    <3>1. \A n \in Chat : ledger'[n] = ledger[n]
      BY <1>15, <2>1, <2>2 DEF Reported
    <3> QED  BY <2>1, <3>1, MailRests
  <2>3. CASE M = {m}
    <3>1. ledger[m][p] = "pending"
      BY <1>9, <1>13, <2>3 DEF Awaited
    <3>2. PICK r \in [Chat -> [Peer -> State]] : r = [ledger EXCEPT ![m][p] = "acknowledged"]
      BY <2>1 DEF State
    <3>3. ASSUME NEW n \in Chat PROVE ledger'[n] = r[n]
      <4>1. \A k \in Peer : ledger'[n][k] = IF k = p /\ n = m THEN "acknowledged" ELSE ledger[n][k]
        BY <1>15, <2>3, <3>1 DEF Reported
      <4>2. \A k \in Peer : r[n][k] = IF k = p /\ n = m THEN "acknowledged" ELSE ledger[n][k]
        BY <2>1, <3>2
      <4>3. ledger'[n] \in [Peer -> State] /\ r[n] \in [Peer -> State]
        BY <2>1
      <4> QED  BY <4>1, <4>2, <4>3
    <3>4. ledger' = r
      BY <2>1, <3>3
    <3>5. Mailbox!Acknowledge(m, p)
      BY <1>7, <2>1, <3>1, <3>2, <3>4 DEF Mailbox!Acknowledge
    <3> QED  BY <1>7, <3>5 DEF MailStep, Mailbox!Next
  <2> QED  BY <1>13, <2>2, <2>3
<1> QED  BY <1>15, <1>16

-----------------------------------------------------------------------------
(* What the peer reads                                                     *)

LEMMA ReadMediaFits ==
  ASSUME ChatInv, NEW p \in Peer, ReadMedia(p)
  PROVE  ChatInv' /\ MailStep
<1>1. ChatTypes /\ BookFits /\ LinkFits(p) /\ LinkTypes /\ BookTypes
      /\ (\A m \in Range(end[<<p, "far">>].acks) : m \in Chat)
      /\ Range(end[<<p, "far">>].got) \subseteq Chat
      /\ remote \in [Peer -> Nat \cup {None}]
      /\ seen[p] \subseteq (Nat \cup {None}) \X Chat
  BY TypesOf DEF ChatInv, ChatTypes
<1>2. EndFits(end[<<p, "far">>], chan[p])
  BY <1>1 DEF LinkFits, Shaped, LinkShape
<1>3. /\ Half(<<p, "far">>, Range(end[<<p, "far">>].acks))
      /\ Telling(p)
  BY <1>1, <1>2, ReadMediaTurns
<1>4. /\ LinkTypes' /\ Turn(<<p, "far">>, Range(end[<<p, "far">>].acks)) /\ FullGoes(<<p, "far">>)
      /\ NobodyLeaves /\ \A q \in Peer \ {p} : Untouched(q)
  BY <1>3, BothEnds DEF Half
<1>5. /\ ledger' = ledger /\ kept' = kept /\ roster' = roster /\ self' = self
      /\ media' = media /\ history' = history /\ author' = author /\ shown' = shown /\ seen' = seen
  BY DEF ReadMedia, ledgerVars, mineVars
<1>6. remote' \in [Peer -> Nat \cup {None}] /\ \A q \in Peer \ {p} : remote'[q] = remote[q]
  <2>1. PICK w \in Seq(Frame) : w = wire[<<p, "near">>]
    BY <1>1, BothEnds DEF LinkTypes
  <2>2. w # <<>>
    BY <2>1, BothEnds DEF ReadMedia, Arrives
  <2>3. Head(w) \in Frame
    BY <2>2, TailOf
  <2>4. PICK n \in Nat : n = Head(w).id
    BY <2>3 DEF Frame
  <2>5. remote' = [remote EXCEPT ![p] = n]
    BY <2>1, <2>4 DEF ReadMedia
  <2> QED  BY <1>1, <2>5
<1>7. ChatTypes' /\ BookFits'
  <2>1. ChatTypes'
    BY <1>1, <1>4, <1>5, <1>6 DEF ChatTypes, LinkTypes
  <2>2. BookFits'
    BY <1>1, <1>5 DEF BookFits
  <2> QED  BY <2>1, <2>2
<1>8. ASSUME NEW q \in Peer
      PROVE  Abides(q) /\ Keeps(q) /\ (q # p => Quiet(q))
  <2>1. Abides(q) /\ Keeps(q)
    BY <1>4, <1>5 DEF Abides, Keeps, NobodyLeaves
  <2> QED  BY <1>5, <1>6, <2>1 DEF Quiet
<1>9. \A q \in Peer \ {p} : LinkFits(q)'
  BY <1>4, <1>5, <1>8, OthersFit
<1>10. Synced(p)'
  <2>1. media \in Nat
    BY <1>1 DEF ChatTypes
  <2>2. Busy(end[<<p, "near">>], chan[p], wire[<<p, "near">>], remote[p], media)
          => Busy(end'[<<p, "near">>], chan'[p], wire'[<<p, "near">>], remote'[p], media)
    BY <1>3, <2>1 DEF Telling
  <2> QED  BY <1>1, <1>4, <1>5, <2>2, SyncedFar DEF LinkFits, NobodyLeaves
<1>11. Known(p)'
  BY <1>1, <1>4, <1>5, KnownFar DEF LinkFits, Known
<1>12. Credit(p)'
  BY <1>1, <1>5, <1>8, CreditStays DEF LinkFits
<1>13. LinkFits(p)'
  BY <1>1, <1>4, <1>5, <1>8, <1>10, <1>11, <1>12, FarFits
<1> QED  BY <1>5, <1>7, <1>9, <1>13, MailRests DEF ChatInv

\* What showing a message of the author it knows is to the peer
LEMMA ShowOf ==
  ASSUME ChatInv, NEW p \in Peer, ReadChat(p)
  PROVE  \E m \in Chat :
           /\ Head(wire[<<p, "near">>]).id = m
           /\ author[m] = end[<<p, "far">>].from /\ ledger[m][p] # "none"
           /\ seen' = [seen EXCEPT ![p] = @ \cup {<<author[m], m>>}]
           /\ shown' = [shown EXCEPT ![p][m] = 1]
           /\ <<author[m], m>> \notin seen[p] => shown[p][m] = 0
           /\ <<author[m], m>> \in seen[p] => seen' = seen /\ shown' = shown
<1>1. ChatTypes /\ LinkFits(p) /\ LinkTypes /\ BookTypes
  BY TypesOf DEF ChatInv
<1>2. PICK f \in End : f = end[<<p, "far">>]
  BY <1>1, BothEnds DEF LinkTypes
<1>3. PICK w \in Seq(Frame) : w = wire[<<p, "near">>]
  BY <1>1, BothEnds DEF LinkTypes
<1>4. PICK m : m = Head(w).id
  OBVIOUS
<1>5. w # <<>> /\ Head(w).type = "chat.message" /\ AttachedTo(f, chan[p])
  BY <1>2, <1>3, BothEnds DEF ReadChat, Arrives, Attached, AttachedTo
<1>6. m \in Chat /\ author[m] = f.from /\ ledger[m][p] # "none"
  <2>1. Head(w) \in Range(w)
    BY <1>5, TailOf
  <2> QED  BY <1>1, <1>2, <1>3, <1>4, <1>5, <2>1 DEF LinkFits, Heading
<1>7. PICK key : key = <<author[m], m>>
  OBVIOUS
<1>8. PICK known \in BOOLEAN : known <=> m \in Range(f.got)
  OBVIOUS
<1>9. PICK isNew \in BOOLEAN : isNew <=> ~known /\ key \notin seen[p]
  OBVIOUS
<1>10. /\ seen' = [seen EXCEPT ![p] = IF isNew THEN @ \cup {key} ELSE @]
       /\ shown' = [shown EXCEPT ![p][m] = IF isNew THEN @ + 1 ELSE @]
  BY <1>2, <1>3, <1>4, <1>6, <1>7, <1>8, <1>9 DEF ReadChat
<1>11. /\ key \in seen[p] => shown[p][m] = 1
       /\ key \notin seen[p] => shown[p][m] = 0
       /\ known => shown[p][m] = 1
  BY <1>1, <1>2, <1>6, <1>7, <1>8 DEF LinkFits, Credit, Known
<1>12. isNew <=> key \notin seen[p]
  BY <1>9, <1>11
<1>13. shown \in [Peer -> [Chat -> Nat]] /\ seen \in [Peer -> SUBSET ((Nat \cup {None}) \X Chat)]
  BY <1>1 DEF ChatTypes
<1>14. CASE isNew
  <2>1. seen' = [seen EXCEPT ![p] = @ \cup {key}] /\ shown' = [shown EXCEPT ![p][m] = 1]
    <3>1. shown[p][m] = 0
      BY <1>11, <1>12, <1>14
    <3>2. (IF isNew THEN shown[p][m] + 1 ELSE shown[p][m]) = 1
      BY <1>14, <3>1
    <3>3. (IF isNew THEN seen[p] \cup {key} ELSE seen[p]) = seen[p] \cup {key}
      BY <1>14
    <3> QED  BY <1>10, <3>2, <3>3, Zenon
  <2> QED  BY <1>2, <1>3, <1>4, <1>6, <1>7, <1>11, <1>12, <1>14, <2>1
<1>15. CASE ~isNew
  <2>1. seen' = seen /\ shown' = shown
    <3>1. seen' = [seen EXCEPT ![p] = seen[p]]
      BY <1>10, <1>15
    <3>2. shown' = [shown EXCEPT ![p][m] = shown[p][m]]
      BY <1>10, <1>15
    <3>3. shown[p] \in [Chat -> Nat]
      BY <1>13
    <3> QED  BY <1>13, <3>1, <3>2, <3>3
  <2>2. seen = [seen EXCEPT ![p] = @ \cup {key}]
    BY <1>12, <1>13, <1>15
  <2>3. shown = [shown EXCEPT ![p][m] = 1]
    <3>1. shown[p][m] = 1 /\ shown[p] \in [Chat -> Nat]
      BY <1>11, <1>12, <1>13, <1>15
    <3> QED  BY <1>13, <1>6, <3>1
  <2> QED  BY <1>2, <1>3, <1>4, <1>6, <1>7, <1>12, <1>15, <2>1, <2>2, <2>3
<1> QED  BY <1>14, <1>15

LEMMA ReadChatFits ==
  ASSUME ChatInv, NEW p \in Peer, ReadChat(p)
  PROVE  ChatInv' /\ MailStep
<1>1. ChatTypes /\ BookFits /\ LinkFits(p) /\ LinkTypes /\ BookTypes
      /\ (\A m \in Range(end[<<p, "far">>].acks) : m \in Chat)
      /\ Range(end[<<p, "far">>].got) \subseteq Chat
  BY TypesOf DEF ChatInv
<1>2. PICK m \in Chat :
           /\ Head(wire[<<p, "near">>]).id = m
           /\ author[m] = end[<<p, "far">>].from /\ ledger[m][p] # "none"
           /\ seen' = [seen EXCEPT ![p] = @ \cup {<<author[m], m>>}]
           /\ shown' = [shown EXCEPT ![p][m] = 1]
           /\ <<author[m], m>> \notin seen[p] => shown[p][m] = 0
           /\ <<author[m], m>> \in seen[p] => seen' = seen /\ shown' = shown
  BY ShowOf
<1>3. EndFits(end[<<p, "far">>], chan[p])
  BY <1>1 DEF LinkFits, Shaped, LinkShape
<1>4. PICK A : A = Range(end[<<p, "far">>].acks) \cup {m}
  OBVIOUS
<1>5. Half(<<p, "far">>, A) /\ Telling(p)
  BY <1>1, <1>2, <1>3, <1>4, ReadChatTurns
<1>6. /\ LinkTypes' /\ Turn(<<p, "far">>, A) /\ FullGoes(<<p, "far">>)
      /\ NobodyLeaves /\ \A q \in Peer \ {p} : Untouched(q)
  BY <1>5, BothEnds DEF Half
<1>7. /\ ledger' = ledger /\ kept' = kept /\ roster' = roster /\ self' = self
      /\ media' = media /\ history' = history /\ author' = author /\ remote' = remote
  BY DEF ReadChat, ledgerVars, mineVars
<1>8. /\ shown \in [Peer -> [Chat -> Nat]] /\ seen \in [Peer -> SUBSET ((Nat \cup {None}) \X Chat)]
      /\ author[m] \in Nat /\ author[m] # None
  <2>1. /\ shown \in [Peer -> [Chat -> Nat]] /\ seen \in [Peer -> SUBSET ((Nat \cup {None}) \X Chat)]
        /\ author[m] \in Nat \cup {None}
    BY <1>1 DEF ChatTypes
  <2>2. Member(p)
    BY <1>1 DEF LinkFits
  <2>3. author[m] # None
    BY <1>2, <2>2, ChatAssumption DEF Member
  <2> QED  BY <2>1, <2>3
<1>9. /\ shown' \in [Peer -> [Chat -> Nat]] /\ seen' \in [Peer -> SUBSET ((Nat \cup {None}) \X Chat)]
      /\ seen'[p] = seen[p] \cup {<<author[m], m>>}
      /\ \A n \in Chat : shown'[p][n] = IF n = m THEN 1 ELSE shown[p][n]
      /\ \A q \in Peer \ {p} : shown'[q] = shown[q] /\ seen'[q] = seen[q]
  <2>1. shown[p] \in [Chat -> Nat]
    BY <1>8
  <2>2. <<author[m], m>> \in (Nat \cup {None}) \X Chat
    BY <1>8
  <2>3. PICK g \in [Chat -> Nat] : g = [shown[p] EXCEPT ![m] = 1]
    BY <2>1
  <2>4. shown' = [shown EXCEPT ![p] = g] /\ \A n \in Chat : g[n] = IF n = m THEN 1 ELSE shown[p][n]
    BY <1>2, <2>1, <2>3
  <2>5. /\ shown' \in [Peer -> [Chat -> Nat]] /\ shown'[p] = g
        /\ \A q \in Peer \ {p} : shown'[q] = shown[q]
    BY <1>8, <2>4
  <2>6. /\ seen' \in [Peer -> SUBSET ((Nat \cup {None}) \X Chat)]
        /\ seen'[p] = seen[p] \cup {<<author[m], m>>}
        /\ \A q \in Peer \ {p} : seen'[q] = seen[q]
    BY <1>2, <1>8, <2>2
  <2> QED  BY <2>4, <2>5, <2>6
<1>10. ChatTypes' /\ BookFits'
  <2>1. ChatTypes'
    BY <1>1, <1>6, <1>7, <1>9 DEF ChatTypes, LinkTypes
  <2>2. BookFits'
    BY <1>1, <1>7 DEF BookFits
  <2> QED  BY <2>1, <2>2
<1>11. ASSUME NEW q \in Peer
      PROVE  Abides(q) /\ Keeps(q) /\ (q # p => Quiet(q))
  <2>1. Abides(q) /\ Keeps(q)
    BY <1>6, <1>7 DEF Abides, Keeps, NobodyLeaves
  <2> QED  BY <1>7, <1>9, <2>1 DEF Quiet
<1>12. \A q \in Peer \ {p} : LinkFits(q)'
  BY <1>6, <1>7, <1>11, OthersFit
<1>13. Synced(p)'
  <2>1. media \in Nat
    BY <1>1 DEF ChatTypes
  <2>2. Busy(end[<<p, "near">>], chan[p], wire[<<p, "near">>], remote[p], media)
          => Busy(end'[<<p, "near">>], chan'[p], wire'[<<p, "near">>], remote'[p], media)
    BY <1>5, <2>1 DEF Telling
  <2> QED  BY <1>1, <1>6, <1>7, <2>2, SyncedFar DEF LinkFits, NobodyLeaves
<1>14. Known(p)'
  <2>1. \A n \in A : n \in Chat /\ shown'[p][n] = 1
    BY <1>1, <1>4, <1>9 DEF LinkFits, Known
  <2>2. \A n \in Chat : shown[p][n] = 1 => shown'[p][n] = 1
    BY <1>9
  <2> QED  BY <1>1, <1>6, <2>1, <2>2, KnownFar DEF LinkFits
<1>15. Credit(p)'
  <2>1. \A k \in seen'[p] : k[1] = author[k[2]] /\ k[1] # None
    BY <1>1, <1>8, <1>9 DEF LinkFits, Credit
  <2>2. \A n \in Chat : <<author[n], n>> \in seen'[p] <=> <<author[n], n>> \in seen[p] \/ n = m
    BY <1>9
  <2>3. \A n \in Chat : IF <<author[n], n>> \in seen'[p] THEN shown'[p][n] = 1 ELSE shown'[p][n] = 0
    BY <1>1, <1>9, <2>2 DEF LinkFits, Credit
  <2> QED  BY <1>7, <2>1, <2>3 DEF Credit
<1>16. LinkFits(p)'
  BY <1>1, <1>6, <1>7, <1>11, <1>13, <1>14, <1>15, FarFits
<1>17. MailStep
  <2>1. CASE <<author[m], m>> \in seen[p]
    BY <1>2, <1>7, <2>1, MailRests
  <2>2. CASE <<author[m], m>> \notin seen[p]
    <3>1. Mailbox!Show(m, p)
      BY <1>2, <1>7, <2>2 DEF Mailbox!Show
    <3> QED  BY <3>1 DEF MailStep, Mailbox!Next
  <2> QED  BY <2>1, <2>2
<1> QED  BY <1>10, <1>12, <1>16, <1>17 DEF ChatInv

-----------------------------------------------------------------------------
(* What the sender sends                                                   *)

\* Messages that take their turn: the media of the queue stay, and what was under way
\* still is.
LEMMA SyncedSending ==
  ASSUME NEW p \in Peer, Synced(p), NEW A, Turn(<<p, "near">>, A), NEW g,
         spent \subseteq spent', remote'[p] = remote[p], media \in Nat, media' = media,
         g.media = end[<<p, "near">>].media, g.quiet = end[<<p, "near">>].quiet,
         AllGoes(end[<<p, "near">>], g, end'[<<p, "near">>],
                 wire[<<p, "near">>], wire'[<<p, "near">>], chan[p], chan'[p])
  PROVE  Synced(p)'
<1>1. ASSUME Busy(end[<<p, "near">>], chan[p], wire[<<p, "near">>], remote[p], media)
      PROVE  Busy(end'[<<p, "near">>], chan'[p], wire'[<<p, "near">>], remote[p], media')
  BY <1>1 DEF Busy, Flows, AllGoes
<1> QED  BY <1>1, SyncedNear

\* The media change, and every queue is told.
LEMMA SyncedTelling ==
  ASSUME NEW p \in Peer, Synced(p), NEW A, Turn(<<p, "near">>, A), NEW g,
         spent \subseteq spent', remote'[p] = remote[p], media' \in Nat, g.media = media',
         AllGoes(end[<<p, "near">>], g, end'[<<p, "near">>],
                 wire[<<p, "near">>], wire'[<<p, "near">>], chan[p], chan'[p])
  PROVE  Synced(p)'
<1>1. Busy(end'[<<p, "near">>], chan'[p], wire'[<<p, "near">>], remote[p], media')
  BY DEF AllGoes, Tells
<1> QED  BY <1>1, SyncedNear

\* The peers of D are sent the message m.
LEMMA SendingTurns ==
  ASSUME ChatInv, NEW D \in SUBSET Peer, NEW m \in Chat, NEW happened,
         FlushAll([p \in D |-> Enqueued(Near(p), m)], happened), \A d \in happened : d[2] # "leave",
         \A p \in D : ledger[m][p] # "pending",
         remote' = remote, media' = media
  PROVE  /\ LinkTypes' /\ NobodyLeaves
         /\ \A p \in Peer \ D : Untouched(p)
         /\ \A p \in D :
              /\ Turn(<<p, "near">>, Range(end[<<p, "near">>].acks)) /\ Synced(p)'
              /\ Ids(end'[<<p, "near">>].queue) = Awaited(p) \cup {m}
              /\ Distinct(end'[<<p, "near">>].queue)
              /\ end'[<<p, "near">>].here = end[<<p, "near">>].here
<1>1. ChatTypes /\ LinkTypes /\ media \in Nat
  BY TypesOf DEF ChatInv
<1>2. PICK ready : ready = [p \in D |-> Enqueued(Near(p), m)]
  OBVIOUS
<1>3. ASSUME NEW p \in D
      PROVE  /\ LinkFits(p) /\ EndFits(end[<<p, "near">>], chan[p])
             /\ Near(p) = end[<<p, "near">>] /\ Near(p) \in End
  BY <1>1, BothEnds DEF ChatInv, LinkFits, Shaped, LinkShape, Near, LinkTypes
<1>4. ASSUME NEW p \in D
      PROVE  /\ ready[p] \in End /\ Prepared(end[<<p, "near">>], ready[p])
             /\ ready[p].media = end[<<p, "near">>].media
             /\ ready[p].quiet = end[<<p, "near">>].quiet
             /\ Ids(ready[p].queue) = Awaited(p) \cup {m}
             /\ Distinct(ready[p].queue)
  <2>1. PICK e \in End : e = end[<<p, "near">>]
    BY <1>3
  <2>2. PICK g : g = Enqueued(e, m)
    OBVIOUS
  <2>3. g = ready[p]
    BY <1>2, <1>3, <2>1, <2>2
  <2>4. Ids(e.queue) = Awaited(p) /\ Distinct(e.queue)
    BY <1>3, <2>1 DEF LinkFits, Waiting
  <2>5. m \notin Ids(e.queue)
    BY <2>4 DEF Awaited
  <2>6. /\ g \in End /\ Prepared(e, g) /\ g.media = e.media /\ g.quiet = e.quiet
        /\ Ids(g.queue) = Ids(e.queue) \cup {m}
        /\ Distinct(e.queue) /\ m \notin Ids(e.queue) => Distinct(g.queue)
    BY <2>2, EnqueuedOf
  <2> QED  BY <2>1, <2>3, <2>4, <2>5, <2>6
<1>5. ready \in [D -> End]
  BY <1>2, <1>4
<1>6. FlushAll(ready, happened)
  BY <1>2
<1>7. /\ LinkTypes' /\ NobodyLeaves
      /\ \A p \in Peer \ D : Untouched(p)
      /\ \A p \in D :
           /\ Turn(<<p, "near">>, Range(end[<<p, "near">>].acks))
           /\ Alike(ready[p].queue, end'[<<p, "near">>].queue)
           /\ FullGoes(<<p, "near">>)
           /\ AllGoes(end[<<p, "near">>], ready[p], end'[<<p, "near">>],
                      wire[<<p, "near">>], wire'[<<p, "near">>], chan[p], chan'[p])
  <2>1. \A p \in D : EndFits(end[<<p, "near">>], chan[p]) /\ Prepared(end[<<p, "near">>], ready[p])
    BY Zenon, <1>3, <1>4
  <2> HIDE <1>3, <1>4
  <2> QED  BY <1>1, <1>5, <1>6, <2>1, FlushAllTurns
<1>8. ASSUME NEW p \in D
      PROVE  /\ Turn(<<p, "near">>, Range(end[<<p, "near">>].acks)) /\ Synced(p)'
             /\ Ids(end'[<<p, "near">>].queue) = Awaited(p) \cup {m}
             /\ Distinct(end'[<<p, "near">>].queue)
             /\ end'[<<p, "near">>].here = end[<<p, "near">>].here
  <2>1. Turn(<<p, "near">>, Range(end[<<p, "near">>].acks))
    BY <1>7
  <2>2. PICK q \in Seq(Entry) : q = ready[p].queue
    BY <1>4 DEF End
  <2>3. PICK r \in Seq(Entry) : r = end'[<<p, "near">>].queue
    BY <1>7, BothEnds DEF LinkTypes, End
  <2>4. Alike(q, r) /\ Distinct(q) /\ Ids(q) = Awaited(p) \cup {m}
    BY <1>4, <1>7, <2>2, <2>3
  <2>5. Distinct(r) /\ Ids(r) = Ids(q)
    BY <2>4, AlikeDistinct, AlikeIds
  <2>6. Synced(p)'
    <3>1. Synced(p) /\ spent \subseteq spent' /\ remote'[p] = remote[p]
      BY <1>3, <1>7 DEF LinkFits, NobodyLeaves
    <3>2. /\ AllGoes(end[<<p, "near">>], ready[p], end'[<<p, "near">>],
                     wire[<<p, "near">>], wire'[<<p, "near">>], chan[p], chan'[p])
          /\ ready[p].media = end[<<p, "near">>].media /\ ready[p].quiet = end[<<p, "near">>].quiet
      BY <1>4, <1>7
    <3> QED  BY <1>1, <2>1, <3>1, <3>2, SyncedSending
  <2>7. end'[<<p, "near">>].here = end[<<p, "near">>].here
    BY <2>1, BothEnds, TurnKeeps
  <2> QED  BY <2>1, <2>3, <2>4, <2>5, <2>6, <2>7
<1> QED  BY <1>7, <1>8

\* Nothing happens to the channel, and what p has to report is the same.
LEMMA AsideFits ==
  ASSUME ChatTypes, LinkTypes', NEW p \in Peer, LinkFits(p), Untouched(p), Abides(p),
         remote' = remote, shown' = shown, seen' = seen, media' = media,
         Awaited(p)' = Awaited(p)
  PROVE  LinkFits(p)'
<1>1. LinkTypes /\ BookTypes /\ seen[p] \subseteq (Nat \cup {None}) \X Chat
  BY TypesOf
<1>2. Keeps(p)
  BY DEF Abides
<1>3. Shaped(p)' /\ Synced(p)'
  BY ShapedUntouched, SyncedUntouched DEF LinkFits, Abides
<1>4. Member(p)'
  BY DEF LinkFits, Member, Abides, Untouched
<1>5. Known(p)' /\ Heading(p)' /\ Credit(p)'
  BY <1>1, <1>2, KnownUntouched, HeadingUntouched, CreditStays DEF LinkFits, Abides
<1>6. Waiting(p)'
  <2>1. ASSUME NEW m \in Awaited(p)
        PROVE  author'[m] = self
    <3>1. author[m] = self /\ self # None /\ m \in Chat
      BY <1>1, ChatAssumption DEF LinkFits, Waiting, BookTypes, Awaited
    <3> QED  BY <1>2, <3>1 DEF Keeps
  <2>2. end'[<<p, "near">>] = end[<<p, "near">>] /\ self' = self
    BY DEF Untouched, Abides
  <2>3. /\ Ids(end[<<p, "near">>].queue) = Awaited(p) /\ Distinct(end[<<p, "near">>].queue)
        /\ ~end[<<p, "near">>].here => end[<<p, "near">>].queue = <<>>
    BY DEF LinkFits, Waiting
  <2>4. Ids(end'[<<p, "near">>].queue) = Awaited(p)'
    BY <2>2, <2>3
  <2> QED  BY <2>1, <2>2, <2>3, <2>4 DEF Waiting
<1> QED  BY <1>3, <1>4, <1>5, <1>6 DEF LinkFits

\* The peers of D are sent the message m; the others report what they reported.
LEMMA SendingFits ==
  ASSUME ChatInv, NEW D \in SUBSET Peer, NEW m \in Chat, NEW happened,
         FlushAll([p \in D |-> Enqueued(Near(p), m)], happened), \A d \in happened : d[2] # "leave",
         \A p \in D : ledger[m][p] # "pending",
         \A p \in D : end[<<p, "near">>].here,
         remote' = remote, media' = media, self' = self, roster' = roster,
         shown' = shown, seen' = seen, BookTypes', BookFits',
         \A p \in Peer : Keeps(p),
         author'[m] = self,
         \A p \in D : Awaited(p)' = Awaited(p) \cup {m},
         \A p \in Peer \ D : Awaited(p)' = Awaited(p)
  PROVE  ChatInv'
<1>1. ChatTypes /\ LinkTypes /\ BookTypes /\ media \in Nat /\ roster \subseteq Peer
  BY TypesOf DEF ChatInv
<1>2. /\ LinkTypes' /\ NobodyLeaves
      /\ \A p \in Peer \ D : Untouched(p)
      /\ \A p \in D :
           /\ Turn(<<p, "near">>, Range(end[<<p, "near">>].acks)) /\ Synced(p)'
           /\ Ids(end'[<<p, "near">>].queue) = Awaited(p) \cup {m}
           /\ Distinct(end'[<<p, "near">>].queue)
           /\ end'[<<p, "near">>].here = end[<<p, "near">>].here
  BY SendingTurns
<1>3. ChatTypes'
  BY <1>1, <1>2 DEF ChatTypes, LinkTypes, BookTypes
<1>4. ASSUME NEW p \in Peer
      PROVE  Abides(p) /\ LinkFits(p)
  BY <1>2 DEF Abides, NobodyLeaves, ChatInv
<1>5. ASSUME NEW p \in Peer \ D
      PROVE  LinkFits(p)'
  <2>1. Abides(p) /\ LinkFits(p) /\ Untouched(p) /\ Awaited(p)' = Awaited(p)
    BY <1>2, <1>4
  <2> QED  BY <1>1, <1>2, <2>1, AsideFits
<1>6. ASSUME NEW p \in D
      PROVE  LinkFits(p)'
  <2>1. Waiting(p)'
    <3>1. ASSUME NEW n \in Awaited(p)
          PROVE  author'[n] = self
      <4>1. author[n] = self /\ self # None /\ n \in Chat
        <5>1. Waiting(p)
          BY <1>4 DEF LinkFits
        <5>2. self # None
          BY <1>1, ChatAssumption DEF BookTypes
        <5> QED  BY <5>1, <5>2 DEF Waiting, Awaited
      <4>2. Keeps(p)
        OBVIOUS
      <4> QED  BY <4>1, <4>2 DEF Keeps
    <3>2. \A n \in Awaited(p)' : author'[n] = self'
      BY <3>1
    <3>3. Ids(end'[<<p, "near">>].queue) = Awaited(p)' /\ Distinct(end'[<<p, "near">>].queue)
          /\ end'[<<p, "near">>].here
      BY <1>2
    <3> QED  BY <3>2, <3>3 DEF Waiting
  <2>2. Turn(<<p, "near">>, Range(end[<<p, "near">>].acks)) /\ Synced(p)'
    BY <1>2
  <2>3. Abides(p) /\ LinkFits(p)
    BY <1>4
  <2> QED  BY <1>1, <1>2, <2>1, <2>2, <2>3, NearFits
<1>7. \A p \in Peer : LinkFits(p)'
  BY <1>5, <1>6
<1> QED  BY <1>3, <1>7 DEF ChatInv

LEMMA RetryFits ==
  ASSUME ChatInv, NEW m \in Chat, RetryChat(m)
  PROVE  ChatInv' /\ MailStep
<1>1. ChatTypes /\ BookTypes /\ BookFits
  BY TypesOf DEF ChatInv
<1>2. PICK chosen :
         /\ chosen \subseteq {p \in Peer : CanRetry(m, p)} /\ SendAgain(m, chosen)
         /\ m \in kept /\ m \in Range(history) /\ author[m] = self
  <2>1. PICK chosen \in {{p \in Peer : CanRetry(m, p)}} \cup {{p} : p \in {p \in Peer : CanRetry(m, p)}} :
           SendAgain(m, chosen)
    BY Zenon DEF RetryChat
  <2>2. m \in kept /\ m \in Range(history) /\ author[m] = self
    BY Zenon DEF RetryChat
  <2> QED  BY <2>1, <2>2
<1>3. chosen \in SUBSET Peer
  BY <1>2
<1>4. PICK retried : retried = {<<p, "retry">> : p \in chosen}
  OBVIOUS
<1>5. /\ ledger' = [ledger EXCEPT ![m] = [p \in Peer |-> IF p \in chosen THEN "pending" ELSE @[p]]]
      /\ FlushAll([p \in chosen |-> Enqueued(Near(p), m)], retried)
      /\ kept' = kept
  BY <1>2, <1>4, Zenon DEF SendAgain
<1>6. /\ roster' = roster /\ self' = self /\ media' = media
      /\ history' = history /\ author' = author
      /\ shown' = shown /\ seen' = seen /\ remote' = remote
  BY <1>2, Zenon DEF SendAgain, mineVars, theirVars
<1>7. ASSUME NEW p \in chosen
      PROVE  ledger[m][p] = "failed" /\ end[<<p, "near">>].here /\ p \in Peer
  BY <1>2 DEF CanRetry, Near
<1>8. ASSUME NEW n \in Chat, NEW p \in Peer
      PROVE  /\ ledger[n][p] \in State
             /\ ledger'[n][p] = IF n = m /\ p \in chosen THEN "pending" ELSE ledger[n][p]
  <2>1. ledger[n][p] \in State /\ ledger \in [Chat -> [Peer -> State]]
    BY <1>1 DEF BookTypes
  <2>2. ledger' = [ledger EXCEPT ![m] = [q \in Peer |-> IF q \in chosen THEN "pending" ELSE ledger[m][q]]]
    BY <1>5
  <2>3. ledger'[n] = IF n = m THEN [q \in Peer |-> IF q \in chosen THEN "pending" ELSE ledger[m][q]]
                     ELSE ledger[n]
    BY <2>1, <2>2
  <2> QED  BY <2>1, <2>3
<1>9. BookTypes'
  <2>1. [p \in Peer |-> IF p \in chosen THEN "pending" ELSE ledger[m][p]] \in [Peer -> State]
    BY <1>8 DEF State
  <2>2. ledger' \in [Chat -> [Peer -> State]]
    BY <1>1, <1>5, <2>1 DEF BookTypes
  <2> QED  BY <1>1, <1>5, <1>6, <2>2 DEF BookTypes
<1>10. BookFits'
  <2>1. {n \in Chat : \E p \in Peer : ledger'[n][p] = "pending"}
          \subseteq {n \in Chat : \E p \in Peer : ledger[n][p] = "pending"} \cup {m}
    BY <1>8
  <2>2. {n \in Chat : \E p \in Peer : ledger[n][p] = "pending"}
          \subseteq {n \in Chat : \E p \in Peer : ledger'[n][p] = "pending"}
    BY <1>8
  <2>3. author[m] # None
    BY <1>1, <1>2, ChatAssumption DEF BookTypes
  <2>4. \A n \in Chat : author[n] = None => n \notin Range(history) /\ \A p \in Peer : ledger'[n][p] = "none"
    BY <1>1, <1>8, <2>3 DEF BookFits
  <2>5. kept = Range(history) \cup {n \in Chat : \E p \in Peer : ledger'[n][p] = "pending"}
    BY <1>1, <1>2, <2>1, <2>2 DEF BookFits
  <2> QED  BY <1>1, <1>5, <1>6, <2>4, <2>5 DEF BookFits
<1>11. \A p \in Peer : Keeps(p)
  BY <1>6, <1>8 DEF Keeps
<1>12. /\ \A p \in chosen : Awaited(p)' = Awaited(p) \cup {m}
       /\ \A p \in Peer \ chosen : Awaited(p)' = Awaited(p)
  BY <1>7, <1>8 DEF Awaited
<1>13. ChatInv'
  <2>1. \A d \in retried : d[2] # "leave"
    BY <1>4
  <2>2. \A p \in chosen : ledger[m][p] # "pending" /\ end[<<p, "near">>].here
    BY Zenon, <1>7
  <2> QED  BY <1>2, <1>3, <1>5, <1>6, <1>9, <1>10, <1>11, <1>12, <2>1, <2>2, SendingFits
<1>14. MailStep
  <2>1. Mailbox!Retry(m)
    <3>1. \A n \in Chat, p \in Peer :
            \/ ledger'[n][p] = ledger[n][p]
            \/ n \in {m} /\ ledger[n][p] \in {"failed"} /\ ledger'[n][p] \in {"pending"}
      BY <1>7, <1>8
    <3>2. DOMAIN ledger' = Chat
      BY <1>9 DEF BookTypes
    <3> QED  BY <1>6, <3>1, <3>2 DEF Mailbox!Retry, Mailbox!Change
  <2> QED  BY <2>1 DEF MailStep, Mailbox!Next
<1> QED  BY <1>13, <1>14

\* The messages sent so far are the first ones.
Numbered == \E n \in 0..Chats : {m \in Chat : author[m] # None} = 1..n

LEMMA NextNumber ==
  ASSUME Numbered, NEW m \in Chat, m = 1 + Cardinality({k \in Chat : author[k] # None})
  PROVE  /\ author[m] = None /\ m - 1 \in 0..Chats
         /\ {k \in Chat : author[k] # None} = 1..(m - 1)
<1>1. PICK n \in 0..Chats : {k \in Chat : author[k] # None} = 1..n
  BY DEF Numbered
<1>2. Cardinality(1..n) = n
  <2>1. n \in Int /\ 1 \in Int /\ n >= 0
    BY <1>1, ChatsAreNumbers
  <2>2. Cardinality(1..n) = IF 1 > n THEN 0 ELSE n - 1 + 1
    BY <2>1, FS_Interval
  <2> QED  BY <2>1, <2>2
<1>3. m = n + 1 /\ n \in Nat /\ n \in 0..Chats
  <2>1. Cardinality({k \in Chat : author[k] # None}) = n
    BY <1>1, <1>2
  <2>2. m = 1 + n
    BY <2>1
  <2> QED  BY <1>1, <2>2, ChatsAreNumbers
<1>4. m \notin 1..n /\ m - 1 = n
  BY <1>3
<1>5. author[m] = None
  <2>1. m \notin {k \in Chat : author[k] # None}
    BY <1>1, <1>4
  <2> QED  BY <2>1
<1> QED  BY <1>1, <1>3, <1>4, <1>5

Apart(s) == \A i, j \in 1..Len(s) : s[i] = s[j] => i = j

Shifted(s, m, all) ==
  /\ all \in Seq(Chat) /\ Range(all) = Range(s) \cup {m} /\ Apart(all)
  /\ Len(all) > MaxMessages =>
       /\ Head(all) \in Range(s) /\ Head(all) # m
       /\ Tail(all) \in Seq(Chat) /\ Range(Tail(all)) = Range(all) \ {Head(all)}
       /\ Apart(Tail(all))

\* Messages on display: one more, and the first one gone.
LEMMA ShiftOf ==
  ASSUME NEW s \in Seq(Chat), Apart(s), NEW m \in Chat, m \notin Range(s),
         NEW all, all = Append(s, m)
  PROVE  Shifted(s, m, all)
<1>1. /\ all \in Seq(Chat) /\ Len(all) = Len(s) + 1 /\ Len(s) \in Nat
      /\ all[Len(s) + 1] = m
      /\ \A i \in 1..Len(s) : all[i] = s[i]
      /\ Range(all) = Range(s) \cup {m}
  BY AppendsTo
<1>2. Range(s) = {s[i] : i \in 1..Len(s)}
  BY RangeEquality
<1>3. \A i \in 1..Len(s) : s[i] # m
  BY <1>2
<1>4. \A i, j \in 1..Len(all) : all[i] = all[j] => i = j
  BY <1>1, <1>3 DEF Apart
<1>5. ASSUME Len(all) > MaxMessages
      PROVE  /\ Head(all) \in Range(s) /\ Head(all) # m
             /\ Tail(all) \in Seq(Chat) /\ Range(Tail(all)) = Range(all) \ {Head(all)}
             /\ Apart(Tail(all))
  <2>1. MaxMessages \in Nat \ {0}
    BY ChatAssumption
  <2>2. Len(s) >= 1 /\ all # <<>>
    <3>1. Len(all) >= 2
      BY <1>1, <1>5, <2>1
    <3>2. Len(<<>>) = 0
      OBVIOUS
    <3> QED  BY <1>1, <3>1, <3>2
  <2>3. /\ Tail(all) \in Seq(Chat) /\ Len(all) \in Nat /\ Len(Tail(all)) = Len(all) - 1
        /\ \A i \in 1..Len(Tail(all)) : Tail(all)[i] = all[i + 1]
        /\ Head(all) = all[1]
        /\ Range(all) = {Head(all)} \cup Range(Tail(all))
    <3>1. PICK t \in Seq(Chat) : t = all
      BY <1>1
    <3>2. /\ Tail(t) \in Seq(Chat) /\ Len(t) \in Nat /\ Len(Tail(t)) = Len(t) - 1
          /\ \A i \in 1..Len(Tail(t)) : Tail(t)[i] = t[i + 1]
          /\ Head(t) = t[1]
          /\ Range(t) = {Head(t)} \cup Range(Tail(t))
      BY <2>2, <3>1, TailOf
    <3> QED  BY <3>1, <3>2, Zenon
  <2>4. Head(all) = s[1] /\ 1 \in 1..Len(s)
    BY <1>1, <2>2, <2>3
  <2>5. Head(all) \in Range(s) /\ Head(all) # m
    BY <1>2, <1>3, <2>4
  <2>6. \A i, j \in 1..Len(Tail(all)) : Tail(all)[i] = Tail(all)[j] => i = j
    <3> SUFFICES ASSUME NEW i \in 1..Len(Tail(all)), NEW j \in 1..Len(Tail(all)),
                        Tail(all)[i] = Tail(all)[j]
                 PROVE  i = j
      OBVIOUS
    <3>1. all[i + 1] = all[j + 1] /\ i + 1 \in 1..Len(all) /\ j + 1 \in 1..Len(all)
      BY <2>3
    <3>2. i + 1 = j + 1
      BY <1>4, <3>1
    <3> QED  BY <3>2
  <2>7. Head(all) \notin Range(Tail(all))
    <3>1. Range(Tail(all)) = {Tail(all)[i] : i \in 1..Len(Tail(all))}
      BY <2>3, RangeEquality
    <3>2. \A i \in 1..Len(Tail(all)) : Tail(all)[i] # all[1]
      <4> TAKE i \in 1..Len(Tail(all))
      <4>1. Tail(all)[i] = all[i + 1] /\ i + 1 \in 1..Len(all) /\ 1 \in 1..Len(all) /\ i + 1 # 1
        BY <2>2, <2>3
      <4> QED  BY <1>4, <4>1
    <3> QED  BY <2>3, <3>1, <3>2
  <2>8. Range(Tail(all)) = Range(all) \ {Head(all)} /\ Apart(Tail(all))
    BY <2>3, <2>6, <2>7 DEF Apart
  <2> QED  BY <2>3, <2>5, <2>8
<1> QED  BY <1>1, <1>4, <1>5 DEF Shifted, Apart

LEMMA SendFits ==
  ASSUME ChatInv, Numbered, NEW m \in Chat, SendChat(m)
  PROVE  ChatInv' /\ MailStep /\ Numbered'
<1>1. ChatTypes /\ BookTypes /\ BookFits /\ roster \subseteq Peer
  BY TypesOf DEF ChatInv
<1>2. /\ m = 1 + Cardinality({k \in Chat : author[k] # None})
      /\ Record(m, RecipientStates) /\ author' = [author EXCEPT ![m] = self]
      /\ FlushAll([p \in Targets |-> Enqueued(Near(p), m)], {})
      /\ roster' = roster /\ self' = self /\ media' = media
      /\ shown' = shown /\ seen' = seen /\ remote' = remote
  BY Zenon DEF SendChat, theirVars
<1>3. PICK D \in SUBSET Peer : D = Targets
  BY <1>1 DEF Targets
<1>4. \A p \in D : end[<<p, "near">>].here /\ p \in roster
  BY Zenon, <1>3 DEF Targets, Near
<1>5. /\ author[m] = None /\ m - 1 \in 0..Chats
      /\ {k \in Chat : author[k] # None} = 1..(m - 1)
  BY <1>2, NextNumber
<1>6. m \notin Range(history) /\ \A p \in Peer : ledger[m][p] = "none"
  BY <1>1, <1>5 DEF BookFits
<1>7. ASSUME NEW p \in Peer
      PROVE  /\ RecipientStates[p] \in {"none", "pending", "failed"}
             /\ RecipientStates[p] = "pending" <=> p \in D
  BY <1>3, <1>4 DEF RecipientStates
<1>8. PICK all : all = Append(history, m)
  OBVIOUS
<1>9. PICK over \in BOOLEAN : over <=> Len(all) > MaxMessages
  OBVIOUS
<1>10. PICK h : h = Head(all)
  OBVIOUS
<1>11. /\ ledger' = [ledger EXCEPT ![m] = RecipientStates]
       /\ history' = IF over THEN Tail(all) ELSE all
       /\ kept' = (kept \cup {m}) \ (IF over /\ \A p \in Peer : ledger[h][p] # "pending"
                                     THEN {h} ELSE {})
  <2>1. Record(m, RecipientStates)
    BY <1>2
  <2>2. over = (Len(all) > MaxMessages)
    BY <1>9
  <2> QED  BY <2>1, <2>2, <1>8, <1>10, Zenon DEF Record
<1>12. /\ all \in Seq(Chat) /\ Range(all) = Range(history) \cup {m}
       /\ \A i, j \in 1..Len(all) : all[i] = all[j] => i = j
       /\ over => /\ h \in Range(history) /\ h # m
                  /\ Tail(all) \in Seq(Chat) /\ Range(Tail(all)) = Range(all) \ {h}
                  /\ \A i, j \in 1..Len(Tail(all)) : Tail(all)[i] = Tail(all)[j] => i = j
  <2>1. PICK s \in Seq(Chat) : s = history
    BY <1>1 DEF BookTypes
  <2>2. Apart(s)
    BY <1>1, <2>1 DEF BookFits, Apart
  <2>3. m \notin Range(s) /\ all = Append(s, m)
    BY <1>6, <1>8, <2>1
  <2>4. Shifted(s, m, all)
    BY <2>2, <2>3, ShiftOf
  <2> QED  BY <1>9, <1>10, <2>1, <2>4 DEF Shifted, Apart
<1>13. /\ history' \in Seq(Chat)
       /\ Range(history') = (Range(history) \cup {m}) \ (IF over THEN {h} ELSE {})
       /\ \A i, j \in 1..Len(history') : history'[i] = history'[j] => i = j
       /\ m \in Range(history')
  <2>1. CASE over
    <3>1. history' = Tail(all)
      BY <1>11, <2>1
    <3> QED  BY <1>12, <2>1, <3>1
  <2>2. CASE ~over
    <3>1. history' = all
      BY <1>11, <2>2
    <3> QED  BY <1>12, <2>2, <3>1
  <2> QED  BY <2>1, <2>2
<1>14. ASSUME NEW n \in Chat, NEW p \in Peer
       PROVE  /\ ledger[n][p] \in State
              /\ ledger'[n][p] = IF n = m THEN RecipientStates[p] ELSE ledger[n][p]
  BY <1>1, <1>11 DEF BookTypes
<1>15. ASSUME NEW n \in Chat
       PROVE  author'[n] = IF n = m THEN self ELSE author[n]
  BY <1>1, <1>2 DEF BookTypes
<1>16. BookTypes'
  <2>1. RecipientStates \in [Peer -> State]
    <3>1. RecipientStates = [p \in Peer |-> RecipientStates[p]]
      BY DEF RecipientStates
    <3> QED  BY <3>1, <1>7 DEF State
  <2>2. ledger' \in [Chat -> [Peer -> State]]
    BY <1>1, <1>11, <2>1 DEF BookTypes
  <2>3. author' \in [Chat -> Nat \cup {None}] /\ self' \in Nat
    BY <1>1, <1>2 DEF BookTypes
  <2>4. kept' \subseteq Chat
    BY <1>1, <1>11 DEF BookTypes
  <2> QED  BY <1>13, <2>2, <2>3, <2>4 DEF BookTypes
<1>17. BookFits'
  <2>1. {n \in Chat : \E p \in Peer : ledger'[n][p] = "pending"}
          \subseteq {n \in Chat : \E p \in Peer : ledger[n][p] = "pending"} \cup {m}
    BY <1>14
  <2>2. {n \in Chat : \E p \in Peer : ledger[n][p] = "pending"}
          \subseteq {n \in Chat : \E p \in Peer : ledger'[n][p] = "pending"}
    BY <1>6, <1>14
  <2>3. ASSUME NEW n \in Chat, author'[n] = None
        PROVE  n \notin Range(history') /\ \A p \in Peer : ledger'[n][p] = "none"
    <3>1. self # None
      BY <1>1, ChatAssumption DEF BookTypes
    <3>2. n # m /\ author[n] = None
      BY <1>15, <2>3, <3>1
    <3>3. n \notin Range(history) /\ \A p \in Peer : ledger[n][p] = "none"
      BY <1>1, <3>2 DEF BookFits
    <3> QED  BY <1>13, <1>14, <3>2, <3>3
  <2>4. kept' = Range(history') \cup {n \in Chat : \E p \in Peer : ledger'[n][p] = "pending"}
    <3>1. kept = Range(history) \cup {n \in Chat : \E p \in Peer : ledger[n][p] = "pending"}
      BY <1>1 DEF BookFits
    <3>2. CASE ~over
      BY <1>11, <1>13, <2>1, <2>2, <3>1, <3>2
    <3>3. CASE over /\ \A p \in Peer : ledger[h][p] # "pending"
      <4>1. h # m
        BY <1>12, <3>3
      <4>2. h \notin {n \in Chat : \E p \in Peer : ledger'[n][p] = "pending"}
        BY <1>14, <3>3, <4>1
      <4>3. kept' = (kept \cup {m}) \ {h} /\ Range(history') = (Range(history) \cup {m}) \ {h}
        BY <1>11, <1>13, <3>3
      <4> QED  BY <1>13, <2>1, <2>2, <3>1, <4>1, <4>2, <4>3
    <3>4. CASE over /\ ~(\A p \in Peer : ledger[h][p] # "pending")
      <4>1. h # m /\ h \in Chat
        <5>1. h \in Range(history)
          BY <1>12, <3>4
        <5>2. Range(history) \subseteq kept
          BY <3>1
        <5> QED  BY <1>1, <1>12, <3>4, <5>1, <5>2 DEF BookTypes
      <4>2. h \in {n \in Chat : \E p \in Peer : ledger[n][p] = "pending"}
        BY <3>4, <4>1
      <4>3. kept' = kept \cup {m} /\ Range(history') = (Range(history) \cup {m}) \ {h}
        BY <1>11, <1>13, <3>4
      <4> QED  BY <1>13, <2>1, <2>2, <3>1, <4>2, <4>3
    <3> QED  BY <3>2, <3>3, <3>4
  <2> QED  BY <1>13, <2>3, <2>4 DEF BookFits
<1>18. \A p \in Peer : Keeps(p)
  BY <1>5, <1>6, <1>14, <1>15 DEF Keeps
<1>19. /\ \A p \in D : Awaited(p)' = Awaited(p) \cup {m}
       /\ \A p \in Peer \ D : Awaited(p)' = Awaited(p)
  <2>1. ASSUME NEW p \in Peer
        PROVE  Awaited(p)' = IF p \in D THEN Awaited(p) \cup {m} ELSE Awaited(p)
    <3>1. \A n \in Chat : ledger'[n][p] = "pending" <=> ledger[n][p] = "pending" \/ (n = m /\ p \in D)
      BY <1>6, <1>7, <1>14
    <3> QED  BY <3>1 DEF Awaited
  <2> QED  BY <2>1
<1>20. author'[m] = self
  BY <1>15
<1>21. ChatInv'
  <2>1. FlushAll([p \in D |-> Enqueued(Near(p), m)], {})
    BY <1>2, <1>3
  <2>2. \A p \in D : ledger[m][p] # "pending"
    BY <1>6
  <2>3. \A d \in {} : d[2] # "leave"
    OBVIOUS
  <2> QED  BY <1>2, <1>4, <1>16, <1>17, <1>18, <1>19, <1>20, <2>1, <2>2, <2>3, SendingFits
<1>22. MailStep
  <2>1. Mailbox!Post(m)
    <3>1. \A n \in Chat, p \in Peer :
            \/ ledger'[n][p] = ledger[n][p]
            \/ n \in {m} /\ ledger[n][p] \in {"none"} /\ ledger'[n][p] \in {"pending", "failed"}
      BY <1>6, <1>7, <1>14
    <3>2. DOMAIN ledger' = Chat
      BY <1>16 DEF BookTypes
    <3> QED  BY <1>2, <1>6, <3>1, <3>2 DEF Mailbox!Post, Mailbox!Change
  <2> QED  BY <2>1 DEF MailStep, Mailbox!Next
<1>23. Numbered'
  <2>1. self # None
    BY <1>1, ChatAssumption DEF BookTypes
  <2>2. {k \in Chat : author'[k] # None} = {k \in Chat : author[k] # None} \cup {m}
    BY <1>15, <2>1
  <2>3. 1..(m - 1) \cup {m} = 1..m /\ m \in 0..Chats
    BY ChatsAreNumbers DEF Chat
  <2> QED  BY <1>5, <2>2, <2>3 DEF Numbered
<1> QED  BY <1>21, <1>22, <1>23

LEMMA SetMediaFits ==
  ASSUME ChatInv, SetMedia
  PROVE  ChatInv' /\ MailStep
<1>1. ChatTypes /\ LinkTypes /\ BookTypes /\ BookFits /\ media \in Nat
  BY TypesOf DEF ChatInv
<1>2. PICK D \in SUBSET Peer : D = {q \in Peer : Near(q).here}
  OBVIOUS
<1>3. PICK ready : ready = [p \in D |-> [Near(p) EXCEPT !.media = media + 1, !.quiet = FALSE]]
  OBVIOUS
<1>4. /\ media' = media + 1 /\ FlushAll(ready, {<<None, "media">>})
      /\ ledger' = ledger /\ kept' = kept
      /\ roster' = roster /\ self' = self
      /\ history' = history /\ author' = author
      /\ shown' = shown /\ seen' = seen /\ remote' = remote
  BY <1>2, <1>3, Zenon DEF SetMedia, ledgerVars, theirVars
<1>5. media' \in Nat
  BY <1>1, <1>4
<1>6. ASSUME NEW p \in D
      PROVE  /\ ready[p] \in End /\ Prepared(end[<<p, "near">>], ready[p])
             /\ ready[p].media = media' /\ ready[p].queue = end[<<p, "near">>].queue
             /\ EndFits(end[<<p, "near">>], chan[p])
  <2>1. PICK e \in End : e = end[<<p, "near">>]
    BY <1>1, BothEnds DEF LinkTypes
  <2>2. PICK v \in Nat : v = media'
    BY <1>5
  <2>3. PICK g : g = [e EXCEPT !.media = v, !.quiet = FALSE]
    OBVIOUS
  <2>4. g \in End /\ Prepared(e, g) /\ g.media = v /\ g.queue = e.queue
    BY <2>3 DEF End, Prepared
  <2>5. ready[p] = g
    BY <1>3, <1>4, <2>1, <2>2, <2>3 DEF Near
  <2>6. EndFits(e, chan[p])
    BY <1>2, <2>1 DEF ChatInv, LinkFits, Shaped, LinkShape
  <2> QED  BY <2>1, <2>2, <2>4, <2>5, <2>6
<1>7. ready \in [D -> End]
  BY <1>3, <1>6
<1>8. /\ LinkTypes' /\ NobodyLeaves
      /\ \A p \in Peer \ D : Untouched(p)
      /\ \A p \in D :
           /\ Turn(<<p, "near">>, Range(end[<<p, "near">>].acks))
           /\ Alike(ready[p].queue, end'[<<p, "near">>].queue)
           /\ FullGoes(<<p, "near">>)
           /\ AllGoes(end[<<p, "near">>], ready[p], end'[<<p, "near">>],
                      wire[<<p, "near">>], wire'[<<p, "near">>], chan[p], chan'[p])
  <2>1. \A p \in D : EndFits(end[<<p, "near">>], chan[p]) /\ Prepared(end[<<p, "near">>], ready[p])
    BY Zenon, <1>6
  <2>2. \A d \in {<<None, "media">>} : d[2] # "leave"
    OBVIOUS
  <2> HIDE <1>6
  <2> QED  BY <1>1, <1>4, <1>7, <2>1, <2>2, FlushAllTurns
<1>9. ChatTypes'
  BY <1>1, <1>4, <1>5, <1>8 DEF ChatTypes, LinkTypes
<1>10. BookFits'
  BY <1>1, <1>4 DEF BookFits
<1>11. ASSUME NEW p \in Peer
       PROVE  Keeps(p) /\ Abides(p) /\ Quiet(p) /\ LinkFits(p)
  <2>1. Keeps(p)
    BY <1>4 DEF Keeps
  <2> QED  BY <1>4, <1>8, <2>1 DEF Abides, Quiet, NobodyLeaves, ChatInv
<1>12. ASSUME NEW p \in Peer \ D
       PROVE  LinkFits(p)'
  <2>1. ~end[<<p, "near">>].here /\ Untouched(p)
    BY <1>2, <1>8 DEF Near
  <2>2. LinkFits(p) /\ Quiet(p)
    BY <1>11
  <2> QED  BY <1>1, <1>8, <2>1, <2>2, OtherFits
<1>13. ASSUME NEW p \in D
       PROVE  LinkFits(p)'
  <2>1. Turn(<<p, "near">>, Range(end[<<p, "near">>].acks))
    BY <1>8
  <2>2. LinkFits(p) /\ Abides(p) /\ Keeps(p) /\ p \in Peer
    BY <1>11
  <2>3. Synced(p)'
    <3>1. Synced(p) /\ spent \subseteq spent' /\ remote'[p] = remote[p]
      BY <1>4, <1>8, <2>2 DEF LinkFits, NobodyLeaves
    <3>2. /\ AllGoes(end[<<p, "near">>], ready[p], end'[<<p, "near">>],
                     wire[<<p, "near">>], wire'[<<p, "near">>], chan[p], chan'[p])
          /\ ready[p].media = media'
      BY <1>6, <1>8
    <3> QED  BY <1>4, <1>5, <2>1, <2>2, <3>1, <3>2, SyncedTelling
  <2>4. Waiting(p)'
    <3>1. Alike(end[<<p, "near">>].queue, end'[<<p, "near">>].queue)
      BY <1>6, <1>8
    <3>2. end'[<<p, "near">>].here = end[<<p, "near">>].here
      BY <2>1, <2>2, BothEnds, TurnKeeps
    <3> QED  BY <1>1, <1>4, <1>8, <2>2, <3>1, <3>2, WaitingStays DEF LinkFits
  <2> QED  BY <1>1, <1>4, <1>8, <2>1, <2>2, <2>3, <2>4, NearFits
<1>14. \A p \in Peer : LinkFits(p)'
  BY <1>12, <1>13
<1> QED  BY <1>4, <1>9, <1>10, <1>14, MailRests DEF ChatInv

-----------------------------------------------------------------------------
(* Every step                                                              *)

LEMMA LinkFitsNext ==
  ASSUME ChatInv, NEW x \in Place, Link(x)
  PROVE  ChatInv' /\ MailStep
<1>1. ChatTypes /\ LinkTypes /\ media \in Nat
  BY TypesOf DEF ChatInv
<1>2. EndFits(end[x], chan[x[1]])
  BY PlacesOf DEF ChatInv, LinkFits, Shaped, LinkShape
<1>3. CASE CreateChannel(x) \/ ChannelArrives(x)
  BY <1>3, AttachFits
<1>4. CASE Ignore(x)
  BY <1>4, IgnoreFits
<1>5. CASE Opens(x)
  <2>1. Elsewhere
    BY <1>5, Zenon DEF Opens
  <2> QED  BY <1>1, <1>2, <1>5, <2>1, OpensPlain, PlainFits
<1>6. CASE Connected(x)
  <2>1. Elsewhere
    BY <1>6, Zenon DEF Connected
  <2> QED  BY <1>1, <1>2, <1>6, <2>1, ConnectedPlain, PlainFits
<1>7. CASE Disconnected(x)
  <2>1. Elsewhere
    BY <1>7, Zenon DEF Disconnected
  <2> QED  BY <1>1, <1>2, <1>7, <2>1, DisconnectedPlain, PlainFits
<1>8. CASE Closes(x)
  <2>1. Elsewhere
    BY <1>8, Zenon DEF Closes
  <2> QED  BY <1>1, <1>2, <1>8, <2>1, ClosesPlain, PlainFits
<1>9. CASE Crosses(x)
  <2>1. Elsewhere
    BY <1>9, Zenon DEF Crosses
  <2> QED  BY <1>1, <1>2, <1>9, <2>1, CrossesPlain, PlainFits
<1>10. CASE Errs(x)
  <2>1. Elsewhere
    BY <1>10, Zenon DEF Errs
  <2> QED  BY <1>1, <1>2, <1>10, <2>1, ErrsPlain, PlainFits
<1>11. CASE GraceEnds(x)
  <2>1. Elsewhere
    BY <1>11, Zenon DEF GraceEnds
  <2> QED  BY <1>1, <1>2, <1>11, <2>1, GraceEndsPlain, PlainFits
<1>12. CASE FillWindow(x)
  <2>1. Elsewhere
    BY <1>12, Zenon DEF FillWindow
  <2> QED  BY <1>1, <1>2, <1>12, <2>1, FillWindowPlain, PlainFits
<1>13. CASE WindowEnds(x)
  <2>1. Elsewhere
    BY <1>13, Zenon DEF WindowEnds
  <2> QED  BY <1>1, <1>2, <1>13, <2>1, WindowEndsPlain, PlainFits
<1>14. CASE BufferLow(x)
  <2>1. Elsewhere
    BY <1>14, Zenon DEF BufferLow
  <2> QED  BY <1>1, <1>2, <1>14, <2>1, BufferLowPlain, PlainFits
<1>15. CASE RecoveryTimer(x)
  <2>1. Resting
    BY <1>15, Zenon DEF RecoveryTimer
  <2>2. CASE /\ end[x].open /\ \E out \in Finish(x, end[x]) : Outcome(x, out, FALSE)
             /\ UNCHANGED ledgerVars
    <3>1. Elsewhere /\ media' = media
      BY <2>1, <2>2, Zenon DEF Elsewhere, Resting, mineVars
    <3> QED  BY <1>1, <1>2, <2>2, <3>1, TimerPlain, PlainFits
  <2>3. CASE /\ Spend(<<x[1], "early">>) /\ Simply(x, Replaced(end[x]), TRUE)
             /\ UNCHANGED ledgerVars
    <3>1. Elsewhere /\ media' = media
      BY <2>1, <2>3, Zenon DEF Elsewhere, Resting, mineVars
    <3> QED  BY <1>1, <1>2, <2>3, <3>1, TimerPlain, PlainFits
  <2>4. CASE GiveUp(x)
    BY <2>4, GiveUpFits
  <2>5. \/ /\ end[x].open /\ \E out \in Finish(x, end[x]) : Outcome(x, out, FALSE)
           /\ UNCHANGED ledgerVars
        \/ /\ Spend(<<x[1], "early">>) /\ Simply(x, Replaced(end[x]), TRUE)
           /\ UNCHANGED ledgerVars
        \/ GiveUp(x)
    BY <1>15, <2>1, Zenon DEF RecoveryTimer, GiveUp
  <2> QED  BY <2>2, <2>3, <2>4, <2>5
<1> QED  BY <1>3, <1>4, <1>5, <1>6, <1>7, <1>8, <1>9, <1>10, <1>11, <1>12, <1>13, <1>14, <1>15 DEF Link

\* Only sending a chat gives a message an author.
LEMMA AuthorStays ==
  ASSUME Next
  PROVE  author' = author \/ \E m \in Chat : SendChat(m)
<1>1. ASSUME NEW x \in Place, Link(x)
      PROVE  author' = author
  <2>1. Elsewhere => author' = author
    BY Zenon DEF Elsewhere, mineVars
  <2>2. Resting => author' = author
    BY Zenon DEF Resting, mineVars
  <2>3. /\ CreateChannel(x) \/ ChannelArrives(x) \/ Crosses(x) => Elsewhere
        /\ Opens(x) \/ Connected(x) => Elsewhere
    BY Zenon DEF CreateChannel, ChannelArrives, Crosses, Opens, Connected
  <2>4. Disconnected(x) \/ Closes(x) \/ Errs(x) \/ GraceEnds(x) => Elsewhere
    BY Zenon DEF Disconnected, Closes, Errs, GraceEnds
  <2>5. Ignore(x) \/ FillWindow(x) \/ WindowEnds(x) \/ BufferLow(x) => Elsewhere
    BY Zenon DEF Ignore, FillWindow, WindowEnds, BufferLow
  <2>6. RecoveryTimer(x) => Resting
    BY Zenon DEF RecoveryTimer
  <2> QED  BY <1>1, <2>1, <2>2, <2>3, <2>4, <2>5, <2>6 DEF Link
<1>2. ASSUME NEW p \in Peer, Again(p) \/ Renew(p) \/ PeerLeaves(p) \/ RemovePeer(p)
      PROVE  author' = author
  BY <1>2, Zenon DEF Again, Renew, PeerLeaves, RemovePeer, Elsewhere, Resting, mineVars
<1>3. Rejoin => author' = author
  BY Zenon DEF Rejoin
<1>4. ASSUME NEW m \in Chat, RetryChat(m)
      PROVE  author' = author
  BY <1>4, Zenon DEF RetryChat, SendAgain, mineVars
<1>5. SetMedia => author' = author
  BY Zenon DEF SetMedia
<1>6. ASSUME NEW p \in Peer, NEW m \in Chat, Expire(p, m)
      PROVE  author' = author
  BY <1>6, Zenon DEF Expire, Resting, mineVars
<1>7. ASSUME NEW p \in Peer, ReadAck(p) \/ ReadMedia(p) \/ ReadChat(p)
      PROVE  author' = author
  BY <1>7, Zenon DEF ReadAck, ReadMedia, ReadChat, Resting, mineVars
<1> QED  BY <1>1, <1>2, <1>3, <1>4, <1>5, <1>6, <1>7, Zenon DEF Next

LEMMA StepFits ==
  ASSUME ChatInv, Numbered, [Next]_vars
  PROVE  ChatInv' /\ Numbered' /\ MailStep
<1>1. CASE UNCHANGED vars
  <2>1. /\ end' = end /\ chan' = chan /\ wire' = wire /\ ledger' = ledger /\ kept' = kept
        /\ roster' = roster /\ self' = self /\ media' = media
        /\ history' = history /\ author' = author /\ shown' = shown /\ seen' = seen
        /\ remote' = remote /\ spent' = spent
    BY <1>1, Zenon DEF vars, ledgerVars, mineVars, theirVars
  <2>2. LinkTypes'
    BY <2>1, TypesOf DEF ChatInv, LinkTypes
  <2>3. Elsewhere
    BY <2>1, Zenon DEF Elsewhere, ledgerVars, mineVars, theirVars
  <2>4. ChatTypes' /\ BookFits' /\ MailStep /\ media' = media /\ \A q \in Peer : Quiet(q)
    BY <2>1, <2>2, <2>3, ElsewhereRests
  <2>5. ASSUME NEW p \in Peer
        PROVE  LinkFits(p)'
    <3>1. Untouched(p)
      BY <2>1 DEF Untouched
    <3>2. ChatTypes /\ LinkFits(p)
      BY DEF ChatInv
    <3> QED  BY <2>2, <2>4, <3>1, <3>2, OtherFits
  <2> QED  BY <2>1, <2>4, <2>5 DEF ChatInv, Numbered
<1>2. CASE Next
  <2>1. ASSUME NEW m \in Chat, SendChat(m)
        PROVE  ChatInv' /\ Numbered' /\ MailStep
    BY <2>1, SendFits
  <2>2. CASE author' = author
    <3>1. Numbered'
      BY <2>2 DEF Numbered
    <3>2. ChatInv' /\ MailStep
      <4>1. ASSUME NEW x \in Place, Link(x) PROVE ChatInv' /\ MailStep
        BY <4>1, LinkFitsNext
      <4>2. ASSUME NEW p \in Peer, Again(p) PROVE ChatInv' /\ MailStep
        BY <4>2, AgainFits
      <4>3. ASSUME NEW p \in Peer, Renew(p) PROVE ChatInv' /\ MailStep
        BY <4>3, RenewFits
      <4>4. ASSUME NEW p \in Peer, PeerLeaves(p) PROVE ChatInv' /\ MailStep
        BY <4>4, PeerLeavesFits
      <4>5. ASSUME NEW p \in Peer, RemovePeer(p) PROVE ChatInv' /\ MailStep
        BY <4>5, RemovePeerFits
      <4>6. CASE Rejoin
        BY <4>6, RejoinFits
      <4>7. ASSUME NEW m \in Chat, RetryChat(m) PROVE ChatInv' /\ MailStep
        BY <4>7, RetryFits
      <4>8. CASE SetMedia
        BY <4>8, SetMediaFits
      <4>9. ASSUME NEW p \in Peer, NEW m \in Chat, Expire(p, m) PROVE ChatInv' /\ MailStep
        BY <4>9, ExpireFits
      <4>10. ASSUME NEW p \in Peer, ReadAck(p) PROVE ChatInv' /\ MailStep
        BY <4>10, ReadAckFits
      <4>11. ASSUME NEW p \in Peer, ReadMedia(p) PROVE ChatInv' /\ MailStep
        BY <4>11, ReadMediaFits
      <4>12. ASSUME NEW p \in Peer, ReadChat(p) PROVE ChatInv' /\ MailStep
        BY <4>12, ReadChatFits
      <4> QED
        BY <1>2, <2>1, <4>1, <4>2, <4>3, <4>4, <4>5, <4>6, <4>7, <4>8, <4>9, <4>10, <4>11, <4>12,
           Zenon DEF Next
    <3> QED  BY <3>1, <3>2
  <2> QED  BY <1>2, <2>1, <2>2, AuthorStays
<1> QED  BY <1>1, <1>2

LEMMA InitFits == Init => ChatInv /\ Numbered /\ Mailbox!Init
<1> SUFFICES ASSUME Init
             PROVE  ChatInv /\ Numbered /\ Mailbox!Init
  OBVIOUS
<1>1. /\ end = [x \in Place |-> Fresh(1, IF x[2] = "far" THEN 1 ELSE None)]
      /\ chan = [p \in Peer |-> [gen |-> 0, alive |-> FALSE, fresh |-> FALSE, by |-> "near"]]
      /\ wire = [x \in Place |-> <<>>]
      /\ roster = Peer /\ self = 1 /\ media = 0
      /\ ledger = [m \in Chat |-> [p \in Peer |-> "none"]] /\ kept = {}
      /\ history = <<>> /\ author = [m \in Chat |-> None]
      /\ shown = [p \in Peer |-> [m \in Chat |-> 0]] /\ seen = [p \in Peer |-> {}]
      /\ remote = [p \in Peer |-> None] /\ spent = {}
  BY Zenon DEF Init
<1>2. ASSUME NEW x \in Place
      PROVE  /\ end[x] \in End /\ end[x].here /\ end[x].epoch = 1 /\ end[x].on = 0 /\ ~end[x].open
             /\ ~end[x].recovering /\ ~end[x].due /\ ~end[x].full
             /\ end[x].queue = <<>> /\ end[x].acks = <<>> /\ end[x].got = <<>>
             /\ x[2] = "far" => end[x].from = 1
             /\ wire[x] = <<>>
  <2>1. PICK s \in Nat \cup {None} : s = IF x[2] = "far" THEN 1 ELSE None
    OBVIOUS
  <2>2. PICK f : f = Fresh(1, s)
    OBVIOUS
  <2>3. end[x] = f
    BY <1>1, <2>1, <2>2
  <2>4. /\ f \in End /\ f.here /\ f.epoch = 1 /\ f.from = s /\ f.on = 0 /\ ~f.open
        /\ ~f.recovering /\ ~f.due /\ ~f.full /\ f.queue = <<>> /\ f.acks = <<>>
        /\ f.got = <<>>
    <3>1. PICK n \in Nat : n = 1
      OBVIOUS
    <3>2. f = Fresh(n, s)
      BY <2>2, <3>1
    <3> HIDE <2>2
    <3> QED  BY <3>1, <3>2, FreshOf
  <2> QED  BY <1>1, <2>1, <2>3, <2>4
<1>3. Range(<<>>) = {} /\ <<>> \in Seq(Chat) /\ <<>> \in Seq(Frame)
  BY DEF Range
<1>4. ChatTypes
  <2>1. end \in [Place -> End] /\ wire \in [Place -> Seq(Frame)]
    <3>1. DOMAIN end = Place /\ end = [x \in DOMAIN end |-> end[x]]
      BY <1>1
    <3> QED  BY <1>1, <1>2, <1>3, <3>1
  <2>3. chan \in [Peer -> Channel] /\ ledger \in [Chat -> [Peer -> State]]
    BY <1>1 DEF Channel, State
  <2>4. /\ roster \subseteq Peer /\ self \in Nat /\ media \in Nat /\ kept \subseteq Chat
        /\ history \in Seq(Chat) /\ author \in [Chat -> Nat \cup {None}]
        /\ shown \in [Peer -> [Chat -> Nat]]
        /\ seen \in [Peer -> SUBSET ((Nat \cup {None}) \X Chat)]
        /\ remote \in [Peer -> Nat \cup {None}]
    BY <1>1, <1>3
  <2> QED  BY <2>1, <2>3, <2>4 DEF ChatTypes
<1>5. BookFits
  <2>1. \A m \in Chat, p \in Peer : ledger[m][p] = "none"
    BY <1>1
  <2>2. \A i, j \in 1..Len(history) : history[i] = history[j] => i = j
    BY <1>1
  <2>3. Range(history) = {} /\ kept = {}
    BY <1>1, <1>3
  <2> QED  BY <2>1, <2>2, <2>3 DEF BookFits
<1>6. ASSUME NEW p \in Peer
      PROVE  LinkFits(p)
  <2>1. PICK n \in End : n = end[<<p, "near">>]
    BY <1>2, BothEnds
  <2>2. PICK f \in End : f = end[<<p, "far">>]
    BY <1>2, BothEnds
  <2>3. /\ n.here /\ n.epoch = 1 /\ n.on = 0 /\ ~n.open /\ ~n.recovering /\ ~n.due /\ n.queue = <<>>
        /\ f.here /\ f.epoch = 1 /\ f.on = 0 /\ ~f.open /\ ~f.recovering /\ ~f.due /\ ~f.full
        /\ f.acks = <<>> /\ f.got = <<>> /\ f.from = 1
        /\ wire[<<p, "near">>] = <<>> /\ wire[<<p, "far">>] = <<>>
    BY <1>2, <2>1, <2>2, BothEnds
  <2>4. chan[p].gen = 0 /\ ~chan[p].alive
    BY <1>1
  <2>5. \A m \in Chat : ledger[m][p] = "none" /\ shown[p][m] = 0
    BY <1>1
  <2>6. seen[p] = {}
    BY <1>1
  <2>7. Shaped(p)
    BY <2>1, <2>2, <2>3, <2>4 DEF Shaped, LinkShape, EndFits, AttachedTo
  <2>8. Member(p)
    BY <1>1, <2>1, <2>2, <2>3 DEF Member
  <2>9. Synced(p)
    BY <2>1, <2>2, <2>3, <2>4 DEF Synced, Busy
  <2>10. Known(p) /\ Heading(p)
    BY <1>3, <2>2, <2>3, <2>4 DEF Known, Heading, AttachedTo
  <2>11. Credit(p)
    BY <2>5, <2>6 DEF Credit
  <2>12. Waiting(p)
    <3>1. Awaited(p) = {}
      BY <2>5 DEF Awaited
    <3>2. end[<<p, "near">>].queue = <<>>
      BY <2>1, <2>3
    <3> QED  BY <3>1, <3>2, NoneDistinct DEF Waiting
  <2> QED  BY <2>7, <2>8, <2>9, <2>10, <2>11, <2>12 DEF LinkFits
<1>7. Numbered
  <2>1. {m \in Chat : author[m] # None} = {} /\ 1..0 = {}
    BY <1>1
  <2>2. 0 \in 0..Chats
    BY ChatsAreNumbers
  <2> QED  BY <2>1, <2>2 DEF Numbered
<1>8. Mailbox!Init
  BY <1>1 DEF Mailbox!Init
<1> QED  BY <1>4, <1>5, <1>6, <1>7, <1>8 DEF ChatInv

-----------------------------------------------------------------------------
(* The theorems                                                            *)

LEMMA IdleIsSent ==
  ASSUME ChatInv, NEW p \in Peer, Idle(p), ~Near(p).quiet, <<p, "flood">> \notin spent
  PROVE  remote[p] = media /\ Frames(Near(p)) = <<>>
<1>1. LinkTypes /\ media \in Nat
  BY TypesOf DEF ChatInv
<1>2. PICK x \in Place : x = <<p, "near">>
  BY BothEnds
<1>3. PICK e \in End : e = end[x]
  BY <1>1 DEF LinkTypes
<1>4. /\ chan[p].alive /\ Attached(x) /\ e.open /\ ~e.recovering /\ ~e.low /\ wire[x] = <<>>
      /\ ~e.quiet
  BY <1>2, <1>3 DEF Idle, Near
<1>5. AttachedTo(e, chan[p])
  BY <1>2, <1>3, <1>4 DEF Attached, AttachedTo
<1>6. Busy(e, chan[p], wire[x], remote[p], media)
  BY <1>2, <1>3 DEF ChatInv, LinkFits, Synced
<1>7. Flows(e, <<>>, remote[p], media)
  BY <1>4, <1>5, <1>6 DEF Busy
<1>8. Frames(e) = <<>> /\ Tells(e.media, <<>>, remote[p], media)
  <2>1. Low \in Nat /\ Len(<<>>) = 0
    BY ChatAssumption
  <2>2. ~(Len(<<>>) > Low)
    BY <2>1
  <2> QED  BY <1>4, <1>7, <2>2 DEF Flows
<1>9. e.media = None
  BY <1>8, NothingToSend
<1>10. Says(<<>>, remote[p], media)
  <2>1. None # media
    BY <1>1, ChatAssumption
  <2> QED  BY <1>8, <1>9, <2>1 DEF Tells
<1>11. remote[p] = media
  BY <1>10 DEF Says
<1> QED  BY <1>2, <1>3, <1>8, <1>11 DEF Near

LEMMA NothingForgotten == ChatInv => NothingIsForgotten
<1> SUFFICES ASSUME ChatInv
             PROVE  NothingIsForgotten
  OBVIOUS
<1>1. ASSUME NEW p \in Peer
      PROVE  {c.id : c \in Range(Near(p).queue)} = {m \in Chat : ledger[m][p] = "pending"}
  <2>1. PICK q \in Seq(Entry) : q = end[<<p, "near">>].queue
    BY BothEnds, TypesOf DEF ChatInv, LinkTypes, End
  <2>2. Distinct(q) /\ Ids(q) = Awaited(p)
    BY <2>1 DEF ChatInv, LinkFits, Waiting
  <2>3. Ids(q) = {c.id : c \in Range(q)}
    BY <2>2, DistinctOf
  <2> QED  BY <2>1, <2>2, <2>3 DEF Awaited, Near
<1>2. kept = Range(history) \cup {m \in Chat : \E p \in Peer : ledger[m][p] = "pending"}
  BY DEF ChatInv, BookFits
<1>3. ASSUME NEW p \in Peer, Idle(p), ~Near(p).quiet, <<p, "flood">> \notin spent
      PROVE  remote[p] = media /\ Frames(Near(p)) = <<>>
  BY <1>3, IdleIsSent
<1> QED  BY <1>1, <1>2, <1>3 DEF NothingIsForgotten

\* The invariant the other theorems rest on: every link and the books fit.  What
\* an open channel owes the peer is said of the ends that are not quiet.
THEOREM ChatFits == Spec => [](ChatInv /\ Numbered)
<1>1. Init => ChatInv /\ Numbered
  BY InitFits
<1>2. (ChatInv /\ Numbered) /\ [Next]_vars => (ChatInv /\ Numbered)'
  BY StepFits
<1> QED  BY <1>1, <1>2, PTL DEF Spec

\* Whatever becomes of channels and connections, what the sender calls pending
\* is watched by a timer in the queue of that peer, the books are kept of what is
\* on display or pending and of nothing else, and a link that has come to rest
\* has told the peer everything; unless the peer had to ignore frames, or the
\* channel opened on an end that was connected and had no recovery to end.
THEOREM ForgetsNothing == Spec => []NothingIsForgotten
<1>1. ChatInv /\ Numbered => NothingIsForgotten
  BY NothingForgotten
<1> QED  BY <1>1, ChatFits, PTL

\* Every step of the chat is one of the mailbox, or none: an acknowledged
\* message was shown, and none is shown twice.
THEOREM ChatIsMailbox == Spec => Mailbox!Init /\ [][Mailbox!Next]_(Mailbox!vars)
<1>1. Init => Mailbox!Init
  BY InitFits
<1>2. ChatInv /\ Numbered /\ [Next]_vars => [Mailbox!Next]_(Mailbox!vars)
  BY StepFits DEF MailStep
<1> QED  BY <1>1, <1>2, ChatFits, PTL DEF Spec

=============================================================================
