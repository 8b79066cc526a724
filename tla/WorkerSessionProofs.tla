------------------------- MODULE WorkerSessionProofs ------------------------
(***************************************************************************)
(* Proofs about what runs between pogo and one worker, MCWorkerSession.    *)
(*                                                                         *)
(* The frames: that both readers and both writers, bytes and pieces of     *)
(* bytes, make a FIFO of messages, for any sizes of frames and buffers.    *)
(* The argument is what is still to come: the bytes that a reader holds,   *)
(* those in transit and those not yet written are, in this order, the      *)
(* messages that have not been returned, each with its newline.            *)
(*                                                                         *)
(* The session, for any number of stray connections: what has been         *)
(* acquired and not yet released at each place of runSession.              *)
(***************************************************************************)
EXTENDS MCWorkerSession, SequenceTheorems, WellFoundedInduction, TLAPS

-----------------------------------------------------------------------------
(* Sequences of bytes and the messages in them.                             *)

Byte == Bytes \cup {NewLine}
Message == {p \in Frames!Payloads : Frames!Fits(p)}

\* Two sequences as one, and one as two.
Joined(a, b) == a \o b
Taken(s, n) == SubSeq(s, 1, n)
Dropped(s, n) == SubSeq(s, n + 1, Len(s))

\* t is the messages after the n-th, each with a newline; the i-th of them ends at
\* cut[i].
Cuts(t, messages, n, cut) ==
  /\ cut \in [n..Len(messages) -> 0..Len(t)]
  /\ cut[n] = 0 /\ cut[Len(messages)] = Len(t)
  /\ \A i, k \in n..Len(messages) : i <= k => cut[i] <= cut[k]
  /\ \A i \in (n + 1)..Len(messages) :
       /\ cut[i] = cut[i - 1] + Len(messages[i]) + 1
       /\ t[cut[i]] = NewLine
       /\ \A j \in 1..Len(messages[i]) : t[cut[i - 1] + j] = messages[i][j]

Unread(t, messages, n) == \E cut : Cuts(t, messages, n, cut)

\* u is what is left of t after e bytes.
Left(t, e, u) ==
  /\ u \in Seq(Byte) /\ Len(u) = Len(t) - e
  /\ \A i \in 1..(Len(t) - e) : u[i] = t[e + i]

\* The first n bytes hold no newline.
Unbroken(t, n) == \A i \in 1..n : t[i] # NewLine

LEMMA MessageType ==
  ASSUME NEW m \in Message
  PROVE  /\ m \in Seq(Bytes) /\ m \in Seq(Byte) /\ Len(m) \in 1..MaxFrameSize
         /\ \A i \in 1..Len(m) : m[i] \in Bytes /\ m[i] # NewLine
<1>1. PICK n \in 0..(MaxFrameSize + 1), b \in Bytes : m \in [1..n -> {b}]
  BY DEF Message, Frames!Payloads
<1>2. n \in Nat
  BY FramesAssumed DEF Frames!FrameCodecAssumption
<1>3. m \in Seq(Bytes) 
  BY <1>1, <1>2, SeqDef
<1>4. m \in Seq(Byte)
  BY <1>1, <1>2, SeqDef DEF Byte
<1>5. Len(m) \in 1..MaxFrameSize
  BY DEF Message, Frames!Fits
<1>6. \A i \in 1..Len(m) : m[i] \in Bytes
  BY <1>3, ElementOfSeq
<1>7. QED
  BY <1>3, <1>4, <1>5, <1>6, FramesAssumed DEF Frames!FrameCodecAssumption

\* A sequence is what is before a place and what is after it.
LEMMA Divided ==
  ASSUME NEW S, NEW s \in Seq(S), NEW n \in 0..Len(s)
  PROVE  /\ Taken(s, n) \in Seq(S) /\ Dropped(s, n) \in Seq(S)
         /\ Len(Taken(s, n)) = n /\ Len(Dropped(s, n)) = Len(s) - n
         /\ \A i \in 1..n : Taken(s, n)[i] = s[i]
         /\ \A i \in 1..(Len(s) - n) : Dropped(s, n)[i] = s[n + i]
<1>1. Len(s) \in Nat /\ \A i \in 1..Len(s) : s[i] \in S
  BY LenProperties, ElementOfSeq
<1>2. \A i \in 1..n : s[i] \in S
  BY <1>1
<1>3. \A i \in (n + 1)..Len(s) : s[i] \in S
  BY <1>1
<1>4. /\ SubSeq(s, 1, n) \in Seq(S) /\ Len(SubSeq(s, 1, n)) = n
      /\ \A i \in 1..n : SubSeq(s, 1, n)[i] = s[i]
  <2>1. /\ SubSeq(s, 1, n) \in Seq(S)
        /\ Len(SubSeq(s, 1, n)) = IF 1 <= n THEN n - 1 + 1 ELSE 0
        /\ \A i \in 1..(n - 1 + 1) : SubSeq(s, 1, n)[i] = s[1 + i - 1]
    BY <1>1, <1>2, SubSeqProperties
  <2>2. QED
    BY <1>1, <2>1
<1>5. /\ SubSeq(s, n + 1, Len(s)) \in Seq(S)
      /\ Len(SubSeq(s, n + 1, Len(s))) = Len(s) - n
      /\ \A i \in 1..(Len(s) - n) : SubSeq(s, n + 1, Len(s))[i] = s[n + i]
  <2>1. /\ SubSeq(s, n + 1, Len(s)) \in Seq(S)
        /\ Len(SubSeq(s, n + 1, Len(s))) =
             IF n + 1 <= Len(s) THEN Len(s) - (n + 1) + 1 ELSE 0
        /\ \A i \in 1..(Len(s) - (n + 1) + 1) :
             SubSeq(s, n + 1, Len(s))[i] = s[(n + 1) + i - 1]
    BY <1>1, <1>3, SubSeqProperties
  <2>2. QED
    BY <1>1, <2>1
<1>6. QED
  BY <1>4, <1>5 DEF Taken, Dropped

LEMMA DividedIsJoined ==
  ASSUME NEW S, NEW s \in Seq(S), NEW n \in 0..Len(s)
  PROVE  Joined(Taken(s, n), Dropped(s, n)) = s
<1>1. SubSeq(s, 1, n) \o SubSeq(s, n + 1, Len(s)) = SubSeq(s, 1, Len(s))
  <2>1. 1 \in 1..(Len(s) + 1) /\ n \in (1 - 1)..Len(s) /\ Len(s) \in n..Len(s)
    BY LenProperties
  <2>2. QED
    BY <2>1, ConcatAdjacentSubSeq
<1>2. QED
  BY <1>1, SubSeqFull DEF Taken, Dropped, Joined

LEMMA TakenAll ==
  ASSUME NEW S, NEW s \in Seq(S)
  PROVE  Taken(s, Len(s)) = s
BY SubSeqFull DEF Taken

\* One sequence after another.
LEMMA JoinedParts ==
  ASSUME NEW S, NEW a \in Seq(S), NEW b \in Seq(S)
  PROVE  /\ Joined(a, b) \in Seq(S)
         /\ Len(Joined(a, b)) = Len(a) + Len(b)
         /\ Len(a) \in Nat /\ Len(b) \in Nat
         /\ \A i \in 1..Len(a) : Joined(a, b)[i] = a[i]
         /\ \A i \in 1..Len(b) : Joined(a, b)[Len(a) + i] = b[i]
<1> DEFINE t == a \o b
<1>1. /\ t \in Seq(S) /\ Len(t) = Len(a) + Len(b)
      /\ Len(a) \in Nat /\ Len(b) \in Nat
      /\ \A i \in 1..(Len(a) + Len(b)) :
           t[i] = IF i <= Len(a) THEN a[i] ELSE b[i - Len(a)]
  BY LenProperties, ConcatProperties
<1> HIDE DEF t
<1>2. \A i \in 1..Len(a) : t[i] = a[i]
  BY <1>1
<1>3. ASSUME NEW i \in 1..Len(b)
      PROVE  t[Len(a) + i] = b[i]
  <2>1. /\ Len(a) + i \in 1..(Len(a) + Len(b)) /\ ~(Len(a) + i <= Len(a))
        /\ (Len(a) + i) - Len(a) = i
    BY <1>1
  <2>2. QED
    BY <1>1, <2>1
<1>4. QED
  BY <1>1, <1>2, <1>3 DEF Joined, t

LEMMA JoinedEmpty ==
  ASSUME NEW S, NEW a \in Seq(S)
  PROVE  Joined(a, <<>>) = a /\ Joined(<<>>, a) = a
BY ConcatEmptySeq DEF Joined

LEMMA JoinedTaken ==
  ASSUME NEW S, NEW a \in Seq(S), NEW b \in Seq(S)
  PROVE  Taken(Joined(a, b), Len(a)) = a /\ Dropped(Joined(a, b), Len(a)) = b
<1> DEFINE t == Joined(a, b)
<1>1. t \in Seq(S) /\ Len(t) = Len(a) + Len(b) /\ Len(a) \in Nat /\ Len(b) \in Nat
  BY JoinedParts
<1>2. \A i \in 1..Len(a) : t[i] = a[i]
  BY JoinedParts
<1>3. ASSUME NEW i \in 1..Len(b)
      PROVE  t[Len(a) + i] = b[i]
  BY JoinedParts
<1> HIDE DEF t
<1>4. Len(a) \in 0..Len(t) /\ Len(t) - Len(a) = Len(b)
  BY <1>1
<1>5. /\ Taken(t, Len(a)) \in Seq(S) /\ Len(Taken(t, Len(a))) = Len(a)
      /\ \A i \in 1..Len(a) : Taken(t, Len(a))[i] = t[i]
      /\ Dropped(t, Len(a)) \in Seq(S) /\ Len(Dropped(t, Len(a))) = Len(t) - Len(a)
      /\ \A i \in 1..(Len(t) - Len(a)) : Dropped(t, Len(a))[i] = t[Len(a) + i]
  BY <1>1, <1>4, Divided
<1>6. Taken(t, Len(a)) = a
  BY <1>2, <1>5, SeqEqual
<1>7. Dropped(t, Len(a)) = b
  BY <1>3, <1>4, <1>5, SeqEqual
<1>8. QED
  BY <1>6, <1>7 DEF t

LEMMA JoinedGroups ==
  ASSUME NEW S, NEW a \in Seq(S), NEW b \in Seq(S), NEW c \in Seq(S)
  PROVE  Joined(Joined(a, b), c) = Joined(a, Joined(b, c))
BY ConcatAssociative DEF Joined

\* What the cuts say, one by one.
LEMMA CutFacts ==
  ASSUME NEW t \in Seq(Byte), NEW messages \in Seq(Message), NEW n \in 0..Len(messages),
         NEW cut, Cuts(t, messages, n, cut)
  PROVE  /\ Len(t) \in Nat /\ Len(messages) \in Nat /\ n \in Nat
         /\ \A i \in 1..Len(messages) : Len(messages[i]) \in Nat /\ messages[i] \in Message
         /\ cut[n] = 0 /\ cut[Len(messages)] = Len(t)
         /\ \A i \in n..Len(messages) : cut[i] \in 0..Len(t)
         /\ \A i, k \in n..Len(messages) : i <= k => cut[i] <= cut[k]
         /\ \A i \in (n + 1)..Len(messages) :
              /\ i \in 1..Len(messages) /\ i \in n..Len(messages)
              /\ i - 1 \in n..Len(messages)
              /\ cut[i] = cut[i - 1] + Len(messages[i]) + 1
              /\ t[cut[i]] = NewLine
              /\ \A j \in 1..Len(messages[i]) : t[cut[i - 1] + j] = messages[i][j]
<1>1. Len(t) \in Nat /\ Len(messages) \in Nat /\ n \in Nat
  BY LenProperties
<1>2. \A i \in 1..Len(messages) : Len(messages[i]) \in Nat /\ messages[i] \in Message
  BY MessageType, ElementOfSeq
<1>3. \A i \in n..Len(messages) : cut[i] \in 0..Len(t)
  BY DEF Cuts
<1>4. \A i \in (n + 1)..Len(messages) :
        /\ i \in 1..Len(messages) /\ i \in n..Len(messages)
        /\ i - 1 \in n..Len(messages)
  BY <1>1
<1>5. QED
  BY <1>1, <1>2, <1>3, <1>4, Zenon DEF Cuts

\* One of the cuts.
LEMMA CutAt ==
  ASSUME NEW t \in Seq(Byte), NEW messages \in Seq(Message), NEW n \in 0..Len(messages),
         NEW cut, Cuts(t, messages, n, cut), NEW i \in (n + 1)..Len(messages)
  PROVE  /\ cut[i] \in 0..Len(t) /\ cut[i - 1] \in 0..Len(t)
         /\ Len(messages[i]) \in Nat
         /\ cut[i] = cut[i - 1] + Len(messages[i]) + 1
         /\ t[cut[i]] = NewLine
         /\ \A j \in 1..Len(messages[i]) : t[cut[i - 1] + j] = messages[i][j]
<1>1. i \in 1..Len(messages) /\ i \in n..Len(messages) /\ i - 1 \in n..Len(messages)
  BY CutFacts
<1>2. QED
  BY <1>1, CutFacts

\* One more message.
LEMMA UnreadGrows ==
  ASSUME NEW t \in Seq(Byte), NEW messages \in Seq(Message), NEW n \in 0..Len(messages),
         NEW m \in Message, Unread(t, messages, n)
  PROVE  Unread(Joined(t, Append(m, NewLine)), Append(messages, m), n)
<1> DEFINE l == Len(messages)
           u == t \o Append(m, NewLine)
<1>1. PICK cut : Cuts(t, messages, n, cut)
  BY DEF Unread
<1>2. /\ Len(t) \in Nat /\ l \in Nat /\ Len(m) \in Nat
      /\ \A i \in 1..l : Len(messages[i]) \in Nat /\ messages[i] \in Message
  BY LenProperties, MessageType, ElementOfSeq
<1>3. /\ Append(m, NewLine) \in Seq(Byte)
      /\ Len(Append(m, NewLine)) = Len(m) + 1
      /\ \A i \in 1..Len(m) : Append(m, NewLine)[i] = m[i]
      /\ Append(m, NewLine)[Len(m) + 1] = NewLine
  BY MessageType, AppendProperties DEF Byte
<1>4. /\ Len(u) = Len(t) + Len(m) + 1
      /\ \A i \in 1..Len(t) : u[i] = t[i]
      /\ \A i \in 1..Len(m) : u[Len(t) + i] = m[i]
      /\ u[Len(t) + Len(m) + 1] = NewLine
  BY <1>2, <1>3, ConcatProperties
<1>5. /\ Len(Append(messages, m)) = l + 1
      /\ \A i \in 1..l : Append(messages, m)[i] = messages[i]
      /\ Append(messages, m)[l + 1] = m
  BY AppendProperties
<1> DEFINE more == [i \in n..(l + 1) |-> IF i = l + 1 THEN Len(u) ELSE cut[i]]
<1>6. more \in [n..(l + 1) -> 0..Len(u)]
  BY <1>1, <1>2, <1>4 DEF Cuts
<1>7. more[n] = 0 /\ more[l + 1] = Len(u)
  BY <1>1, <1>2, <1>4 DEF Cuts
<1>11. \A i, k \in n..(l + 1) : i <= k => more[i] <= more[k]
  <2>1. \A i \in n..l : cut[i] \in 0..Len(t)
    BY <1>1, CutFacts
  <2>2. \A i, k \in n..l : i <= k => cut[i] <= cut[k]
    BY <1>1, CutFacts
  <2>3. ASSUME NEW i \in n..(l + 1), NEW k \in n..(l + 1), i <= k
        PROVE  more[i] <= more[k]
    <3>1. CASE k = l + 1
      BY <1>2, <1>4, <2>1, <2>3, <3>1
    <3>2. CASE k # l + 1
      <4>1. i \in n..l /\ k \in n..l /\ more[i] = cut[i] /\ more[k] = cut[k]
        BY <1>2, <2>3, <3>2
      <4>2. QED
        BY <2>2, <2>3, <4>1
    <3>3. QED
      BY <3>1, <3>2
  <2>4. QED
    BY <2>3
<1>8. ASSUME NEW i \in (n + 1)..(l + 1)
      PROVE  /\ more[i] = more[i - 1] + Len(Append(messages, m)[i]) + 1
             /\ u[more[i]] = NewLine
             /\ \A j \in 1..Len(Append(messages, m)[i]) :
                  u[more[i - 1] + j] = Append(messages, m)[i][j]
  <2>1. CASE i = l + 1
    <3>1. more[i] = Len(u) /\ more[i - 1] = Len(t)
      BY <1>1, <1>2, <2>1 DEF Cuts
    <3>2. QED
      BY <1>2, <1>4, <1>5, <2>1, <3>1
  <2>2. CASE i # l + 1
    <3>1. i \in (n + 1)..l /\ i \in 1..l
      BY <1>2, <2>2
    <3>2. more[i] = cut[i] /\ more[i - 1] = cut[i - 1] 
      BY <1>2, <3>1
    <3>3. cut[i] \in 1..Len(t) /\ cut[i - 1] \in 0..Len(t) /\ Len(messages[i]) \in Nat
            /\ cut[i] = cut[i - 1] + Len(messages[i]) + 1
      <4>1. /\ cut[i] \in 0..Len(t) /\ cut[i - 1] \in 0..Len(t)
            /\ Len(messages[i]) \in Nat
            /\ cut[i] = cut[i - 1] + Len(messages[i]) + 1
        BY <1>1, <3>1, CutAt
      <4> DEFINE a == cut[i - 1]
                 b == cut[i]
                 k == Len(messages[i])
                 size == Len(t)
      <4>2. size \in Nat
        BY <1>2
      <4> HIDE DEF a, b, k, size
      <4>3. b \in 1..size
        BY <4>1, <4>2 DEF a, b, k, size
      <4>4. QED
        BY <4>1, <4>3 DEF b, size
    <3>4. \A j \in 1..Len(messages[i]) : cut[i - 1] + j \in 1..Len(t)
      <4> DEFINE a == cut[i - 1]
                 b == cut[i]
                 k == Len(messages[i])
                 size == Len(t)
      <4>1. b \in 1..size /\ a \in 0..size /\ k \in Nat /\ b = a + k + 1 /\ size \in Nat
        BY <1>2, <3>3
      <4> HIDE DEF a, b, k, size
      <4>2. \A j \in 1..k : a + j \in 1..size
        BY <4>1
      <4>3. QED
        BY <4>2 DEF a, k, size
    <3>5. t[cut[i]] = NewLine
            /\ \A j \in 1..Len(messages[i]) : t[cut[i - 1] + j] = messages[i][j]
      BY <1>1, <3>1 DEF Cuts
    <3>6. Append(messages, m)[i] = messages[i]
      BY <1>5, <3>1
    <3>7. more[i] = more[i - 1] + Len(Append(messages, m)[i]) + 1
      BY ONLY <3>2, <3>3, <3>6
    <3>8. u[more[i]] = NewLine
      <4>1. u[cut[i]] = t[cut[i]]
        BY ONLY <1>4, <3>3
      <4>2. QED
        BY ONLY <3>2, <3>5, <4>1
    <3>9. ASSUME NEW j \in 1..Len(messages[i])
          PROVE  u[more[i - 1] + j] = messages[i][j]
      <4>1. u[cut[i - 1] + j] = t[cut[i - 1] + j]
        BY <1>4, <3>4
      <4>2. QED
        BY <3>2, <3>5, <4>1
    <3>10. QED
      BY ONLY <3>6, <3>7, <3>8, <3>9
  <2>3. QED
    BY <2>1, <2>2
<1>9. Cuts(u, Append(messages, m), n, more)
  BY <1>5, <1>6, <1>7, <1>8, <1>11 DEF Cuts
<1>10. QED
  BY <1>9 DEF Unread, Joined

\* The first of the messages, m, ends at e.
LEMMA CutFirst ==
  ASSUME NEW t \in Seq(Byte), NEW messages \in Seq(Message), NEW n \in 0..Len(messages),
         NEW cut, Cuts(t, messages, n, cut), n < Len(messages),
         NEW m, m = messages[n + 1], NEW e, e = Len(m) + 1
  PROVE  e \in 2..Len(t) /\ cut[n + 1] = e /\ Taken(t, e) = Append(m, NewLine)
<1>1. n + 1 \in 1..Len(messages) /\ n + 1 \in (n + 1)..Len(messages) /\ n + 1 - 1 = n
  BY CutFacts
<1>2. /\ m \in Message /\ m \in Seq(Byte) /\ Len(m) \in Nat \ {0} /\ Len(t) \in Nat
  BY <1>1, CutFacts, MessageType, FramesAssumed DEF Frames!FrameCodecAssumption
<1>3. /\ cut[n] = 0 /\ cut[n + 1] = cut[n] + e /\ cut[n + 1] \in 0..Len(t)
      /\ t[cut[n + 1]] = NewLine
      /\ \A j \in 1..Len(m) : t[cut[n] + j] = m[j]
  <2>1. cut[n + 1] \in 0..Len(t)
    BY <1>1, CutFacts
  <2>2. /\ cut[n] = 0 /\ cut[n + 1] = cut[n] + Len(m) + 1
        /\ t[cut[n + 1]] = NewLine
        /\ \A j \in 1..Len(m) : t[cut[n] + j] = m[j]
    <3> DEFINE i == n + 1
    <3>1. i \in (n + 1)..Len(messages) /\ i - 1 = n /\ messages[i] = m
      BY <1>1
    <3>2. cut[n] = 0
      BY CutFacts
    <3> HIDE DEF i
    <3>3. /\ cut[i] = cut[i - 1] + Len(messages[i]) + 1
          /\ t[cut[i]] = NewLine
          /\ \A j \in 1..Len(messages[i]) : t[cut[i - 1] + j] = messages[i][j]
      BY <3>1, CutAt
    <3>4. /\ cut[n] = 0 /\ cut[i] = cut[n] + Len(m) + 1
          /\ t[cut[i]] = NewLine
          /\ \A j \in 1..Len(m) : t[cut[n] + j] = m[j]
      BY ONLY <3>1, <3>2, <3>3
    <3>5. QED
      BY <3>4 DEF i
  <2>3. cut[n + 1] = cut[n] + e
    BY <1>2, <2>2
  <2>4. QED
    BY <2>1, <2>2, <2>3
<1>4. e \in 2..Len(t) /\ cut[n + 1] = e
  BY <1>2, <1>3
<1>5. t[e] = NewLine /\ \A j \in 1..Len(m) : t[j] = m[j]
  BY <1>2, <1>3, <1>4
<1>6. /\ Append(m, NewLine) \in Seq(Byte) /\ Len(Append(m, NewLine)) = e
      /\ \A i \in 1..Len(m) : Append(m, NewLine)[i] = m[i]
      /\ Append(m, NewLine)[e] = NewLine
  BY <1>2, AppendProperties DEF Byte
<1>7. /\ Taken(t, e) \in Seq(Byte) /\ Len(Taken(t, e)) = e
      /\ \A i \in 1..e : Taken(t, e)[i] = t[i]
  BY <1>4, Divided
<1>8. \A i \in 1..e : Taken(t, e)[i] = Append(m, NewLine)[i]
  <2>1. \A i \in 1..e : i = e \/ i \in 1..Len(m)
    BY <1>2
  <2>2. QED
    BY <1>5, <1>6, <1>7, <2>1
<1>9. Taken(t, e) = Append(m, NewLine)
  BY <1>6, <1>7, <1>8, SeqEqual
<1>10. QED
  BY <1>4, <1>9

\* What comes after the first of the messages.
LEMMA CutRest ==
  ASSUME NEW t \in Seq(Byte), NEW messages \in Seq(Message), NEW n \in 0..Len(messages),
         NEW cut, Cuts(t, messages, n, cut), n < Len(messages),
         NEW e \in Nat, e = Len(messages[n + 1]) + 1,
         NEW u, Left(t, e, u)
  PROVE  Unread(u, messages, n + 1)
<1>1. /\ cut[n + 1] = e /\ Len(t) \in Nat /\ n \in Nat /\ Len(messages) \in Nat
      /\ e \in Nat /\ 2 <= e /\ e <= Len(t) /\ Len(u) = Len(t) - e
  <2>1. e \in 2..Len(t) /\ cut[n + 1] = e
    BY CutFirst
  <2>2. Len(t) \in Nat /\ n \in Nat /\ Len(messages) \in Nat
    BY CutFacts
  <2>3. QED
    BY <2>1, <2>2 DEF Left
<1>3. /\ cut[Len(messages)] = Len(t)
      /\ \A i \in (n + 1)..Len(messages) : cut[i] \in e..Len(t)
      /\ \A i, k \in (n + 1)..Len(messages) : i <= k => cut[i] <= cut[k]
  <2>1. \A i \in (n + 1)..Len(messages) : i \in n..Len(messages) /\ n + 1 <= i
    BY <1>1
  <2>2. n + 1 \in (n + 1)..Len(messages)
    BY <1>1
  <2>3. \A i \in (n + 1)..Len(messages) : cut[i] \in 0..Len(t) /\ cut[n + 1] <= cut[i]
    BY <2>1, <2>2, CutFacts
  <2>4. \A i \in (n + 1)..Len(messages) : cut[i] \in e..Len(t)
    BY <1>1, <2>3
  <2>5. QED
    BY <2>1, <2>4, CutFacts
<1> DEFINE rest == [i \in (n + 1)..Len(messages) |-> cut[i] - e]
<1>4. \A i \in (n + 1)..Len(messages) :
        /\ rest[i] = cut[i] - e /\ rest[i] \in 0..Len(u)
        /\ cut[i] \in e..Len(t) /\ cut[i] \in Nat /\ e \in Nat
  <2>1. ASSUME NEW i \in (n + 1)..Len(messages)
        PROVE  cut[i] - e \in 0..Len(u) /\ cut[i] \in Nat /\ e \in Nat
    <3>1. cut[i] \in Nat /\ e <= cut[i] /\ cut[i] <= Len(t)
      BY <1>1, <1>3
    <3>2. QED
      BY <1>1, <3>1
  <2>2. QED
    BY <1>3, <2>1
<1>5. rest \in [(n + 1)..Len(messages) -> 0..Len(u)]
  BY <1>4
<1> HIDE DEF rest
<1>6. rest[n + 1] = 0 /\ rest[Len(messages)] = Len(u)
  <2>1. n + 1 \in (n + 1)..Len(messages) /\ Len(messages) \in (n + 1)..Len(messages)
    BY <1>1
  <2>2. rest[n + 1] = e - e /\ rest[Len(messages)] = Len(t) - e
    BY <1>1, <1>3, <1>4, <2>1
  <2>3. QED
    BY <1>1, <2>2
<1>7. \A i, k \in (n + 1)..Len(messages) : i <= k => rest[i] <= rest[k]
  <2>1. ASSUME NEW i \in (n + 1)..Len(messages), NEW k \in (n + 1)..Len(messages),
               i <= k
        PROVE  rest[i] <= rest[k]
    <3>1. cut[i] <= cut[k] /\ cut[i] \in Nat /\ cut[k] \in Nat /\ e \in Nat
      BY <1>3, <1>4, <2>1
    <3>2. rest[i] = cut[i] - e /\ rest[k] = cut[k] - e
      BY <1>4
    <3>3. QED
      BY <3>1, <3>2
  <2>2. QED
    BY <2>1
<1>8. ASSUME NEW i \in Nat, n + 2 <= i, i <= Len(messages)
      PROVE  /\ rest[i] = rest[i - 1] + Len(messages[i]) + 1
             /\ u[rest[i]] = NewLine
             /\ \A j \in 1..Len(messages[i]) : u[rest[i - 1] + j] = messages[i][j]
  <2>1. i \in (n + 1)..Len(messages) /\ i - 1 \in (n + 1)..Len(messages)
          /\ i \in 1..Len(messages)
    BY <1>1, <1>8
  <2>2. /\ cut[i] = cut[i - 1] + Len(messages[i]) + 1 /\ t[cut[i]] = NewLine
        /\ \A j \in 1..Len(messages[i]) : t[cut[i - 1] + j] = messages[i][j]
    BY <2>1 DEF Cuts
  <2>3. Len(messages[i]) \in Nat
    BY <2>1, CutFacts
  <2>4. /\ rest[i] = cut[i] - e /\ cut[i] \in Nat
        /\ rest[i - 1] = cut[i - 1] - e /\ cut[i - 1] \in Nat
        /\ e <= cut[i - 1] /\ cut[i] <= Len(t)
    BY <1>1, <1>4, <2>1
  <2>5. cut[i] = cut[i - 1] + Len(messages[i]) + 1
    BY <2>2
  <2> DEFINE a == cut[i - 1]
             b == cut[i]
             k == Len(messages[i])
             size == Len(t)
  <2>11. /\ a \in Nat /\ b \in Nat /\ k \in Nat /\ size \in Nat /\ e \in Nat
         /\ e <= a /\ b <= size /\ b = a + k + 1
    BY <1>1, <2>3, <2>4, <2>5
  <2>12. rest[i] = b - e /\ rest[i - 1] = a - e
    BY <2>4
  <2> HIDE DEF a, b, k, size
  <2>6. rest[i] = rest[i - 1] + Len(messages[i]) + 1
    <3>1. b - e = (a - e) + k + 1
      BY ONLY <2>11
    <3>2. QED
      BY <2>12, <3>1, Zenon DEF k
  <2>7. rest[i] \in 1..(Len(t) - e) /\ e + rest[i] = cut[i]
    <3>1. b - e \in 1..(size - e) /\ e + (b - e) = b
      BY ONLY <2>11
    <3>2. QED
      BY <2>12, <3>1, Zenon DEF b, size
  <2>8. u[rest[i]] = NewLine
    BY <1>1, <2>2, <2>7 DEF Left
  <2>9. ASSUME NEW j \in 1..Len(messages[i])
        PROVE  u[rest[i - 1] + j] = messages[i][j]
    <3>1. rest[i - 1] + j \in 1..(Len(t) - e) /\ e + (rest[i - 1] + j) = cut[i - 1] + j
      <4>1. j \in 1..k
        BY DEF k
      <4>2. (a - e) + j \in 1..(size - e) /\ e + ((a - e) + j) = a + j
        BY ONLY <2>11, <4>1
      <4>3. QED
        BY <2>12, <4>2, Zenon DEF a, size
    <3>2. t[cut[i - 1] + j] = messages[i][j]
      BY <2>2
    <3>3. QED
      BY <3>1, <3>2 DEF Left
  <2>10. QED
    BY <2>6, <2>8, <2>9
<1>9. Cuts(u, messages, n + 1, rest)
  <2>1. \A i \in (n + 1 + 1)..Len(messages) :
          i \in Nat /\ n + 2 <= i /\ i <= Len(messages)
    BY <1>1
  <2>2. QED
    BY <1>5, <1>6, <1>7, <1>8, <2>1 DEF Cuts
<1>10. QED
  BY <1>9 DEF Unread

\* Nothing is unread, or the first message is, and then the rest.
LEMMA UnreadFirst ==
  ASSUME NEW t \in Seq(Byte), NEW messages \in Seq(Message), NEW n \in 0..Len(messages),
         Unread(t, messages, n), t # <<>>
  PROVE  /\ n < Len(messages)
         /\ \A m, e : m = messages[n + 1] /\ e = Len(m) + 1 =>
              /\ e \in 2..Len(t)
              /\ Taken(t, e) = Append(m, NewLine)
              /\ Unread(Dropped(t, e), messages, n + 1)
<1>1. PICK cut : Cuts(t, messages, n, cut)
  BY DEF Unread
<1>2. n < Len(messages)
  <2>1. Len(t) \in Nat \ {0}
    BY EmptySeq, LenProperties
  <2>2. QED
    BY <1>1, <2>1, CutFacts
<1>3. ASSUME NEW m, NEW e, m = messages[n + 1], e = Len(m) + 1
      PROVE  /\ e \in 2..Len(t)
             /\ Taken(t, e) = Append(m, NewLine)
             /\ Unread(Dropped(t, e), messages, n + 1)
  <2>1. e \in 2..Len(t) /\ Taken(t, e) = Append(m, NewLine)
    BY <1>1, <1>2, <1>3, CutFirst
  <2>2. e \in Nat /\ e \in 0..Len(t)
    BY <2>1, LenProperties
  <2>3. Left(t, e, Dropped(t, e))
    BY <2>2, Divided DEF Left
  <2>4. Unread(Dropped(t, e), messages, n + 1)
    BY <1>1, <1>2, <1>3, <2>2, <2>3, CutRest
  <2>5. QED
    BY <2>1, <2>4
<1>4. QED
  BY <1>2, <1>3

\* Only what was sent and not received is unread.
LEMMA UnreadNothing ==
  ASSUME NEW t \in Seq(Byte), Len(t) = 0,
         NEW messages \in Seq(Message), NEW n \in 0..Len(messages)
  PROVE  Unread(t, messages, n) <=> n = Len(messages)
<1>1. Len(messages) \in Nat /\ n \in Nat
  BY LenProperties
<1>2. ASSUME n = Len(messages)
      PROVE  Cuts(t, messages, n, [i \in n..n |-> 0])
  BY <1>1, <1>2, SMTT(30) DEF Cuts
<1>3. ASSUME NEW cut, Cuts(t, messages, n, cut), n < Len(messages)
      PROVE  FALSE
  <2>1. ASSUME NEW m, NEW e, m = messages[n + 1], e = Len(m) + 1
        PROVE  FALSE
    <3>1. e \in 2..Len(t)
      BY <1>3, <2>1, CutFirst
    <3>2. QED
      BY <3>1
  <2>2. QED
    BY <2>1
<1>4. n = Len(messages) \/ n < Len(messages)
  BY <1>1
<1>5. QED
  BY <1>2, <1>3, <1>4 DEF Unread

\* No message ends in what holds no newline.
LEMMA UnreadUnbroken ==
  ASSUME NEW t \in Seq(Byte), NEW messages \in Seq(Message), NEW n \in 0..Len(messages),
         Unread(t, messages, n), NEW k \in 1..Len(t), Unbroken(t, k)
  PROVE  n < Len(messages) /\ k <= Len(messages[n + 1])
<1>1. Len(t) \in Nat /\ t # <<>>
  BY LenProperties, EmptySeq
<1>2. n < Len(messages)
  BY <1>1, UnreadFirst
<1> DEFINE m == messages[n + 1]
           e == Len(m) + 1
<1>3. e \in 2..Len(t) /\ Taken(t, e) = Append(m, NewLine)
  BY <1>1, UnreadFirst
<1>4. Len(m) \in Nat /\ m \in Seq(Byte)
  <2>1. n + 1 \in 1..Len(messages)
    BY <1>2, LenProperties
  <2>2. m \in Message
    BY <2>1, ElementOfSeq
  <2>3. QED
    BY <2>2, MessageType
<1> HIDE DEF m
<1>5. t[e] = NewLine
  <2>1. Taken(t, e)[e] = t[e]
    BY <1>1, <1>3, <1>4, Divided
  <2>2. Append(m, NewLine)[e] = NewLine
    BY <1>4, AppendProperties DEF Byte
  <2>3. QED
    BY <1>3, <2>1, <2>2
<1>6. k < e
  BY <1>1, <1>3, <1>5 DEF Unbroken
<1>7. k <= Len(m)
  BY <1>4, <1>6
<1>8. QED
  BY <1>2, <1>7 DEF m

\* The first newline ends the first message.
LEMMA UnreadLine ==
  ASSUME NEW t \in Seq(Byte), NEW messages \in Seq(Message), NEW n \in 0..Len(messages),
         Unread(t, messages, n), NEW k \in 1..Len(t), t[k] = NewLine, Unbroken(t, k - 1)
  PROVE  n < Len(messages) /\ k = Len(messages[n + 1]) + 1
<1>1. Len(t) \in Nat /\ t # <<>>
  BY LenProperties, EmptySeq
<1>2. n < Len(messages)
  BY <1>1, UnreadFirst
<1> DEFINE m == messages[n + 1]
           e == Len(m) + 1
<1>3. e \in 2..Len(t) /\ Taken(t, e) = Append(m, NewLine)
  BY <1>1, UnreadFirst
<1>4. m \in Message
  <2>1. n + 1 \in 1..Len(messages)
    BY <1>2, LenProperties
  <2>2. QED
    BY <2>1, ElementOfSeq
<1>5. Len(m) \in Nat /\ m \in Seq(Byte) /\ \A i \in 1..Len(m) : m[i] # NewLine
  BY <1>4, MessageType
<1> HIDE DEF m
<1>6. \A i \in 1..Len(m) : t[i] = m[i]
  <2>1. \A i \in 1..e : Taken(t, e)[i] = t[i]
    <3>1. e \in 0..Len(t)
      BY <1>1, <1>3
    <3>2. QED
      BY <3>1, Divided
  <2>2. \A i \in 1..Len(m) : Append(m, NewLine)[i] = m[i]
    BY <1>5, AppendProperties DEF Byte
  <2>3. QED
    BY <1>3, <1>5, <2>1, <2>2
<1>7. t[e] = NewLine
  <2>1. Taken(t, e)[e] = t[e]
    BY <1>1, <1>3, <1>5, Divided
  <2>2. Append(m, NewLine)[e] = NewLine
    BY <1>5, AppendProperties DEF Byte
  <2>3. QED
    BY <1>3, <2>1, <2>2
<1>8. ~(k < e)
  BY <1>5, <1>6
<1>9. ~(e < k)
  BY <1>3, <1>5, <1>7 DEF Unbroken
<1>10. k = e
  BY <1>5, <1>8, <1>9
<1>11. QED
  BY <1>2, <1>10 DEF m

\* The last message alone.
LEMMA UnreadOne ==
  ASSUME NEW t \in Seq(Byte), NEW messages \in Seq(Message), NEW n \in 0..Len(messages),
         Unread(t, messages, n), n + 1 = Len(messages)
  PROVE  /\ Len(t) = Len(messages[n + 1]) + 1
         /\ t = Append(messages[n + 1], NewLine)
<1>1. PICK cut : Cuts(t, messages, n, cut)
  BY DEF Unread
<1>2. n \in Nat /\ n < Len(messages)
  BY LenProperties
<1>3. cut[n + 1] = Len(t) /\ cut[n + 1] = Len(messages[n + 1]) + 1
  BY <1>1, <1>2, CutFacts, CutFirst
<1>4. Taken(t, Len(t)) = Append(messages[n + 1], NewLine)
  BY <1>1, <1>2, <1>3, CutFirst
<1>5. QED
  BY <1>3, <1>4, TakenAll

\* When no more than the last message follows what holds no newline, it is the
\* only one.
LEMMA UnreadLast ==
  ASSUME NEW t \in Seq(Byte), NEW messages \in Seq(Message), NEW n \in 0..Len(messages),
         Unread(t, messages, n), t # <<>>, NEW k \in 0..Len(t), Unbroken(t, k),
         Len(t) <= k + Len(messages[Len(messages)]) + 1
  PROVE  /\ n + 1 = Len(messages)
         /\ Len(t) = Len(messages[Len(messages)]) + 1
         /\ t = Append(messages[Len(messages)], NewLine)
<1> DEFINE l == Len(messages)
<1>1. PICK cut : Cuts(t, messages, n, cut)
  BY DEF Unread
<1>2. n < l /\ n \in Nat /\ l \in Nat /\ Len(t) \in Nat
  BY UnreadFirst, LenProperties
<1>3. Len(messages[l]) \in Nat
  BY <1>1, <1>2, CutFacts
<1>4. ~(n + 1 < l)
  <2> SUFFICES ASSUME n + 1 < l
               PROVE  FALSE
    OBVIOUS
  <2>1. /\ l \in (n + 1)..l /\ l - 1 \in (n + 1)..l /\ n + 1 \in (n + 1)..l
        /\ l - 1 \in n..l /\ n + 1 \in n..l /\ n + 1 <= l - 1
    BY <1>2
  <2>2. cut[l] = Len(t) /\ cut[l] = cut[l - 1] + Len(messages[l]) + 1
    BY <1>1, <2>1, CutFacts
  <2>3. cut[l - 1] \in 0..Len(t) /\ cut[n + 1] <= cut[l - 1] /\ t[cut[l - 1]] = NewLine
    BY <1>1, <2>1, CutFacts
  <2>4. cut[n + 1] = Len(messages[n + 1]) + 1 /\ cut[n + 1] \in 2..Len(t)
    BY <1>1, <1>2, CutFirst
  <2>5. cut[l - 1] \in 1..k
    <3> DEFINE a == cut[l - 1]
               b == cut[n + 1]
               size == Len(t)
               last == Len(messages[l])
    <3>1. /\ a \in 0..size /\ b \in 2..size /\ b <= a /\ size = a + last + 1
          /\ size \in Nat /\ last \in Nat /\ size <= k + last + 1 /\ k \in 0..size
      BY <1>2, <1>3, <2>2, <2>3, <2>4
    <3> HIDE DEF a, b, size, last
    <3>2. a \in 1..k
      BY <3>1
    <3>3. QED
      BY <3>2 DEF a
  <2>6. QED
    BY <2>3, <2>5 DEF Unbroken
<1>5. n + 1 = l
  BY <1>2, <1>4
<1>6. QED
  BY <1>5, UnreadOne, SMTT(30)

LEMMA Least ==
  ASSUME NEW S \in SUBSET Nat, S # {}
  PROVE  \E m \in S : \A k \in S : m <= k
<1> DEFINE R == OpToRel(<, Nat)
<1>1. IsWellFoundedOn(R, Nat)
  BY NatLessThanWellFounded
<1>2. \A x, y \in Nat : x < y => <<x, y>> \in R
  BY DEF OpToRel
<1> HIDE DEF R
<1>3. PICK m \in S : \A k \in S : ~ (<<k, m>> \in R)
  BY <1>1, WFMin
<1>4. ASSUME NEW k \in S
      PROVE  m <= k
  <2>1. k \in Nat /\ m \in Nat
    OBVIOUS
  <2>2. ~(k < m)
    BY <1>2, <1>3, <2>1
  <2>3. QED
    BY <2>1, <2>2
<1>5. QED
  BY <1>4

\* What LineEnd finds.
LEMMA LineEndKnown ==
  ASSUME buffer \in Seq(Byte)
  PROVE  /\ Frames!HasLine => /\ Frames!LineEnd \in 1..Len(buffer)
                              /\ buffer[Frames!LineEnd] = NewLine
                              /\ Unbroken(buffer, Frames!LineEnd - 1)
         /\ ~Frames!HasLine => Unbroken(buffer, Len(buffer))
<1>1. DOMAIN buffer = 1..Len(buffer) /\ Len(buffer) \in Nat
  BY LenProperties
<1>2. CASE Frames!HasLine
  <2> DEFINE Places == {i \in 1..Len(buffer) : buffer[i] = NewLine}
  <2>1. Places \in SUBSET Nat /\ Places # {}
    BY <1>1, <1>2 DEF Frames!HasLine, Frames!Range
  <2> HIDE DEF Places
  <2>2. PICK m \in Places : \A k \in Places : m <= k
    BY <2>1, Least
  <2>3. m \in 1..Len(buffer) /\ buffer[m] = NewLine
    BY <2>2 DEF Places
  <2>4. ASSUME NEW j \in 1..(m - 1)
        PROVE  buffer[j] # NewLine
    <3>1. j \in 1..Len(buffer) /\ ~(m <= j)
      BY <1>1, <2>3
    <3>2. QED
      BY <2>2, <3>1 DEF Places
  <2>5. \E i \in DOMAIN buffer :
          buffer[i] = NewLine /\ \A j \in 1..(i - 1) : buffer[j] # NewLine
    BY <1>1, <2>3, <2>4
  <2>6. /\ Frames!LineEnd \in DOMAIN buffer
        /\ buffer[Frames!LineEnd] = NewLine
        /\ \A j \in 1..(Frames!LineEnd - 1) : buffer[j] # NewLine
    BY <2>5, Zenon DEF Frames!LineEnd
  <2>7. QED
    BY <1>1, <1>2, <2>6 DEF Unbroken
<1>3. CASE ~Frames!HasLine
  BY <1>1, <1>3 DEF Frames!HasLine, Frames!Range, Unbroken
<1>4. QED
  BY <1>2, <1>3

LEMMA FrontAndLast ==
  ASSUME NEW S, NEW s \in Seq(S), s # <<>>
  PROVE  /\ Frames!Last(s) = s[Len(s)] /\ Frames!Last(s) \in S
         /\ Frames!Front(s) \in Seq(S) /\ Len(Frames!Front(s)) = Len(s) - 1
         /\ \A i \in 1..(Len(s) - 1) : Frames!Front(s)[i] = s[i]
         /\ s = Append(Frames!Front(s), Frames!Last(s))
<1>1. Len(s) \in Nat \ {0} /\ Len(s) - 1 \in 0..Len(s) /\ Len(s) \in 1..Len(s)
  BY EmptySeq
<1>2. Frames!Last(s) = s[Len(s)] /\ Frames!Last(s) \in S
  BY <1>1, ElementOfSeq DEF Frames!Last
<1>3. /\ Frames!Front(s) \in Seq(S) /\ Len(Frames!Front(s)) = Len(s) - 1
      /\ \A i \in 1..(Len(s) - 1) : Frames!Front(s)[i] = s[i]
  BY <1>1, Divided, ZenonT(60) DEF Frames!Front, Taken
<1>4. s = Append(Frames!Front(s), Frames!Last(s))
  <2> DEFINE u == Append(Frames!Front(s), Frames!Last(s))
  <2>1. /\ u \in Seq(S) /\ Len(u) = Len(s) - 1 + 1
        /\ \A i \in 1..(Len(s) - 1) : u[i] = Frames!Front(s)[i]
        /\ u[Len(s) - 1 + 1] = Frames!Last(s)
    BY <1>2, <1>3, AppendProperties
  <2> HIDE DEF u
  <2>2. Len(u) = Len(s) /\ \A i \in 1..Len(s) : u[i] = s[i]
    <3>1. Len(u) = Len(s)
      BY <1>1, <2>1
    <3>2. \A i \in 1..Len(s) : i = Len(s) \/ i \in 1..(Len(s) - 1)
      BY <1>1
    <3>3. u[Len(s)] = s[Len(s)]
      BY <1>1, <1>2, <2>1
    <3>4. QED
      BY <1>3, <2>1, <3>1, <3>2, <3>3
  <2>3. u = s
    BY <2>1, <2>2, SeqEqual
  <2>4. QED
    BY <2>3 DEF u
<1>5. QED
  BY <1>2, <1>3, <1>4

LEMMA FrontAndLastOfAppend ==
  ASSUME NEW S, NEW s \in Seq(S), NEW e \in S
  PROVE  /\ Append(s, e) # <<>>
         /\ Frames!Front(Append(s, e)) = s /\ Frames!Last(Append(s, e)) = e
<1>1. Append(s, e) \in Seq(S) /\ Append(s, e) # <<>>
  BY AppendProperties
<1>2. /\ Frames!Front(Append(s, e)) \in Seq(S) /\ Frames!Last(Append(s, e)) \in S
      /\ Append(s, e) = Append(Frames!Front(Append(s, e)), Frames!Last(Append(s, e)))
  BY <1>1, FrontAndLast
<1>3. QED
  BY <1>1, <1>2, AppendInjective

-----------------------------------------------------------------------------
(* What is in transit between the writer and the reader.                    *)

Seen == Joined(frame, buffer)

\* What the writer has begun and the reader has not returned.
ToCome == Joined(Seen, Joined(stream, writing))

\* The messages of which some has been written.
Begun ==
  IF writing # <<>> /\ writing = Append(Frames!Last(sent), NewLine)
    THEN Frames!Front(sent) ELSE sent

Got == IF writer = "peer" THEN received ELSE <<>>

Ended ==
  IF writer = "stray" \/ outcome = "none" THEN "no"
  ELSE IF outcome = "eof" THEN "clean" ELSE "broken"

BytesTyped ==
  /\ sent \in Seq(Message)
  /\ writing \in Seq(Byte) /\ stream \in Seq(Byte) /\ buffer \in Seq(Byte)
  /\ frame \in Seq(Byte) /\ Unbroken(frame, Len(frame))
  /\ reader = "python" => frame = <<>>
  /\ open \in BOOLEAN
  /\ writer \in {"none", "peer", "stray"} /\ (writer = "none" => reader = "none")

\* Nobody but the peer sends messages.
OnlyPeerSends == writer # "peer" => sent = <<>> /\ writing = <<>>

\* No more than the last message is still to be written.
WritesLast ==
  writing # <<>> => sent # <<>> /\ Len(writing) <= Len(sent[Len(sent)]) + 1

\* While it reads the peer's bytes, a reader has returned the first messages and
\* the others are to come; it stops only after the peer.
ReadsMessages ==
  writer = "peer" =>
    /\ received \in Seq(Message) /\ Len(received) <= Len(sent)
    /\ \A i \in 1..Len(received) : received[i] = sent[i]
    /\ outcome = "none" => Unread(ToCome, sent, Len(received))
    /\ outcome # "none" => ~open

FramesInv == BytesTyped /\ OnlyPeerSends /\ WritesLast /\ ReadsMessages

\* The same bytes, put together in another order.
LEMMA ToComeParts ==
  ASSUME FramesInv
  PROVE  /\ Seen \in Seq(Byte) /\ Len(Seen) = Len(frame) + Len(buffer)
         /\ Len(frame) \in Nat /\ Len(buffer) \in Nat /\ Len(stream) \in Nat
         /\ Len(writing) \in Nat
         /\ ToCome \in Seq(Byte)
         /\ Len(ToCome) = Len(Seen) + (Len(stream) + Len(writing))
         /\ \A i \in 1..Len(Seen) : ToCome[i] = Seen[i]
         /\ \A i \in 1..Len(frame) : Seen[i] = frame[i]
         /\ \A i \in 1..Len(buffer) : Seen[Len(frame) + i] = buffer[i]
<1>1. /\ writing \in Seq(Byte) /\ stream \in Seq(Byte) /\ buffer \in Seq(Byte)
      /\ frame \in Seq(Byte)
  BY DEF FramesInv, BytesTyped
<1>2. /\ Seen \in Seq(Byte) /\ Len(Seen) = Len(frame) + Len(buffer)
      /\ Len(frame) \in Nat /\ Len(buffer) \in Nat
      /\ \A i \in 1..Len(frame) : Seen[i] = frame[i]
      /\ \A i \in 1..Len(buffer) : Seen[Len(frame) + i] = buffer[i]
  <2>1. /\ Seen \in Seq(Byte) /\ Len(Seen) = Len(frame) + Len(buffer)
        /\ Len(frame) \in Nat /\ Len(buffer) \in Nat
    BY <1>1, JoinedParts DEF Seen
  <2>2. \A i \in 1..Len(frame) : Seen[i] = frame[i]
    BY <1>1, JoinedParts DEF Seen
  <2>3. ASSUME NEW i \in 1..Len(buffer)
        PROVE  Seen[Len(frame) + i] = buffer[i]
    BY <1>1, JoinedParts DEF Seen
  <2>4. QED
    BY <2>1, <2>2, <2>3
<1>3. /\ Joined(stream, writing) \in Seq(Byte)
      /\ Len(Joined(stream, writing)) = Len(stream) + Len(writing)
      /\ Len(stream) \in Nat /\ Len(writing) \in Nat
  BY <1>1, JoinedParts
<1>4. /\ ToCome \in Seq(Byte)
      /\ Len(ToCome) = Len(Seen) + Len(Joined(stream, writing))
      /\ \A i \in 1..Len(Seen) : ToCome[i] = Seen[i]
  <2>1. Seen \in Seq(Byte) /\ Joined(stream, writing) \in Seq(Byte)
    BY <1>2, <1>3
  <2>2. QED
    BY <2>1, JoinedParts DEF ToCome
<1>5. QED
  BY <1>2, <1>3, <1>4

\* What the reader has seen before the first newline.
LEMMA SeenUnbroken ==
  ASSUME FramesInv
  PROVE  /\ ~Frames!HasLine => Unbroken(Seen, Len(Seen))
         /\ Frames!HasLine =>
              /\ Frames!LineEnd \in 1..Len(buffer)
              /\ Len(frame) + Frames!LineEnd \in 1..Len(Seen)
              /\ Seen[Len(frame) + Frames!LineEnd] = NewLine
              /\ Unbroken(Seen, Len(frame) + Frames!LineEnd - 1)
<1>1. /\ Len(Seen) = Len(frame) + Len(buffer)
      /\ Len(frame) \in Nat /\ Len(buffer) \in Nat
      /\ \A i \in 1..Len(frame) : Seen[i] = frame[i]
      /\ \A i \in 1..Len(buffer) : Seen[Len(frame) + i] = buffer[i]
  BY ToComeParts
<1>2. \A i \in 1..Len(frame) : Seen[i] # NewLine
  BY <1>1 DEF FramesInv, BytesTyped, Unbroken
<1>3. ASSUME NEW k \in 0..Len(buffer), Unbroken(buffer, k)
      PROVE  Unbroken(Seen, Len(frame) + k)
  <2>1. ASSUME NEW i \in 1..(Len(frame) + k)
        PROVE  Seen[i] # NewLine
    <3>1. CASE i <= Len(frame)
      BY <1>1, <1>2, <3>1
    <3>2. CASE Len(frame) < i
      <4>1. i - Len(frame) \in 1..k /\ i - Len(frame) \in 1..Len(buffer)
              /\ Len(frame) + (i - Len(frame)) = i
        BY <1>1, <3>2
      <4>2. Seen[i] = buffer[i - Len(frame)]
        BY <1>1, <4>1
      <4>3. QED
        BY <1>3, <4>1, <4>2 DEF Unbroken
    <3>3. QED
      BY <1>1, <3>1, <3>2
  <2>2. QED
    BY <2>1 DEF Unbroken
<1>4. buffer \in Seq(Byte)
  BY DEF FramesInv, BytesTyped
<1>5. ASSUME ~Frames!HasLine
      PROVE  Unbroken(Seen, Len(Seen))
  <2>1. Unbroken(buffer, Len(buffer)) /\ Len(buffer) \in 0..Len(buffer)
    BY <1>1, <1>4, <1>5, LineEndKnown
  <2>2. QED
    BY <1>1, <1>3, <2>1
<1>6. ASSUME Frames!HasLine, NEW k, k = Frames!LineEnd
      PROVE  /\ k \in 1..Len(buffer) /\ Len(frame) + k \in 1..Len(Seen)
             /\ Seen[Len(frame) + k] = NewLine
             /\ Unbroken(Seen, Len(frame) + k - 1)
  <2>1. k \in 1..Len(buffer) /\ buffer[k] = NewLine /\ Unbroken(buffer, k - 1)
    BY <1>4, <1>6, LineEndKnown
  <2>2. k - 1 \in 0..Len(buffer) /\ Len(frame) + k \in 1..Len(Seen)
          /\ Len(frame) + (k - 1) = Len(frame) + k - 1
    BY <1>1, <2>1
  <2>3. Seen[Len(frame) + k] = NewLine
    BY <1>1, <2>1
  <2>4. QED
    BY <1>3, <2>1, <2>2, <2>3
<1>7. QED
  BY <1>5, <1>6

PeerRead == writer = "peer" /\ outcome = "none"

\* The peer's message that the reader is at.
LEMMA PeerKnown ==
  ASSUME FramesInv, PeerRead
  PROVE  /\ sent \in Seq(Message) /\ Len(received) \in 0..Len(sent)
         /\ Len(sent) \in Nat /\ Len(received) \in Nat
         /\ Unread(ToCome, sent, Len(received))
         /\ Len(received) < Len(sent) =>
              /\ sent[Len(received) + 1] \in Message
              /\ Len(sent[Len(received) + 1]) \in 1..MaxFrameSize
<1>1. /\ sent \in Seq(Message) /\ received \in Seq(Message)
      /\ Len(received) <= Len(sent) /\ Unread(ToCome, sent, Len(received))
  BY DEF FramesInv, BytesTyped, ReadsMessages, PeerRead
<1>2. Len(sent) \in Nat /\ Len(received) \in Nat
  BY <1>1, LenProperties
<1>3. ASSUME Len(received) < Len(sent)
      PROVE  /\ sent[Len(received) + 1] \in Message
             /\ Len(sent[Len(received) + 1]) \in 1..MaxFrameSize
  <2>1. Len(received) + 1 \in 1..Len(sent)
    BY <1>2, <1>3
  <2>2. sent[Len(received) + 1] \in Message
    BY <1>1, <2>1, ElementOfSeq
  <2>3. QED
    BY <2>2, MessageType
<1>4. QED
  BY <1>1, <1>2, <1>3

\* Without a newline among what is seen of the peer's bytes it is not too large.
LEMMA NotTooLarge ==
  ASSUME FramesInv, PeerRead, ~Frames!HasLine
  PROVE  Len(Seen) <= MaxFrameSize
<1>1. Unbroken(Seen, Len(Seen)) /\ Len(Seen) \in Nat
  BY SeenUnbroken, ToComeParts
<1>2. CASE Len(Seen) = 0
  BY <1>2, FramesAssumed DEF Frames!FrameCodecAssumption
<1>3. CASE Len(Seen) # 0
  <2>1. Unbroken(ToCome, Len(Seen)) /\ Len(Seen) \in 1..Len(ToCome)
    <3>1. Unbroken(ToCome, Len(Seen))
      BY <1>1, ToComeParts DEF Unbroken
    <3>2. Len(Seen) \in 1..Len(ToCome)
      BY <1>1, <1>3, ToComeParts
    <3>3. QED
      BY <3>1, <3>2
  <2>2. /\ Len(received) < Len(sent)
        /\ Len(Seen) <= Len(sent[Len(received) + 1])
    BY <2>1, PeerKnown, UnreadUnbroken, ToComeParts
  <2>3. Len(sent[Len(received) + 1]) \in 1..MaxFrameSize
    BY <2>2, PeerKnown
  <2>4. QED
    BY <1>1, <2>2, <2>3, FramesAssumed DEF Frames!FrameCodecAssumption
<1>4. QED
  BY <1>2, <1>3

\* Of f and b, read in this order, b holds the first newline at k: f and b up to
\* there are the first message, and what follows is still to come.
LEMMA NextLine ==
  ASSUME NEW f \in Seq(Byte), NEW b \in Seq(Byte), NEW r \in Seq(Byte),
         NEW messages \in Seq(Message), NEW n \in 0..Len(messages),
         Unread(Joined(Joined(f, b), r), messages, n),
         NEW k \in 1..Len(b), Joined(f, b)[Len(f) + k] = NewLine,
         Unbroken(Joined(f, b), Len(f) + k - 1),
         NEW m, m = messages[n + 1]
  PROVE  /\ n < Len(messages) /\ Len(f) + k = Len(m) + 1
         /\ Joined(f, Taken(b, k)) = Append(m, NewLine)
         /\ Dropped(b, k) \in Seq(Byte)
         /\ Unread(Joined(Dropped(b, k), r), messages, n + 1)
<1> DEFINE s == Joined(f, b)
           t == Joined(s, r)
           p == Len(f) + k
<1>1. s \in Seq(Byte) /\ Len(s) = Len(f) + Len(b) /\ Len(f) \in Nat /\ Len(b) \in Nat
  BY JoinedParts
<1> HIDE DEF s
<1>2. t \in Seq(Byte) /\ Len(t) = Len(s) + Len(r) /\ Len(r) \in Nat
  BY <1>1, JoinedParts
<1>3. \A i \in 1..Len(s) : t[i] = s[i]
  <2>1. s \in Seq(Byte)
    BY <1>1
  <2>2. QED
    BY <2>1, JoinedParts
<1> HIDE DEF t
<1>4. p \in Nat /\ p \in 1..Len(s) /\ p \in 1..Len(t)
  BY <1>1, <1>2
<1> HIDE DEF p
<1>5. s[p] = NewLine /\ Unbroken(s, p - 1)
  <2>1. p - 1 = Len(f) + k - 1
    BY <1>1 DEF p
  <2>2. QED
    BY <2>1 DEF s, p
<1>6. t[p] = NewLine /\ Unbroken(t, p - 1)
  <2>1. ASSUME NEW i \in 1..(p - 1)
        PROVE  t[i] # NewLine
    <3>1. i \in 1..Len(s)
      BY <1>1, <1>4
    <3>2. QED
      BY <1>3, <1>5, <3>1 DEF Unbroken
  <2>2. QED
    BY <1>3, <1>4, <1>5, <2>1 DEF Unbroken
<1>7. Unread(t, messages, n)
  BY DEF s, t
<1>8. n < Len(messages) /\ p = Len(m) + 1
  BY <1>2, <1>4, <1>6, <1>7, UnreadLine
<1>9. t # <<>>
  BY <1>2, <1>4, EmptySeq
<1>10. Taken(t, p) = Append(m, NewLine) /\ Unread(Dropped(t, p), messages, n + 1)
  <2>1. n \in Nat /\ Len(messages) \in Nat
    BY LenProperties
  <2>2. QED
    BY <1>2, <1>7, <1>8, <1>9, <2>1, UnreadFirst, SMTT(30)
<1> DEFINE c == Taken(b, k)
           d == Dropped(b, k)
<1>11. /\ c \in Seq(Byte) /\ d \in Seq(Byte) /\ Len(c) = k /\ Joined(c, d) = b
  <2>1. k \in 0..Len(b)
    BY <1>1
  <2>2. QED
    BY <2>1, Divided, DividedIsJoined
<1> HIDE DEF c, d
<1> DEFINE x == Joined(f, c)
           y == Joined(d, r)
<1>12. x \in Seq(Byte) /\ y \in Seq(Byte) /\ Len(x) = p
  BY <1>11, JoinedParts DEF p
<1>13. t = Joined(x, y)
  <2>1. s = Joined(x, d)
    BY <1>11, JoinedGroups DEF s
  <2>2. Joined(Joined(x, d), r) = Joined(x, Joined(d, r))
    BY <1>11, <1>12, JoinedGroups
  <2>3. QED
    BY <2>1, <2>2 DEF t
<1> HIDE DEF x, y
<1>14. Taken(t, p) = x /\ Dropped(t, p) = y
  BY <1>12, <1>13, JoinedTaken
<1>15. QED
  BY <1>8, <1>10, <1>11, <1>14 DEF p, c, d, x, y

\* The peer's line is the next message, and the rest is still to come.
LEMMA LineIsMessage ==
  ASSUME FramesInv, PeerRead, Frames!HasLine,
         NEW k, k = Frames!LineEnd,
         NEW m, m = sent[Len(received) + 1]
  PROVE  /\ Len(received) < Len(sent) /\ m \in Message
         /\ Len(frame) + k = Len(m) + 1 /\ k \in 1..Len(buffer)
         /\ Joined(frame, Taken(buffer, k)) = Append(m, NewLine)
         /\ Dropped(buffer, k) \in Seq(Byte)
         /\ Unread(Joined(Dropped(buffer, k), Joined(stream, writing)), sent,
                   Len(received) + 1)
         /\ Len(received) < Len(Begun) /\ Begun[Len(received) + 1] = m
<1>1. /\ k \in 1..Len(buffer)
      /\ Seen[Len(frame) + k] = NewLine /\ Unbroken(Seen, Len(frame) + k - 1)
  BY SeenUnbroken
<1>2. /\ Unread(ToCome, sent, Len(received)) /\ sent \in Seq(Message)
      /\ Len(received) \in 0..Len(sent) /\ Len(sent) \in Nat /\ Len(received) \in Nat
  BY PeerKnown
<1>3. /\ frame \in Seq(Byte) /\ buffer \in Seq(Byte)
      /\ stream \in Seq(Byte) /\ writing \in Seq(Byte)
  BY DEF FramesInv, BytesTyped
<1> DEFINE r == Joined(stream, writing)
           n == Len(received)
<1>4. r \in Seq(Byte)
  BY <1>3, JoinedParts
<1>5. Unread(Joined(Joined(frame, buffer), r), sent, n)
  BY <1>2 DEF ToCome, Seen
<1>6. /\ Joined(frame, buffer)[Len(frame) + k] = NewLine
      /\ Unbroken(Joined(frame, buffer), Len(frame) + k - 1)
  BY <1>1 DEF Seen
<1>7. n \in 0..Len(sent) /\ m = sent[n + 1]
  BY <1>2
<1> HIDE DEF r, n
<1>8. /\ n < Len(sent) /\ Len(frame) + k = Len(m) + 1
      /\ Joined(frame, Taken(buffer, k)) = Append(m, NewLine)
      /\ Dropped(buffer, k) \in Seq(Byte)
      /\ Unread(Joined(Dropped(buffer, k), r), sent, n + 1)
  <2>1. /\ frame \in Seq(Byte) /\ buffer \in Seq(Byte) /\ r \in Seq(Byte)
        /\ sent \in Seq(Message) /\ n \in 0..Len(sent)
        /\ Unread(Joined(Joined(frame, buffer), r), sent, n)
        /\ k \in 1..Len(buffer) /\ Joined(frame, buffer)[Len(frame) + k] = NewLine
        /\ Unbroken(Joined(frame, buffer), Len(frame) + k - 1)
        /\ m = sent[n + 1]
    BY <1>1, <1>2, <1>3, <1>4, <1>5, <1>6, <1>7
  <2>2. QED
    BY <2>1, NextLine
<1>9. m \in Message
  BY <1>7, <1>8, PeerKnown DEF n
<1>10. n < Len(Begun) /\ Begun[n + 1] = m
  <2>1. CASE Begun = sent
    BY <1>7, <1>8, <2>1
  <2>2. CASE Begun # sent
    <3>1. sent # <<>>
      BY <1>2, <1>7, <1>8, EmptySeq
    <3>2. /\ writing # <<>> /\ writing = Append(Frames!Last(sent), NewLine)
          /\ Begun = Frames!Front(sent)
      BY <2>2 DEF Begun
    <3>3. /\ Frames!Last(sent) = sent[Len(sent)] /\ Frames!Last(sent) \in Message
          /\ Len(Begun) = Len(sent) - 1
          /\ \A i \in 1..(Len(sent) - 1) : Begun[i] = sent[i]
      BY <1>2, <3>1, <3>2, FrontAndLast
    <3>4. Len(writing) = Len(sent[Len(sent)]) + 1
      BY <3>2, <3>3, MessageType, AppendProperties DEF Byte
    <3>5. n + 1 # Len(sent)
      <4>1. ASSUME n + 1 = Len(sent)
            PROVE  FALSE
        <5>1. Len(ToCome) = Len(m) + 1
          <6>1. ToCome \in Seq(Byte)
            BY ToComeParts
          <6>2. QED
            BY <1>2, <1>7, <4>1, <6>1, UnreadOne DEF n
        <5>2. Len(m) + 1 = Len(writing)
          BY <1>7, <3>4, <4>1
        <5>3. /\ Len(ToCome) = Len(Seen) + (Len(stream) + Len(writing))
              /\ Len(Seen) = Len(frame) + Len(buffer)
              /\ Len(frame) \in Nat /\ Len(buffer) \in Nat /\ Len(stream) \in Nat
              /\ Len(writing) \in Nat
          BY ToComeParts
        <5>4. QED
          BY <1>1, <5>1, <5>2, <5>3
      <4>2. QED
        BY <4>1
    <3>6. n + 1 \in 1..(Len(sent) - 1) /\ n < Len(sent) - 1
      BY <1>2, <1>7, <1>8, <3>5
    <3>7. QED
      BY <1>7, <3>3, <3>6
  <2>3. QED
    BY <2>1, <2>2
<1>11. QED
  BY <1>1, <1>8, <1>9, <1>10 DEF r, n

\* At the end of the peer's bytes the reader knows whether a message was cut off.
LEMMA EndIsKnown ==
  ASSUME FramesInv, PeerRead, ~Frames!HasLine, Frames!AtEnd
  PROVE  /\ Len(Seen) = 0 => Begun = received
         /\ Len(Seen) # 0 => Len(Begun) = Len(received) + 1
<1>1. /\ Unread(ToCome, sent, Len(received)) /\ sent \in Seq(Message)
      /\ Len(received) \in 0..Len(sent) /\ Len(sent) \in Nat /\ Len(received) \in Nat
  BY PeerKnown
<1>2. /\ writing \in Seq(Byte) /\ received \in Seq(Message)
      /\ \A i \in 1..Len(received) : received[i] = sent[i]
  BY DEF FramesInv, BytesTyped, ReadsMessages, PeerRead
<1>3. /\ ToCome \in Seq(Byte) /\ Len(ToCome) = Len(Seen) + Len(writing)
      /\ Len(Seen) \in Nat /\ Len(writing) \in Nat
  <2>1. Len(stream) = 0
    BY EmptySeq DEF Frames!AtEnd
  <2>2. QED
    BY <2>1, ToComeParts
<1>4. Unbroken(ToCome, Len(Seen))
  <2>1. Unbroken(Seen, Len(Seen))
    BY SeenUnbroken
  <2>2. QED
    BY <2>1, ToComeParts DEF Unbroken
<1>5. CASE writing = <<>>
  <2>1. Len(writing) = 0 /\ Begun = sent
    BY <1>5, EmptySeq DEF Begun
  <2>2. Len(Seen) = 0
    <3>1. ASSUME Len(Seen) # 0
          PROVE  FALSE
      <4>1. Len(Seen) \in 1..Len(ToCome)
        BY <1>3, <2>1, <3>1
      <4>2. /\ Len(received) < Len(sent)
            /\ Len(Seen) <= Len(sent[Len(received) + 1])
        BY <1>1, <1>3, <1>4, <4>1, UnreadUnbroken
      <4>3. ToCome # <<>>
        BY <1>3, <2>1, <3>1, EmptySeq
      <4>4. ASSUME NEW m, NEW e, m = sent[Len(received) + 1], e = Len(m) + 1
            PROVE  e \in 2..Len(ToCome)
        BY <1>1, <1>3, <4>3, <4>4, UnreadFirst
      <4>5. Len(sent[Len(received) + 1]) \in 1..MaxFrameSize
        BY <4>2, PeerKnown
      <4>6. Len(sent[Len(received) + 1]) + 1 \in 2..Len(ToCome)
        BY <4>4
      <4>7. QED
        BY <1>3, <2>1, <4>2, <4>5, <4>6
    <3>2. QED
      BY <3>1
  <2>3. Len(ToCome) = 0
    BY <1>3, <2>1, <2>2
  <2>4. Len(received) = Len(sent)
    BY <1>1, <1>3, <2>3, UnreadNothing
  <2>5. received = sent
    BY <1>1, <1>2, <2>4, SeqEqual
  <2>6. QED
    BY <2>1, <2>2, <2>5
<1>6. CASE writing # <<>>
  <2>1. sent # <<>> /\ Len(writing) <= Len(sent[Len(sent)]) + 1
    BY <1>6 DEF FramesInv, WritesLast
  <2>2. ToCome # <<>> /\ Len(Seen) \in 0..Len(ToCome)
    <3>1. Len(writing) # 0
      BY <1>2, <1>6, EmptySeq
    <3>2. QED
      BY <1>3, <3>1, EmptySeq
  <2> DEFINE last == sent[Len(sent)]
  <2>3. /\ Frames!Last(sent) = last /\ last \in Message
        /\ Frames!Front(sent) \in Seq(Message) /\ Len(Frames!Front(sent)) = Len(sent) - 1
        /\ \A i \in 1..(Len(sent) - 1) : Frames!Front(sent)[i] = sent[i]
    BY <1>1, <2>1, FrontAndLast
  <2>4. Len(last) \in Nat /\ Len(Append(last, NewLine)) = Len(last) + 1
    BY <2>3, MessageType, AppendProperties DEF Byte
  <2>5. Len(ToCome) <= Len(Seen) + Len(last) + 1
    BY <1>3, <2>1, <2>4
  <2>6. /\ Len(received) + 1 = Len(sent)
        /\ Len(ToCome) = Len(last) + 1
        /\ ToCome = Append(last, NewLine)
    BY <1>1, <1>3, <1>4, <2>2, <2>5, UnreadLast
  <2>7. CASE Len(Seen) = 0
    <3>1. Seen = <<>> /\ stream = <<>>
      BY <2>7, ToComeParts, EmptySeq DEF Frames!AtEnd
    <3>2. ToCome = writing
      BY <1>2, <3>1, JoinedEmpty DEF ToCome
    <3>3. Begun = Frames!Front(sent)
      BY <1>6, <2>3, <2>6, <3>2 DEF Begun
    <3>4. received = Frames!Front(sent)
      <4>1. Len(received) = Len(Frames!Front(sent))
        BY <1>1, <2>3, <2>6
      <4>2. \A i \in 1..Len(received) : i \in 1..(Len(sent) - 1)
        BY <1>1, <2>6
      <4>3. QED
        BY <1>2, <2>3, <4>1, <4>2, SeqEqual
    <3>5. QED
      BY <2>7, <3>3, <3>4
  <2>8. CASE Len(Seen) # 0
    <3>1. Len(writing) # Len(last) + 1
      BY <1>3, <2>6, <2>8
    <3>2. Begun = sent
      BY <2>3, <2>4, <3>1 DEF Begun
    <3>3. QED
      BY <2>6, <2>8, <3>2
  <2>9. QED
    BY <2>7, <2>8
<1>7. QED
  BY <1>5, <1>6

-----------------------------------------------------------------------------
(* One step of the frames, and the step of the channel it is.               *)

ChannelStep == [Frames!Channel!Next]_(Frames!Channel!vars)

LEMMA NothingUnbroken ==
  <<>> \in Seq(Byte) /\ Unbroken(<<>>, Len(<<>>))
<1>1. <<>> \in Seq(Byte) /\ Len(<<>>) = 0
  BY EmptySeq
<1>2. Unbroken(<<>>, Len(<<>>))
  BY <1>1 DEF Unbroken
<1>3. QED
  BY <1>1, <1>2

LEMMA Mapped ==
  /\ Frames!Channel!vars = <<Begun, Got, ~open, Ended>>
  /\ Frames!Channel!vars' = <<Begun', Got', ~open', Ended'>>
BY DEF Frames!Channel!vars, Begun, Got, Ended

LEMMA ChannelStutters ==
  ASSUME UNCHANGED <<Begun, Got, open, Ended>>
  PROVE  ChannelStep
BY Mapped DEF ChannelStep

LEMMA ChannelSends ==
  ASSUME open, NEW m \in Message, Begun' = Append(Begun, m), UNCHANGED <<Got, open, Ended>>
  PROVE  ChannelStep
BY DEF ChannelStep, Frames!Channel!Next, Frames!Channel!Send, Message, Frames!Fits,
       Begun, Got, Ended

LEMMA ChannelReceives ==
  ASSUME Ended = "no", Len(Got) < Len(Begun), Got' = Append(Got, Begun[Len(Got) + 1]),
         UNCHANGED <<Begun, open, Ended>>
  PROVE  ChannelStep
BY DEF ChannelStep, Frames!Channel!Next, Frames!Channel!Receive, Begun, Got, Ended

LEMMA ChannelCloses ==
  ASSUME ~open', UNCHANGED <<Begun, Got, Ended>>
  PROVE  ChannelStep
BY DEF ChannelStep, Frames!Channel!Next, Frames!Channel!Close, Begun, Got, Ended

LEMMA ChannelEnds ==
  ASSUME ~open, UNCHANGED <<Begun, Got, open>>,
         \/ Begun = Got /\ Ended' = "clean"
         \/ Len(Begun) = Len(Got) + 1 /\ Ended' = "broken"
  PROVE  ChannelStep
BY DEF ChannelStep, Frames!Channel!Next, Frames!Channel!End, Begun, Got, Ended

LEMMA FramesSame ==
  ASSUME FramesInv, UNCHANGED bytes
  PROVE  FramesInv' /\ ChannelStep
<1>1. FramesInv'
  BY DEF FramesInv, BytesTyped, OnlyPeerSends, WritesLast, ReadsMessages, ToCome, Seen, bytes
<1>2. UNCHANGED <<Begun, Got, open, Ended>>
  BY DEF Begun, Got, Ended, bytes
<1>3. QED
  BY <1>1, <1>2, ChannelStutters

\* What the peer's reader keeps when it returns nothing and reading goes on.
LEMMA StillToCome ==
  ASSUME ReadsMessages, ToCome' = ToCome, UNCHANGED <<writer, sent, received, outcome>>,
         outcome # "none" => ~open'
  PROVE  ReadsMessages'
BY DEF ReadsMessages

LEMMA WriteFrameStep ==
  ASSUME FramesInv, Frames!WriteFrame
  PROVE  FramesInv' /\ ChannelStep
<1>1. PICK m \in Message : sent' = Append(sent, m) /\ writing' = Append(m, NewLine)
  BY DEF Frames!WriteFrame, Message
<1>2. /\ writer = "peer" /\ open /\ writing = <<>>
      /\ UNCHANGED <<reader, writer, open, stream, buffer, frame, received, outcome>>
  BY DEF Frames!WriteFrame, Frames!readerVars
<1>3. /\ sent \in Seq(Message) /\ stream \in Seq(Byte) /\ Seen \in Seq(Byte)
      /\ ToCome \in Seq(Byte)
  BY ToComeParts DEF FramesInv, BytesTyped
<1>4. /\ writing' \in Seq(Byte) /\ writing' # <<>> /\ Len(writing') = Len(m) + 1
  BY <1>1, MessageType, AppendProperties DEF Byte
<1>5. /\ sent' \in Seq(Message) /\ sent' # <<>> /\ Len(sent') = Len(sent) + 1
      /\ Len(sent) \in Nat /\ sent'[Len(sent) + 1] = m
      /\ \A i \in 1..Len(sent) : sent'[i] = sent[i]
  BY <1>1, <1>3, AppendProperties, LenProperties
<1>6. BytesTyped' /\ OnlyPeerSends' /\ WritesLast'
  <2>1. BytesTyped'
    BY <1>2, <1>4, <1>5 DEF FramesInv, BytesTyped, Unbroken
  <2>2. OnlyPeerSends'
    BY <1>2 DEF OnlyPeerSends
  <2>3. Len(writing') <= Len(sent'[Len(sent')]) + 1
    BY <1>4, <1>5, MessageType
  <2>4. QED
    BY <1>5, <2>1, <2>2, <2>3 DEF WritesLast
<1>7. outcome = "none"
  BY <1>2 DEF FramesInv, ReadsMessages
<1>8. ReadsMessages'
  <2>1. Unread(ToCome, sent, Len(received)) /\ Len(received) \in 0..Len(sent)
    BY <1>2, <1>7, PeerKnown DEF PeerRead
  <2>2. Unread(Joined(ToCome, writing'), sent', Len(received))
    <3>1. Unread(Joined(ToCome, Append(m, NewLine)), Append(sent, m), Len(received))
      BY <1>3, <2>1, UnreadGrows
    <3>2. QED
      BY <1>1, <3>1
  <2>3. ToCome' = Joined(ToCome, writing')
    <3>1. ToCome = Joined(Seen, stream)
      BY <1>2, <1>3, JoinedEmpty DEF ToCome
    <3>2. ToCome' = Joined(Seen, Joined(stream, writing'))
      BY <1>2 DEF ToCome, Seen
    <3>3. Joined(Joined(Seen, stream), writing') = Joined(Seen, Joined(stream, writing'))
      BY <1>3, <1>4, JoinedGroups
    <3>4. QED
      BY <3>1, <3>2, <3>3
  <2>4. /\ received \in Seq(Message) /\ Len(received) \in Nat /\ Len(received) <= Len(sent)
        /\ \A i \in 1..Len(received) : received[i] = sent[i]
    BY <1>2, LenProperties DEF FramesInv, ReadsMessages
  <2>5. Len(received) <= Len(sent') /\ \A i \in 1..Len(received) : received[i] = sent'[i]
    <3>1. \A i \in 1..Len(received) : i \in 1..Len(sent)
      BY <1>5, <2>4
    <3>2. QED
      BY <1>5, <2>4, <3>1
  <2>6. QED
    BY <1>2, <1>7, <2>2, <2>3, <2>4, <2>5 DEF ReadsMessages
<1>9. ChannelStep
  <2>1. Begun = sent
    BY <1>2 DEF Begun
  <2>2. Begun' = sent
    <3>1. Frames!Front(Append(sent, m)) = sent /\ Frames!Last(Append(sent, m)) = m
      BY <1>3, FrontAndLastOfAppend
    <3>2. Frames!Front(sent') = sent /\ Frames!Last(sent') = m
      BY <1>1, <3>1
    <3>3. QED
      BY <1>1, <1>4, <3>2 DEF Begun
  <2>3. UNCHANGED <<Begun, Got, open, Ended>>
    BY <1>2, <2>1, <2>2 DEF Got, Ended
  <2>4. QED
    BY <2>3, ChannelStutters
<1>10. QED
  BY <1>6, <1>8, <1>9 DEF FramesInv

LEMMA WriteStep ==
  ASSUME FramesInv, Frames!Write
  PROVE  FramesInv' /\ ChannelStep
<1>1. PICK n \in 1..Len(writing) :
        stream' = Joined(stream, Taken(writing, n)) /\ writing' = Dropped(writing, n)
  BY DEF Frames!Write, Joined, Taken, Dropped
<1>2. /\ open
      /\ UNCHANGED <<reader, writer, sent, open, buffer, frame, received, outcome>>
  BY DEF Frames!Write, Frames!readerVars
<1>3. /\ sent \in Seq(Message) /\ stream \in Seq(Byte) /\ Seen \in Seq(Byte)
      /\ writing \in Seq(Byte) /\ Len(writing) \in Nat
  BY ToComeParts DEF FramesInv, BytesTyped
<1>4. n \in Nat /\ 1 <= n /\ n <= Len(writing) /\ n \in 0..Len(writing)
  BY <1>3
<1>5. /\ Taken(writing, n) \in Seq(Byte) /\ Dropped(writing, n) \in Seq(Byte)
      /\ Len(Dropped(writing, n)) = Len(writing) - n
  BY <1>3, <1>4, Divided
<1>6. Joined(Taken(writing, n), Dropped(writing, n)) = writing
  BY <1>3, <1>4, DividedIsJoined
<1>7. /\ writing # <<>> /\ sent # <<>> /\ Len(writing) <= Len(sent[Len(sent)]) + 1
      /\ writer = "peer"
  <2>1. writing # <<>>
    BY <1>3, <1>4, EmptySeq
  <2>2. QED
    BY <2>1 DEF FramesInv, WritesLast, OnlyPeerSends
<1>8. ToCome' = ToCome
  <2> DEFINE c == Taken(writing, n)
             d == Dropped(writing, n)
  <2>1. c \in Seq(Byte) /\ d \in Seq(Byte) /\ Joined(c, d) = writing
    BY <1>5, <1>6
  <2>2. ToCome' = Joined(Seen, Joined(Joined(stream, c), d))
    BY <1>1, <1>2 DEF ToCome, Seen
  <2> HIDE DEF c, d
  <2>3. Joined(Joined(stream, c), d) = Joined(stream, Joined(c, d))
    BY <1>3, <2>1, JoinedGroups
  <2>4. QED
    BY <2>1, <2>2, <2>3 DEF ToCome
<1>9. stream' \in Seq(Byte) /\ writing' \in Seq(Byte) /\ Len(writing') < Len(writing)
  <2>1. stream' \in Seq(Byte)
    BY <1>1, <1>3, <1>5, JoinedParts
  <2>2. QED
    BY <1>1, <1>3, <1>4, <1>5, <2>1
<1> DEFINE last == sent[Len(sent)]
<1>10. /\ Frames!Last(sent) = last /\ last \in Message
       /\ sent = Append(Frames!Front(sent), last)
       /\ Len(Append(last, NewLine)) = Len(last) + 1 /\ Len(last) \in Nat
       /\ Len(writing') \in Nat
  <2>1. /\ Frames!Last(sent) = last /\ last \in Message
        /\ sent = Append(Frames!Front(sent), last)
    BY <1>3, <1>7, FrontAndLast
  <2>2. Len(Append(last, NewLine)) = Len(last) + 1 /\ Len(last) \in Nat
    BY <2>1, MessageType, AppendProperties DEF Byte
  <2>3. QED
    BY <1>9, <2>1, <2>2, LenProperties
<1>11. FramesInv'
  <2>1. BytesTyped'
    BY <1>2, <1>9 DEF FramesInv, BytesTyped, Unbroken
  <2>2. OnlyPeerSends'
    BY <1>2, <1>7 DEF OnlyPeerSends
  <2>3. WritesLast'
    <3>1. Len(writing') <= Len(sent[Len(sent)]) + 1
      BY <1>3, <1>7, <1>9, <1>10
    <3>2. QED
      BY <1>2, <1>7, <3>1 DEF WritesLast
  <2>4. ReadsMessages'
    BY <1>2, <1>8, StillToCome DEF FramesInv, ReadsMessages
  <2>5. QED
    BY <2>1, <2>2, <2>3, <2>4 DEF FramesInv
<1>12. Begun' = sent
  <2>1. writing' # Append(last, NewLine)
    BY <1>3, <1>7, <1>9, <1>10
  <2>2. Frames!Last(sent') = last
    BY <1>2, <1>10
  <2>3. QED
    BY <1>2, <2>1, <2>2 DEF Begun
<1>13. UNCHANGED <<Got, open, Ended>>
  BY <1>2 DEF Got, Ended
<1>14. CASE Begun = sent
  <2>1. UNCHANGED <<Begun, Got, open, Ended>>
    BY <1>12, <1>13, <1>14
  <2>2. QED
    BY <1>11, <2>1, ChannelStutters
<1>15. CASE Begun # sent
  <2>1. Begun = Frames!Front(sent)
    BY <1>15 DEF Begun
  <2>2. Begun' = Append(Begun, last)
    BY <1>10, <1>12, <2>1
  <2>3. ChannelStep
    BY <1>2, <1>10, <1>13, <2>2, ChannelSends
  <2>4. QED
    BY <1>11, <2>3
<1>16. QED
  BY <1>14, <1>15

LEMMA WriteStrayStep ==
  ASSUME FramesInv, Frames!WriteStray
  PROVE  FramesInv' /\ ChannelStep
<1>1. PICK b \in Byte : stream' = Append(stream, b)
  <2>1. (CHOOSE c \in Bytes : TRUE) \in Bytes
    BY FramesAssumed DEF Frames!FrameCodecAssumption
  <2>2. QED
    BY <2>1 DEF Frames!WriteStray, Byte
<1>2. /\ writer = "stray"
      /\ UNCHANGED <<reader, writer, sent, writing, open, buffer, frame, received, outcome>>
  BY DEF Frames!WriteStray, Frames!readerVars, Frames!writerVars
<1>3. BytesTyped'
  <2>1. stream' \in Seq(Byte)
    BY <1>1, AppendProperties DEF FramesInv, BytesTyped
  <2>2. QED
    BY <1>2, <2>1 DEF FramesInv, BytesTyped, Unbroken
<1>4. OnlyPeerSends' /\ WritesLast' /\ ReadsMessages'
  BY <1>2 DEF FramesInv, OnlyPeerSends, WritesLast, ReadsMessages
<1>5. UNCHANGED <<Begun, Got, open, Ended>>
  BY <1>2 DEF Begun, Got, Ended
<1>6. QED
  BY <1>3, <1>4, <1>5, ChannelStutters DEF FramesInv

LEMMA CloseStep ==
  ASSUME FramesInv, Frames!Close
  PROVE  FramesInv' /\ ChannelStep
<1>1. /\ open' = FALSE
      /\ UNCHANGED <<reader, writer, sent, writing, stream, buffer, frame, received, outcome>>
  BY DEF Frames!Close, Frames!readerVars
<1>2. FramesInv'
  BY <1>1 DEF FramesInv, BytesTyped, OnlyPeerSends, WritesLast, ReadsMessages, ToCome,
              Seen, Unbroken
<1>3. UNCHANGED <<Begun, Got, Ended>>
  BY <1>1 DEF Begun, Got, Ended
<1>4. QED
  BY <1>1, <1>2, <1>3, ChannelCloses

\* Bytes go from the stream into the buffer.
LEMMA FillStep ==
  ASSUME FramesInv, NEW n \in Int, Frames!Fill(n),
         UNCHANGED <<reader, writer, sent, writing, open, frame, received, outcome>>
  PROVE  FramesInv' /\ ChannelStep
<1>1. PICK k \in 1..n :
        /\ k <= Len(stream)
        /\ buffer' = Joined(buffer, Taken(stream, k)) /\ stream' = Dropped(stream, k)
  BY DEF Frames!Fill, Joined, Taken, Dropped
<1>2. /\ stream \in Seq(Byte) /\ buffer \in Seq(Byte) /\ frame \in Seq(Byte)
      /\ writing \in Seq(Byte)
  BY DEF FramesInv, BytesTyped
<1>3. k \in 0..Len(stream)
  BY <1>1, <1>2, LenProperties
<1> DEFINE c == Taken(stream, k)
           d == Dropped(stream, k)
<1>4. c \in Seq(Byte) /\ d \in Seq(Byte) /\ Joined(c, d) = stream
  BY <1>2, <1>3, Divided, DividedIsJoined
<1>5. buffer' = Joined(buffer, c) /\ stream' = d
  BY <1>1
<1> HIDE DEF c, d
<1>6. ToCome' = ToCome
  <2>1. ToCome' = Joined(Joined(frame, Joined(buffer, c)), Joined(d, writing))
    BY <1>5 DEF ToCome, Seen
  <2>2. Joined(frame, Joined(buffer, c)) = Joined(Seen, c) /\ Seen \in Seq(Byte)
    BY <1>2, <1>4, JoinedGroups, ToComeParts DEF Seen
  <2>3. Joined(d, writing) \in Seq(Byte)
    BY <1>2, <1>4, JoinedParts
  <2>4. Joined(Joined(Seen, c), Joined(d, writing)) = Joined(Seen, Joined(c, Joined(d, writing)))
    BY <1>4, <2>2, <2>3, JoinedGroups
  <2>5. Joined(c, Joined(d, writing)) = Joined(stream, writing)
    <3>1. Joined(Joined(c, d), writing) = Joined(c, Joined(d, writing))
      BY <1>2, <1>4, JoinedGroups
    <3>2. QED
      BY <1>4, <3>1
  <2>6. QED
    BY <2>1, <2>2, <2>4, <2>5 DEF ToCome
<1>7. BytesTyped'
  <2>1. buffer' \in Seq(Byte) /\ stream' \in Seq(Byte)
    BY <1>2, <1>4, <1>5, JoinedParts
  <2>2. QED
    BY <2>1 DEF FramesInv, BytesTyped, Unbroken
<1>8. OnlyPeerSends' /\ WritesLast'
  BY DEF FramesInv, OnlyPeerSends, WritesLast
<1>9. ReadsMessages'
  BY <1>6, StillToCome DEF FramesInv, ReadsMessages
<1>10. UNCHANGED <<Begun, Got, open, Ended>>
  BY DEF Begun, Got, Ended
<1>11. QED
  BY <1>7, <1>8, <1>9, <1>10, ChannelStutters DEF FramesInv

LEMMA GoFillStep ==
  ASSUME FramesInv, Frames!GoFill
  PROVE  FramesInv' /\ ChannelStep
<1>1. BufferSize - Len(buffer) \in Int
  BY FramesAssumed, LenProperties DEF Frames!FrameCodecAssumption, FramesInv, BytesTyped
<1>2. /\ Frames!Fill(BufferSize - Len(buffer))
      /\ UNCHANGED <<reader, writer, sent, writing, open, frame, received, outcome>>
  BY DEF Frames!GoFill, Frames!writerVars
<1>3. QED
  BY <1>1, <1>2, FillStep

LEMMA RecvStep ==
  ASSUME FramesInv, Frames!Recv
  PROVE  FramesInv' /\ ChannelStep
<1>1. PICK n \in 1..RecvSize : Frames!Fill(n)
  BY DEF Frames!Recv
<1>2. n \in Int
  BY FramesAssumed DEF Frames!FrameCodecAssumption
<1>3. UNCHANGED <<reader, writer, sent, writing, open, frame, received, outcome>>
  BY DEF Frames!Recv, Frames!writerVars
<1>4. QED
  BY <1>1, <1>2, <1>3, FillStep

\* The reader gives up on a frame, or what it reads ends.
LEMMA ReaderFails ==
  ASSUME FramesInv, reader # "none", outcome = "none", outcome' # "none",
         BytesTyped', UNCHANGED <<writer, sent, writing, open, received>>,
         writer = "peer" =>
           /\ ~open
           /\ \/ outcome' = "eof" /\ Begun = received
              \/ outcome' # "eof" /\ Len(Begun) = Len(received) + 1
  PROVE  FramesInv' /\ ChannelStep
<1>1. OnlyPeerSends' /\ WritesLast'
  BY DEF FramesInv, OnlyPeerSends, WritesLast
<1>2. ReadsMessages'
  BY DEF FramesInv, ReadsMessages
<1>3. UNCHANGED <<Begun, Got, open>>
  BY DEF Begun, Got
<1>4. CASE writer = "peer"
  <2>1. Got = received
    BY <1>4 DEF Got
  <2>2. \/ Begun = Got /\ Ended' = "clean"
        \/ Len(Begun) = Len(Got) + 1 /\ Ended' = "broken"
    BY <1>4, <2>1 DEF Ended
  <2>3. ChannelStep
    BY <1>3, <1>4, <2>2, ChannelEnds
  <2>4. QED
    BY <1>1, <1>2, <2>3 DEF FramesInv
<1>5. CASE writer = "stray"
  <2>1. UNCHANGED Ended
    BY <1>5 DEF Ended
  <2>2. QED
    BY <1>1, <1>2, <1>3, <2>1, ChannelStutters DEF FramesInv
<1>6. QED
  BY <1>4, <1>5 DEF FramesInv, BytesTyped

\* The reader returns the peer's message.
LEMMA ReaderReceives ==
  ASSUME FramesInv, PeerRead, Frames!HasLine, BytesTyped',
         received' = Append(received, sent[Len(received) + 1]),
         frame' = <<>>, buffer' = Dropped(buffer, Frames!LineEnd),
         UNCHANGED <<writer, sent, writing, open, stream, outcome>>
  PROVE  FramesInv' /\ ChannelStep
<1> DEFINE n == Len(received)
           m == sent[n + 1]
           r == Joined(stream, writing)
           d == Dropped(buffer, Frames!LineEnd)
<1>1. /\ n < Len(sent) /\ m \in Message /\ d \in Seq(Byte)
      /\ Unread(Joined(d, r), sent, n + 1)
      /\ n < Len(Begun) /\ Begun[n + 1] = m
  BY LineIsMessage
<1>2. /\ received \in Seq(Message) /\ sent \in Seq(Message)
      /\ n \in Nat /\ Len(sent) \in Nat
      /\ \A i \in 1..n : received[i] = sent[i]
  BY LenProperties DEF FramesInv, BytesTyped, ReadsMessages, PeerRead
<1>3. /\ received' \in Seq(Message) /\ Len(received') = n + 1
      /\ \A i \in 1..n : received'[i] = received[i]
      /\ received'[n + 1] = m
  BY <1>1, <1>2, AppendProperties
<1>4. OnlyPeerSends' /\ WritesLast'
  BY DEF FramesInv, OnlyPeerSends, WritesLast
<1>5. ToCome' = Joined(d, r)
  <2>1. Joined(<<>>, d) = d
    BY <1>1, JoinedEmpty
  <2>2. QED
    BY <2>1 DEF ToCome, Seen
<1>6. ReadsMessages'
  <2>1. \A i \in 1..(n + 1) : received'[i] = sent[i]
    <3>1. \A i \in 1..(n + 1) : i = n + 1 \/ i \in 1..n
      BY <1>2
    <3>2. QED
      BY <1>2, <1>3, <3>1
  <2>2. n + 1 <= Len(sent)
    BY <1>1, <1>2
  <2>3. Unread(ToCome', sent', Len(received'))
    BY <1>1, <1>3, <1>5
  <2>4. QED
    BY <1>3, <2>1, <2>2, <2>3 DEF ReadsMessages, PeerRead
<1>7. ChannelStep
  <2>1. Got = received /\ Got' = received' /\ Ended = "no" /\ UNCHANGED <<Begun, open, Ended>>
    BY DEF Got, Ended, Begun, PeerRead
  <2>2. Got' = Append(Got, Begun[Len(Got) + 1]) /\ Len(Got) < Len(Begun)
    BY <1>1, <2>1
  <2>3. QED
    BY <2>1, <2>2, ChannelReceives
<1>8. QED
  BY <1>4, <1>6, <1>7 DEF FramesInv

\* Reading a stray's bytes disturbs nothing the peer relies on.
LEMMA ReadsStray ==
  ASSUME FramesInv, writer = "stray", BytesTyped',
         UNCHANGED <<writer, sent, writing, open>>
  PROVE  FramesInv' /\ ChannelStep
<1>1. OnlyPeerSends' /\ WritesLast' /\ ReadsMessages'
  BY DEF FramesInv, OnlyPeerSends, WritesLast, ReadsMessages
<1>2. UNCHANGED <<Begun, Got, open, Ended>>
  BY DEF Begun, Got, Ended
<1>3. QED
  BY <1>1, <1>2, ChannelStutters DEF FramesInv

LEMMA GoLineStep ==
  ASSUME FramesInv, Frames!GoLine
  PROVE  FramesInv' /\ ChannelStep
<1> DEFINE k == Frames!LineEnd
           chunk == Taken(buffer, k)
           m == sent[Len(received) + 1]
<1>1. /\ reader = "go" /\ outcome = "none" /\ Frames!HasLine
      /\ IF Frames!TooLarge(chunk)
           THEN Frames!Fails("too large")
           ELSE Frames!Delivers(Frames!Front(Joined(frame, chunk)))
      /\ buffer' = Dropped(buffer, k) /\ frame' = <<>>
      /\ UNCHANGED <<reader, writer, sent, writing, open, stream>>
  BY DEF Frames!GoLine, Frames!GoReads, Frames!writerVars, Taken, Dropped, Joined
<1>2. buffer \in Seq(Byte) /\ k \in 1..Len(buffer)
  BY <1>1, SeenUnbroken DEF FramesInv, BytesTyped
<1>3. k \in 0..Len(buffer)
  BY <1>2
<1>4. buffer' \in Seq(Byte) /\ Len(chunk) = k
  BY <1>1, <1>2, <1>3, Divided
<1>5. BytesTyped'
  <2>1. frame' \in Seq(Byte) /\ Unbroken(frame', Len(frame'))
    BY <1>1, NothingUnbroken
  <2>2. QED
    BY <1>1, <1>4, <2>1 DEF FramesInv, BytesTyped
<1>6. CASE writer = "peer"
  <2>1. /\ m \in Message /\ Len(frame) + k = Len(m) + 1
        /\ Joined(frame, chunk) = Append(m, NewLine)
    BY <1>1, <1>6, LineIsMessage DEF PeerRead
  <2>2. /\ m \in Seq(Byte) /\ NewLine \in Byte /\ Len(m) \in 1..MaxFrameSize
        /\ MaxFrameSize \in Nat
    BY <2>1, MessageType, FramesAssumed DEF Byte, Frames!FrameCodecAssumption
  <2>3. Frames!Front(Joined(frame, chunk)) = m
    BY <2>1, <2>2, FrontAndLastOfAppend
  <2>4. ~Frames!TooLarge(chunk)
    BY <1>4, <2>1, <2>2 DEF Frames!TooLarge
  <2>5. m # <<>>
    BY <2>2, EmptySeq
  <2>6. received' = Append(received, m) /\ outcome' = outcome
    BY <1>1, <2>3, <2>4, <2>5 DEF Frames!Delivers
  <2>7. QED
    BY <1>1, <1>5, <1>6, <2>6, ReaderReceives DEF PeerRead
<1>7. CASE writer = "stray"
  BY <1>1, <1>5, <1>7, ReadsStray
<1>8. QED
  BY <1>1, <1>6, <1>7 DEF FramesInv, BytesTyped

LEMMA PythonLineStep ==
  ASSUME FramesInv, Frames!PythonLine
  PROVE  FramesInv' /\ ChannelStep
<1> DEFINE k == Frames!LineEnd
           m == sent[Len(received) + 1]
<1>1. /\ reader = "python" /\ outcome = "none" /\ Frames!HasLine /\ frame = <<>>
      /\ IF k - 1 > MaxFrameSize
           THEN Frames!Fails("too large") /\ UNCHANGED buffer
           ELSE /\ Frames!Delivers(Taken(buffer, k - 1))
                /\ buffer' = IF k = 1 THEN buffer ELSE Dropped(buffer, k)
      /\ UNCHANGED <<reader, writer, sent, writing, open, stream, frame>>
  BY DEF Frames!PythonLine, Frames!PythonReads, Frames!writerVars, Taken, Dropped,
         FramesInv, BytesTyped
<1>2. buffer \in Seq(Byte) /\ k \in 1..Len(buffer)
  BY <1>1, SeenUnbroken DEF FramesInv, BytesTyped
<1>3. k \in 0..Len(buffer) /\ k - 1 \in 0..Len(buffer) /\ k \in Nat
  BY <1>2, LenProperties
<1>4. buffer' \in Seq(Byte)
  BY <1>1, <1>2, <1>3, Divided
<1>5. BytesTyped'
  BY <1>1, <1>4 DEF FramesInv, BytesTyped
<1>6. CASE writer = "peer"
  <2>1. /\ m \in Message /\ Len(frame) + k = Len(m) + 1
        /\ Joined(frame, Taken(buffer, k)) = Append(m, NewLine)
    BY <1>1, <1>6, LineIsMessage DEF PeerRead
  <2>2. /\ m \in Seq(Byte) /\ NewLine \in Byte /\ Len(m) \in 1..MaxFrameSize
        /\ MaxFrameSize \in Nat
    BY <2>1, MessageType, FramesAssumed DEF Byte, Frames!FrameCodecAssumption
  <2>3. k = Len(m) + 1 /\ Len(m) \in Nat
    <3>1. Len(frame) = 0
      BY <1>1, EmptySeq
    <3>2. QED
      BY <1>3, <2>1, <2>2, <3>1
  <2>4. /\ Taken(buffer, k) \in Seq(Byte)
        /\ \A i \in 1..k : Taken(buffer, k)[i] = buffer[i]
    BY <1>2, <1>3, Divided
  <2>5. Taken(buffer, k) = Append(m, NewLine)
    BY <1>1, <2>1, <2>4, JoinedEmpty
  <2>6. \A i \in 1..Len(m) : buffer[i] = m[i]
    <3>1. \A i \in 1..Len(m) : Append(m, NewLine)[i] = m[i]
      BY <2>2, AppendProperties
    <3>2. \A i \in 1..Len(m) : i \in 1..k
      BY <2>3
    <3>3. QED
      BY <2>4, <2>5, <3>1, <3>2
  <2>7. Taken(buffer, k - 1) = m
    <3>1. /\ Taken(buffer, k - 1) \in Seq(Byte) /\ Len(Taken(buffer, k - 1)) = k - 1
          /\ \A i \in 1..(k - 1) : Taken(buffer, k - 1)[i] = buffer[i]
      BY <1>2, <1>3, Divided
    <3>2. k - 1 = Len(m)
      BY <2>3
    <3>3. QED
      BY <2>2, <2>6, <3>1, <3>2, SeqEqual
  <2>8. m # <<>> /\ k # 1 /\ ~(k - 1 > MaxFrameSize)
    BY <2>2, <2>3, EmptySeq
  <2>9. received' = Append(received, m) /\ outcome' = outcome /\ buffer' = Dropped(buffer, k)
    BY <1>1, <2>7, <2>8 DEF Frames!Delivers
  <2>10. QED
    BY <1>1, <1>5, <1>6, <2>9, ReaderReceives DEF PeerRead
<1>7. CASE writer = "stray"
  BY <1>1, <1>5, <1>7, ReadsStray
<1>8. QED
  BY <1>1, <1>6, <1>7 DEF FramesInv, BytesTyped

LEMMA GoBufferFullStep ==
  ASSUME FramesInv, Frames!GoBufferFull
  PROVE  FramesInv' /\ ChannelStep
<1>1. /\ reader = "go" /\ outcome = "none" /\ ~Frames!HasLine
      /\ IF Frames!TooLarge(buffer)
           THEN Frames!Fails("too large") /\ frame' = <<>>
           ELSE frame' = Seen /\ UNCHANGED <<received, outcome>>
      /\ buffer' = <<>>
      /\ UNCHANGED <<reader, writer, sent, writing, open, stream>>
  BY DEF Frames!GoBufferFull, Frames!GoReads, Frames!writerVars, Seen, Joined
<1>2. /\ Seen \in Seq(Byte) /\ Len(Seen) = Len(frame) + Len(buffer)
      /\ Unbroken(Seen, Len(Seen))
  BY <1>1, ToComeParts, SeenUnbroken
<1>3. BytesTyped'
  <2>1. /\ buffer' \in Seq(Byte) /\ frame' \in Seq(Byte)
        /\ Unbroken(frame', Len(frame'))
    BY <1>1, <1>2, NothingUnbroken
  <2>2. QED
    BY <1>1, <2>1 DEF FramesInv, BytesTyped
<1>4. CASE writer = "peer"
  <2>1. ~Frames!TooLarge(buffer)
    <3>1. Len(Seen) <= MaxFrameSize
      BY <1>1, <1>4, NotTooLarge DEF PeerRead
    <3>2. Len(frame) \in Nat /\ Len(buffer) \in Nat /\ MaxFrameSize \in Nat
      BY ToComeParts, FramesAssumed DEF Frames!FrameCodecAssumption
    <3>3. QED
      BY <1>2, <3>1, <3>2 DEF Frames!TooLarge
  <2>2. frame' = Seen /\ UNCHANGED <<received, outcome>>
    BY <1>1, <2>1
  <2>3. ToCome' = ToCome
    <3>1. Joined(Seen, <<>>) = Seen
      BY <1>2, JoinedEmpty
    <3>2. Seen' = Joined(Seen, <<>>)
      BY <1>1, <2>2 DEF Seen
    <3>3. QED
      BY <1>1, <3>1, <3>2 DEF ToCome
  <2>4. ReadsMessages'
    BY <1>1, <2>2, <2>3, StillToCome DEF FramesInv, ReadsMessages
  <2>5. OnlyPeerSends' /\ WritesLast'
    BY <1>1 DEF FramesInv, OnlyPeerSends, WritesLast
  <2>6. UNCHANGED <<Begun, Got, open, Ended>>
    BY <1>1, <2>2 DEF Begun, Got, Ended
  <2>7. QED
    BY <1>3, <2>4, <2>5, <2>6, ChannelStutters DEF FramesInv
<1>5. CASE writer = "stray"
  BY <1>1, <1>3, <1>5, ReadsStray
<1>6. QED
  BY <1>1, <1>4, <1>5 DEF FramesInv, BytesTyped

LEMMA GoEndStep ==
  ASSUME FramesInv, Frames!GoEnd
  PROVE  FramesInv' /\ ChannelStep
<1>1. /\ reader = "go" /\ outcome = "none" /\ ~Frames!HasLine /\ Frames!AtEnd
      /\ buffer' = <<>> /\ frame' = <<>> /\ received' = received
      /\ outcome' = CASE Frames!TooLarge(buffer) -> "too large"
                      [] ~Frames!TooLarge(buffer) /\ Seen # <<>> -> "truncated"
                      [] OTHER -> "eof"
      /\ UNCHANGED <<reader, writer, sent, writing, open, stream>>
  BY DEF Frames!GoEnd, Frames!GoReads, Frames!Fails, Frames!writerVars, Seen, Joined
<1>2. BytesTyped'
  <2>1. /\ buffer' \in Seq(Byte) /\ frame' \in Seq(Byte)
        /\ Unbroken(frame', Len(frame'))
    BY <1>1, NothingUnbroken
  <2>2. QED
    BY <1>1, <2>1 DEF FramesInv, BytesTyped
<1>3. Seen \in Seq(Byte) /\ Len(Seen) = Len(frame) + Len(buffer) /\ Len(Seen) \in Nat
  BY ToComeParts
<1>4. ASSUME writer = "peer"
      PROVE  /\ ~open
             /\ \/ outcome' = "eof" /\ Begun = received
                \/ outcome' # "eof" /\ Len(Begun) = Len(received) + 1
  <2>1. ~Frames!TooLarge(buffer)
    <3>1. Len(Seen) <= MaxFrameSize
      BY <1>1, <1>4, NotTooLarge DEF PeerRead
    <3>2. Len(frame) \in Nat /\ Len(buffer) \in Nat /\ MaxFrameSize \in Nat
      BY ToComeParts, FramesAssumed DEF Frames!FrameCodecAssumption
    <3>3. QED
      BY <1>3, <3>1, <3>2 DEF Frames!TooLarge
  <2>2. /\ Len(Seen) = 0 => Begun = received
        /\ Len(Seen) # 0 => Len(Begun) = Len(received) + 1
    BY <1>1, <1>4, EndIsKnown DEF PeerRead
  <2>3. Seen = <<>> <=> Len(Seen) = 0
    BY <1>3, EmptySeq
  <2>4. ~open
    BY <1>1 DEF Frames!AtEnd
  <2>5. QED
    BY <1>1, <2>1, <2>2, <2>3, <2>4
<1>5. outcome' # "none"
  BY <1>1
<1>6. QED
  BY <1>1, <1>2, <1>4, <1>5, ReaderFails

LEMMA PythonOverfullStep ==
  ASSUME FramesInv, Frames!PythonOverfull
  PROVE  FramesInv' /\ ChannelStep
<1>1. /\ reader = "python" /\ outcome = "none" /\ ~Frames!HasLine
      /\ Len(buffer) > MaxFrameSize
      /\ UNCHANGED <<reader, writer, sent, writing, open, stream, buffer, frame>>
  BY DEF Frames!PythonOverfull, Frames!PythonReads, Frames!writerVars
<1>2. BytesTyped'
  BY <1>1 DEF FramesInv, BytesTyped
<1>3. writer # "peer"
  <2>1. /\ Len(Seen) = Len(frame) + Len(buffer)
        /\ Len(frame) \in Nat /\ Len(buffer) \in Nat
    BY ToComeParts
  <2>2. QED
    BY <1>1, <2>1, NotTooLarge, FramesAssumed DEF PeerRead, Frames!FrameCodecAssumption
<1>4. writer = "stray"
  BY <1>1, <1>3 DEF FramesInv, BytesTyped
<1>5. QED
  BY <1>1, <1>2, <1>4, ReadsStray

LEMMA PythonEndStep ==
  ASSUME FramesInv, Frames!PythonEnd
  PROVE  FramesInv' /\ ChannelStep
<1>1. /\ reader = "python" /\ outcome = "none" /\ ~Frames!HasLine /\ Frames!AtEnd
      /\ received' = received
      /\ outcome' = IF buffer # <<>> THEN "truncated" ELSE "eof"
      /\ UNCHANGED <<reader, writer, sent, writing, open, stream, buffer, frame>>
  BY DEF Frames!PythonEnd, Frames!PythonReads, Frames!Fails, Frames!writerVars
<1>2. BytesTyped'
  BY <1>1 DEF FramesInv, BytesTyped
<1>3. ASSUME writer = "peer"
      PROVE  /\ ~open
             /\ \/ outcome' = "eof" /\ Begun = received
                \/ outcome' # "eof" /\ Len(Begun) = Len(received) + 1
  <2>1. /\ Len(Seen) = 0 => Begun = received
        /\ Len(Seen) # 0 => Len(Begun) = Len(received) + 1
    BY <1>1, <1>3, EndIsKnown DEF PeerRead
  <2>2. Seen = buffer /\ buffer \in Seq(Byte)
    BY <1>1, JoinedEmpty DEF FramesInv, BytesTyped, Seen
  <2>3. buffer = <<>> <=> Len(Seen) = 0
    BY <2>2, EmptySeq
  <2>4. ~open
    BY <1>1 DEF Frames!AtEnd
  <2>5. QED
    BY <1>1, <2>1, <2>3, <2>4
<1>4. outcome' # "none"
  BY <1>1
<1>5. QED
  BY <1>1, <1>2, <1>3, <1>4, ReaderFails

\* How the bytes start.
LEMMA FramesStart ==
  ASSUME LinkInit
  PROVE  FramesInv /\ Frames!Channel!Init
<1>1. /\ sent = <<>> /\ writing = <<>> /\ open = TRUE /\ stream = <<>>
      /\ buffer = <<>> /\ frame = <<>> /\ received = <<>> /\ outcome = "none"
      /\ writer \in {"none", "peer", "stray"} /\ (writer = "none" => reader = "none")
  BY DEF LinkInit, NoBytes, Frames!Init
<1>2. BytesTyped
  <2>1. <<>> \in Seq(Message)
    BY EmptySeq
  <2>2. QED
    BY <1>1, <2>1, NothingUnbroken DEF BytesTyped
<1>3. ReadsMessages
  <2>1. <<>> \in Seq(Byte) /\ <<>> \in Seq(Message) /\ Len(<<>>) = 0
    BY EmptySeq
  <2>2. ToCome = <<>>
    <3>1. Joined(<<>>, <<>>) = <<>>
      BY <2>1, JoinedEmpty
    <3>2. QED
      BY <1>1, <3>1 DEF ToCome, Seen
  <2>3. Unread(<<>>, <<>>, 0)
    <3>1. PICK t \in Seq(Byte), messages \in Seq(Message) :
            /\ t = <<>> /\ messages = <<>> /\ Len(t) = 0 /\ Len(messages) = 0
      BY <2>1
    <3>2. 0 \in 0..Len(messages) /\ 0 = Len(messages) /\ Len(t) = 0
      BY <3>1
    <3>4. Unread(t, messages, 0)
      BY <3>2, UnreadNothing
    <3>3. QED
      BY <3>1, <3>4
  <2>4. QED
    BY <1>1, <2>1, <2>2, <2>3 DEF ReadsMessages
<1>4. Begun = <<>> /\ Got = <<>> /\ Ended = "no"
  BY <1>1 DEF Begun, Got, Ended
<1>5. QED
  BY <1>1, <1>2, <1>3, <1>4
     DEF FramesInv, OnlyPeerSends, WritesLast, Frames!Channel!Init, Begun, Got, Ended

LEMMA FramesStep ==
  ASSUME FramesInv, [LinkNext]_<<vars, bytes>>
  PROVE  FramesInv' /\ ChannelStep
<1>1. CASE UNCHANGED bytes
  BY <1>1, FramesSame
<1>2. CASE Frames!Next
  BY <1>2, WriteFrameStep, WriteStep, WriteStrayStep, CloseStep, GoFillStep, GoLineStep,
     GoBufferFullStep, GoEndStep, PythonLineStep, PythonOverfullStep, RecvStep,
     PythonEndStep
     DEF Frames!Next, Frames!ReaderStep
<1>3. QED
  BY <1>1, <1>2 DEF LinkNext

\* Whatever the sizes of frames, buffers and pieces, however the stream is cut and
\* wherever it ends: what WriteFrame and write_message write, ReadFrame and
\* FrameReader return whole, once and in order, and the end they report tells
\* whether a message is missing.
THEOREM FramesImplementChannel == LinkSpec => ImplementsChannel
<1>1. LinkInit => FramesInv /\ Frames!Channel!Init
  BY FramesStart
<1>2. FramesInv /\ [LinkNext]_<<vars, bytes>> =>
        FramesInv' /\ [Frames!Channel!Next]_(Frames!Channel!vars)
  BY FramesStep DEF ChannelStep
<1>3. QED
  BY <1>1, <1>2, PTL
     DEF LinkSpec, ImplementsChannel, Frames!ImplementsChannel, Frames!Channel!Spec

CalledTooLarge == outcome = "none" /\ outcome' = "too large"

\* What is called too large is.
LEMMA TooLargeIsLong ==
  ASSUME FramesInv, Frames!Next, CalledTooLarge
  PROVE  /\ Len(Seen) > MaxFrameSize
         /\ \A i \in 1..(MaxFrameSize + 1) : Seen[i] # NewLine
<1>1. /\ Len(Seen) = Len(frame) + Len(buffer) /\ Len(Seen) \in Nat
      /\ Len(frame) \in Nat /\ Len(buffer) \in Nat /\ MaxFrameSize \in Nat
  BY ToComeParts, FramesAssumed DEF Frames!FrameCodecAssumption
<1>12. buffer \in Seq(Byte) /\ (reader = "python" => Len(frame) = 0)
  BY EmptySeq DEF FramesInv, BytesTyped
<1>2. ASSUME NEW k \in Nat, k > MaxFrameSize, k <= Len(Seen), Unbroken(Seen, k)
      PROVE  /\ Len(Seen) > MaxFrameSize
             /\ \A i \in 1..(MaxFrameSize + 1) : Seen[i] # NewLine
  <2>1. Len(Seen) > MaxFrameSize /\ \A i \in 1..(MaxFrameSize + 1) : i \in 1..k
    BY <1>1, <1>2
  <2>2. QED
    BY <1>2, <2>1 DEF Unbroken
<1>3. ~Frames!HasLine => Unbroken(Seen, Len(Seen)) /\ Len(Seen) \in Nat
  BY <1>1, SeenUnbroken
<1>4. Frames!HasLine =>
        /\ Frames!LineEnd \in 1..Len(buffer)
        /\ Unbroken(Seen, Len(frame) + Frames!LineEnd - 1)
  BY SeenUnbroken
<1>5. CASE Frames!GoLine
  <2> DEFINE k == Frames!LineEnd
  <2>1. Frames!HasLine /\ reader = "go"
    BY <1>5 DEF Frames!GoLine, Frames!GoReads
  <2>2. k \in 1..Len(buffer) /\ Unbroken(Seen, Len(frame) + k - 1)
    BY <1>4, <2>1
  <2>3. Frames!TooLarge(Taken(buffer, k))
    BY <1>5 DEF Frames!GoLine, Frames!Delivers, Frames!Fails, Taken, CalledTooLarge
  <2>4. k \in 0..Len(buffer)
    BY <1>1, <2>2
  <2>5. Len(Taken(buffer, k)) = k
    BY <1>12, <2>4, Divided
  <2> HIDE DEF k
  <2>6. Len(frame) + k > MaxFrameSize + 1
    BY <2>3, <2>5 DEF Frames!TooLarge
  <2>7. /\ Len(frame) + k - 1 \in Nat /\ Len(frame) + k - 1 > MaxFrameSize
        /\ Len(frame) + k - 1 <= Len(Seen)
    BY <1>1, <2>2, <2>6
  <2>8. QED
    BY <1>2, <2>2, <2>7
<1>6. CASE Frames!GoBufferFull \/ Frames!GoEnd
  <2>1. ~Frames!HasLine /\ Frames!TooLarge(buffer)
    BY <1>6 DEF Frames!GoBufferFull, Frames!GoEnd, Frames!Fails, Frames!Delivers,
                    CalledTooLarge
  <2>2. Len(Seen) > MaxFrameSize
    BY <1>1, <2>1 DEF Frames!TooLarge
  <2>3. QED
    BY <1>1, <1>2, <1>3, <2>1, <2>2
<1>7. CASE Frames!PythonLine
  <2> DEFINE k == Frames!LineEnd
  <2>1. Frames!HasLine /\ reader = "python"
    BY <1>7 DEF Frames!PythonLine, Frames!PythonReads
  <2>2. k \in 1..Len(buffer) /\ Unbroken(Seen, Len(frame) + k - 1)
    BY <1>4, <2>1
  <2>3. k - 1 > MaxFrameSize
    BY <1>7 DEF Frames!PythonLine, Frames!Delivers, Frames!Fails, CalledTooLarge
  <2> HIDE DEF k
  <2>4. /\ Len(frame) + k - 1 \in Nat /\ Len(frame) + k - 1 > MaxFrameSize
        /\ Len(frame) + k - 1 <= Len(Seen)
    BY <1>1, <1>12, <2>1, <2>2, <2>3
  <2>5. QED
    BY <1>2, <2>2, <2>4
<1>8. CASE Frames!PythonOverfull
  <2>1. ~Frames!HasLine /\ Len(buffer) > MaxFrameSize
    BY <1>8 DEF Frames!PythonOverfull
  <2>2. Len(Seen) > MaxFrameSize
    BY <1>1, <2>1
  <2>3. QED
    BY <1>1, <1>2, <1>3, <2>1, <2>2
<1>9. CASE Frames!PythonEnd
  BY <1>9 DEF Frames!PythonEnd, Frames!Fails, CalledTooLarge
<1>10. CASE \/ Frames!WriteFrame \/ Frames!Write \/ Frames!WriteStray \/ Frames!Close
            \/ Frames!GoFill \/ Frames!Recv
  BY <1>10 DEF Frames!WriteFrame, Frames!Write, Frames!WriteStray, Frames!Close,
               Frames!GoFill, Frames!Recv, Frames!readerVars, CalledTooLarge
<1>11. QED
  BY <1>5, <1>6, <1>7, <1>8, <1>9, <1>10 DEF Frames!Next, Frames!ReaderStep

\* Whatever a stray writes, a reader calls a frame too large only when more than
\* MaxFrameSize bytes have come without a newline.
THEOREM FramesRejectOnlyLong == LinkSpec => RejectsOnlyLong
<1>1. LinkInit => FramesInv
  BY FramesStart
<1>2. FramesInv /\ [LinkNext]_<<vars, bytes>> => FramesInv'
  BY FramesStep
<1> DEFINE Rejects ==
      outcome = "none" /\ outcome' = "too large" =>
        LET seen == frame \o buffer IN
          /\ Len(seen) > MaxFrameSize
          /\ \A i \in 1..(MaxFrameSize + 1) : seen[i] # NewLine
<1>3. FramesInv /\ [LinkNext]_<<vars, bytes>> => [Rejects]_(Frames!vars)
  <2>1. ASSUME FramesInv, LinkNext, outcome = "none", outcome' = "too large"
        PROVE  Rejects
    <3>1. Frames!Next
      BY <2>1 DEF LinkNext, bytes
    <3>2. /\ Len(Seen) > MaxFrameSize
          /\ \A i \in 1..(MaxFrameSize + 1) : Seen[i] # NewLine
      BY <2>1, <3>1, TooLargeIsLong, Zenon DEF CalledTooLarge
    <3>3. QED
      BY <3>2 DEF Seen, Joined
  <2>2. ASSUME UNCHANGED <<vars, bytes>>
        PROVE  UNCHANGED Frames!vars
    BY <2>2 DEF bytes, Frames!vars, Frames!writerVars, Frames!readerVars
  <2>3. QED
    BY <2>1, <2>2
<1>4. QED
  BY <1>1, <1>2, <1>3, PTL DEF LinkSpec, RejectsOnlyLong, Frames!RejectsOnlyLong

-----------------------------------------------------------------------------
(* The session.                                                            *)

USE WorkerSessionAssumption
USE DEF session, files, proc, link, Goes, Returns, IfNotCancelled, Joins, Dies

BeforeSpawn == {"mkdir", "write", "listen", "token", "spawn"}

\* Until it is spawned there is no process, nobody is connected and nothing
\* is on the wire; the token is written last.
AcquiredKnown ==
  /\ pc \in BeforeSpawn =>
       process = "none" /\ daemon = "none" /\ conn = "none" /\ wire = "none"
  /\ pc \in {"mkdir", "write", "listen"} => endpoint = "none"
  /\ pc \in {"mkdir", "write", "listen", "token"} => ~token
  /\ pc \notin {"mkdir", "done", "killed by the system"} => dir
  /\ pc = "mkdir" => ~dir

\* Only a worker that has read the token, and so removed it, says anything.
TokenKnown ==
  /\ daemon \in {"connect", "greet", "serve", "introspect"} => ~token
  /\ wire # "none" => ~token
  /\ TalksToWorker

\* The deferred functions, one after the other.
ReleasedKnown ==
  /\ pc \in {"kill", "reap", "unlisten", "remove", "done"} => conn # "open"
  /\ pc \in {"reap", "unlisten", "remove", "done"} =>
       process # "alive" \/ cleanup
  /\ pc \in {"remove", "done"} => endpoint # "open"
  /\ pc = "done" => (~dir /\ ~token) \/ cleanup

\* What has become of the process.
CollectedKnown ==
  /\ reaped => pc \in {"hangup", "unlisten", "remove", "done",
                       "killed by the system"}
  /\ pc \in {"unlisten", "remove", "done"} =>
       process = "none" \/ reaped \/ cleanup
  /\ process = "alive" => dir \/ cleanup

FlagsOK ==
  /\ cancelled \in BOOLEAN /\ cleanup \in BOOLEAN
  /\ dir \in BOOLEAN /\ token \in BOOLEAN
  /\ reaped \in BOOLEAN /\ pending \in BOOLEAN

ResultOK == result \in [loaded : BOOLEAN, err : {"none", "error"}]

PcOK ==
  pc \in {"mkdir", "write", "listen", "token", "spawn", "accept", "hello",
          "load", "answer", "build", "serve", "stop", "exit", "killed",
          "hangup", "kill", "reap", "unlisten", "remove", "done",
          "killed by the system"}

\* The rest of TypeOK.
PlacesOK ==
  /\ token => dir
  /\ endpoint \in {"none", "open", "closed"}
  /\ process \in {"none", "alive", "dead"}
  /\ reaped => process = "dead"
  /\ daemon \in {"none", "boot", "connect", "greet", "serve", "introspect",
                 "gone"}
  /\ process = "alive" <=> daemon \notin {"none", "gone"}
  /\ conn \in {"none", "open", "closed"}
  /\ peer \in {"none", "worker", "stray"}
  /\ wire \in {"none", "hello", "load", "schema", "error", "shutdown"}
  /\ strays \in 0..MaxStrays

SessionInv ==
  /\ FlagsOK /\ ResultOK /\ PcOK /\ PlacesOK
  /\ AcquiredKnown /\ TokenKnown /\ ReleasedKnown /\ CollectedKnown

\* The flags are set to TRUE or FALSE by every step.
LEMMA FlagsStep == FlagsOK /\ [Next]_vars => FlagsOK'
  BY ZenonT(60) DEF FlagsOK, vars, Next, SessionStep, DaemonStep, Crash, Cancel, PogoDies, Running,
     MakeDirectory, WriteScripts, Listen, WriteToken, Spawn, Accept,
     HelloRejected, Authenticated, AuthenticationEnds, SendLoad, Loaded,
     LoadRefused, LoadFails, Build, Collects, WorkerExits, AskToStop, CloseClient,
     ExitAwaited, KillSlowWorker, KilledNotReaped, HangUp, Kill, Reap, Unlisten,
     RemoveDirectory, ReadToken, Connect, SayHello, Receive, Introspect

\* runSession moves between its places only.
LEMMA PcStep == PcOK /\ [Next]_vars => PcOK'
  BY DEF PcOK, vars, Next, SessionStep, DaemonStep, Crash, Cancel, PogoDies, Running,
     MakeDirectory, WriteScripts, Listen, WriteToken, Spawn, Accept,
     HelloRejected, Authenticated, AuthenticationEnds, SendLoad, Loaded,
     LoadRefused, LoadFails, Build, Collects, WorkerExits, AskToStop, CloseClient,
     ExitAwaited, KillSlowWorker, KilledNotReaped, HangUp, Kill, Reap, Unlisten,
     RemoveDirectory, ReadToken, Connect, SayHello, Receive, Introspect

\* Every return gives both results; Joins keeps the first of them.
LEMMA ResultStep == ResultOK /\ [Next]_vars => ResultOK'
<1> SUFFICES ASSUME ResultOK, [Next]_vars
             PROVE  ResultOK'
  OBVIOUS
<1> USE DEF ResultOK
<1>1. CASE Kill \/ Reap \/ Unlisten \/ RemoveDirectory
  <2>1. [result EXCEPT !.err = "error"] \in
          [loaded : BOOLEAN, err : {"none", "error"}]
    OBVIOUS
  <2>2. result' \in {result, [result EXCEPT !.err = "error"]}
    BY <1>1 DEF Kill, Reap, Unlisten, RemoveDirectory
  <2>3. QED
    BY <2>1, <2>2
<1>2. CASE WorkerExits
  BY <1>2 DEF WorkerExits, Collects
<1> DEFINE Returned == \E l \in BOOLEAN, e \in {"none", "error"} :
                        result' = [loaded |-> l, err |-> e]
<1>3. CASE Build
  <2>1. result' = result \/ Returned
    BY <1>3, Zenon DEF Build
  <2>2. QED
    BY <2>1
<1>4. CASE KillSlowWorker \/ KilledNotReaped \/ ExitAwaited
  <2>1. result' = result \/ Returned
    BY <1>4 DEF KillSlowWorker, KilledNotReaped, ExitAwaited
  <2>2. QED
    BY <2>1
<1>5. CASE MakeDirectory \/ WriteScripts \/ Listen \/ WriteToken \/ Spawn
           \/ Authenticated
  <2>1. result' = result \/ Returned
    BY <1>5 DEF MakeDirectory, WriteScripts, Listen, WriteToken, Spawn,
       Authenticated
  <2>2. QED
    BY <2>1
<1>6. CASE AuthenticationEnds \/ LoadRefused \/ LoadFails
  <2>1. result' = [loaded |-> FALSE, err |-> IfNotCancelled("error")]
    BY <1>6 DEF AuthenticationEnds, LoadRefused, LoadFails
  <2>2. Returned
    BY <2>1
  <2>3. QED
    BY <2>2
<1>7. CASE Accept \/ HelloRejected \/ SendLoad \/ Loaded \/ AskToStop
           \/ CloseClient \/ HangUp \/ DaemonStep \/ Crash \/ Cancel \/ PogoDies
           \/ UNCHANGED vars
  BY <1>7 DEF vars, Accept, HelloRejected, SendLoad, Loaded, AskToStop,
     CloseClient, HangUp, DaemonStep, ReadToken, Connect, SayHello, Receive,
     Introspect, Crash, Cancel, PogoDies
<1>8. QED
  BY <1>1, <1>2, <1>3, <1>4, <1>5, <1>6, <1>7 DEF Next, SessionStep

\* A session that has acquired nothing.
LEMMA InitInv == Init => SessionInv
<1> SUFFICES ASSUME Init
             PROVE  SessionInv
  OBVIOUS
<1> USE DEF Init
<1>1. FlagsOK /\ ResultOK /\ PcOK
  BY DEF FlagsOK, ResultOK, PcOK
<1> PlacesOK
  BY DEF PlacesOK
<1>2. AcquiredKnown
  BY DEF AcquiredKnown
<1>3. TokenKnown
  BY DEF TokenKnown, TalksToWorker, Talking
<1>4. ReleasedKnown
  BY DEF ReleasedKnown
<1>5. CollectedKnown
  BY DEF CollectedKnown
<1>6. QED
  BY <1>1, <1>2, <1>3, <1>4, <1>5 DEF SessionInv

\* The exit is received once, in serving, stopping or reaping, and the directory
\* is removed when nothing is left to be received.
LEMMA CollectedStep == SessionInv /\ [Next]_vars => CollectedKnown'
<1> SUFFICES ASSUME SessionInv, [Next]_vars
             PROVE  CollectedKnown'
  OBVIOUS
<1> FlagsOK /\ FlagsOK'
  BY FlagsStep DEF SessionInv
<1> USE DEF SessionInv, FlagsOK, PcOK, PlacesOK, AcquiredKnown, ReleasedKnown,
            CollectedKnown, BeforeSpawn
<1>1. CASE WorkerExits \/ ExitAwaited
  BY <1>1 DEF WorkerExits, ExitAwaited, Collects
<1>2. CASE Reap
  BY <1>2 DEF Reap, Collects
<1>3. CASE KillSlowWorker
  BY <1>3 DEF KillSlowWorker
<1>4. CASE Kill
  BY <1>4 DEF Kill
<1>5. CASE HangUp
  BY <1>5 DEF HangUp
<1>6. CASE MakeDirectory \/ WriteScripts \/ Listen \/ WriteToken \/ Spawn
  BY <1>6 DEF MakeDirectory, WriteScripts, Listen, WriteToken, Spawn
<1>7. CASE Accept \/ HelloRejected \/ Authenticated \/ AuthenticationEnds
  BY <1>7 DEF Accept, HelloRejected, Authenticated, AuthenticationEnds
<1>8. CASE SendLoad \/ Loaded \/ LoadRefused \/ LoadFails \/ Build
  BY <1>8 DEF SendLoad, Loaded, LoadRefused, LoadFails, Build
<1>9. CASE AskToStop \/ CloseClient \/ KilledNotReaped
  BY <1>9 DEF AskToStop, CloseClient, KilledNotReaped
<1>10. CASE Unlisten
  BY <1>10 DEF Unlisten
<1>11. CASE RemoveDirectory
  BY <1>11 DEF RemoveDirectory
<1>12. CASE DaemonStep \/ Crash
  <2>1. UNCHANGED <<pc, cleanup, dir, reaped>>
    BY <1>12 DEF DaemonStep, ReadToken, Connect, SayHello, Receive, Introspect,
       Crash
  <2>2. process' = process \/ (process = "alive" /\ process' = "dead")
    BY <1>12 DEF DaemonStep, ReadToken, Connect, SayHello, Receive, Introspect,
       Crash
  <2>3. QED
    BY <2>1, <2>2
<1>13. CASE Cancel \/ PogoDies
  BY <1>13 DEF Cancel, PogoDies, Running
<1>14. CASE UNCHANGED vars
  BY <1>14 DEF vars
<1>15. QED
  BY <1>1, <1>2, <1>3, <1>4, <1>5, <1>6, <1>7, <1>8, <1>9, <1>10, <1>11,
     <1>12, <1>13, <1>14 DEF Next, SessionStep

\* One case per action of the session, of the worker and of the rest of pogo.
LEMMA NextInv == SessionInv /\ [Next]_vars => SessionInv'
<1> SUFFICES ASSUME SessionInv, [Next]_vars
             PROVE  SessionInv'
  OBVIOUS
<1> FlagsOK /\ FlagsOK' /\ ResultOK' /\ PcOK' /\ CollectedKnown'
  BY FlagsStep, ResultStep, PcStep, CollectedStep DEF SessionInv
<1> USE DEF SessionInv, PlacesOK, AcquiredKnown, TokenKnown, ReleasedKnown,
            TalksToWorker, Talking, BeforeSpawn
<1>1. CASE SessionStep
  <2>1. CASE MakeDirectory
    <3> USE <2>1 DEF MakeDirectory
    <3>1. PlacesOK'
      OBVIOUS
    <3>2. AcquiredKnown'
      OBVIOUS
    <3>3. TokenKnown'
      OBVIOUS
    <3>4. ReleasedKnown'
      OBVIOUS
    <3>5. QED
      BY <3>1, <3>2, <3>3, <3>4
  <2>2. CASE WriteScripts
    BY <2>2 DEF WriteScripts
  <2>3. CASE Listen
    BY <2>3 DEF Listen
  <2>4. CASE WriteToken
    BY <2>4 DEF WriteToken
  <2>5. CASE Spawn
    BY <2>5 DEF Spawn
  <2>6. CASE Accept
    BY <2>6 DEF Accept
  <2>7. CASE HelloRejected
    BY <2>7 DEF HelloRejected, TokenMatches
  <2>8. CASE Authenticated
    BY <2>8 DEF Authenticated, HelloArrives, TokenMatches
  <2>9. CASE AuthenticationEnds
    BY <2>9 DEF AuthenticationEnds
  <2>10. CASE SendLoad
    BY <2>10 DEF SendLoad
  <2>11. CASE Loaded
    BY <2>11 DEF Loaded
  <2>12. CASE LoadRefused
    BY <2>12 DEF LoadRefused
  <2>13. CASE LoadFails
    BY <2>13 DEF LoadFails
  <2>14. CASE Build
    BY <2>14 DEF Build
  <2>15. CASE WorkerExits
    BY <2>15 DEF WorkerExits, Collects
  <2>16. CASE AskToStop
    BY <2>16 DEF AskToStop
  <2>17. CASE CloseClient
    BY <2>17 DEF CloseClient
  <2>18. CASE ExitAwaited
    BY <2>18 DEF ExitAwaited, Collects
  <2>19. CASE KillSlowWorker
    BY <2>19 DEF KillSlowWorker
  <2>20. CASE KilledNotReaped
    BY <2>20 DEF KilledNotReaped
  <2>21. CASE HangUp
    BY <2>21 DEF HangUp
  <2>22. CASE Kill
    BY <2>22 DEF Kill
  <2>23. CASE Reap
    BY <2>23 DEF Reap, Collects
  <2>24. CASE Unlisten
    BY <2>24 DEF Unlisten
  <2>25. CASE RemoveDirectory
    <3> USE <2>25 DEF RemoveDirectory
    <3> pc = "remove" /\ pc' = "done"
      OBVIOUS
    <3> daemon' = daemon /\ wire' = wire /\ peer' = peer
      BY Zenon
    <3> ~token => ~token'
      BY Zenon
    <3>1. PlacesOK'
      OBVIOUS
    <3>2. AcquiredKnown'
      OBVIOUS
    <3>3. TokenKnown'
      OBVIOUS
    <3>4. ReleasedKnown'
      OBVIOUS
    <3>5. QED
      BY <3>1, <3>2, <3>3, <3>4
  <2>26. QED
    BY <1>1, <2>1, <2>2, <2>3, <2>4, <2>5, <2>6, <2>7, <2>8, <2>9, <2>10,
       <2>11, <2>12, <2>13, <2>14, <2>15, <2>16, <2>17, <2>18, <2>19,
       <2>20, <2>21, <2>22, <2>23, <2>24, <2>25
       DEF SessionStep
<1>2. CASE DaemonStep
  <2>1. CASE ReadToken
    BY <2>1, ZenonT(60) DEF ReadToken
  <2>2. CASE Connect
    BY <2>2, ZenonT(60) DEF Connect
  <2>3. CASE SayHello
    BY <2>3, ZenonT(60) DEF SayHello
  <2>4. CASE Receive
    BY <2>4, ZenonT(60) DEF Receive
  <2>5. CASE Introspect
    BY <2>5, ZenonT(60) DEF Introspect
  <2>6. QED
    BY <1>2, <2>1, <2>2, <2>3, <2>4, <2>5 DEF DaemonStep
<1>4. CASE Cancel
  <2> USE <1>4 DEF Cancel, Running
  <2>1. PlacesOK'
    BY ZenonT(60)
  <2>2. AcquiredKnown'
    OBVIOUS
  <2>3. TokenKnown'
    OBVIOUS
  <2>4. ReleasedKnown'
    OBVIOUS
  <2>5. QED
    BY <2>1, <2>2, <2>3, <2>4
<1>3. CASE Crash
  BY <1>3, ZenonT(60) DEF Crash
<1>5. CASE PogoDies
  BY <1>5 DEF PogoDies, Running
<1>6. CASE UNCHANGED vars
  <2> USE <1>6 DEF vars
  <2>1. PlacesOK'
    BY ZenonT(60)
  <2>2. AcquiredKnown'
    OBVIOUS
  <2>3. TokenKnown'
    OBVIOUS
  <2>4. ReleasedKnown'
    OBVIOUS
  <2>5. QED
    BY <2>1, <2>2, <2>3, <2>4
<1>7. QED
  BY <1>1, <1>2, <1>3, <1>4, <1>5, <1>6 DEF Next

\* The inductive invariant of a session.
THEOREM SessionInvariant == Spec => []SessionInv
<1>1. QED
  BY InitInv, NextInv, PTL DEF Spec

\* Every variable has its type, and what is registered to be released exists.
THEOREM SessionTypes == Spec => []TypeOK
<1>1. SessionInv => TypeOK
  BY DEF SessionInv, FlagsOK, ResultOK, PcOK, PlacesOK, TypeOK,
     Talking
<1>2. QED
  BY <1>1, SessionInvariant, PTL

\* A session that ends without a cleanup error has released everything.
THEOREM SessionEndsClean == Spec => []CleanEnd
<1>1. SessionInv => CleanEnd
  BY DEF SessionInv, FlagsOK, PlacesOK, ReleasedKnown, CollectedKnown, CleanEnd
<1>2. QED
  BY <1>1, SessionInvariant, PTL

\* Nobody but the worker that presented the token is spoken to.
THEOREM WorkerAuthentic == Spec => []TalksToWorker
<1>1. SessionInv => TalksToWorker
  BY DEF SessionInv, TokenKnown
<1>2. QED
  BY <1>1, SessionInvariant, PTL

\* The same beside the frames: a session is as before while bytes go between the
\* two, and one that is over stays as it is.
THEOREM LinkedSessions == LinkSpec => []CleanEnd /\ []TalksToWorker
<1>1. LinkInit => SessionInv
  <2>1. Init => SessionInv
    BY InitInv
  <2>2. NoSession => SessionInv
    <3> SUFFICES ASSUME NoSession
                 PROVE  SessionInv
      OBVIOUS
    <3> USE DEF NoSession
    <3>1. FlagsOK /\ ResultOK /\ PcOK
      BY DEF FlagsOK, ResultOK, PcOK
    <3>2. PlacesOK
      BY DEF PlacesOK
    <3>3. AcquiredKnown /\ ReleasedKnown
      BY DEF AcquiredKnown, ReleasedKnown, BeforeSpawn
    <3>4. TokenKnown
      BY DEF TokenKnown, TalksToWorker, Talking
    <3>5. CollectedKnown
      BY DEF CollectedKnown
    <3>6. QED
      BY <3>1, <3>2, <3>3, <3>4, <3>5 DEF SessionInv
  <2>3. QED
    BY <2>1, <2>2 DEF LinkInit
<1>2. SessionInv /\ [LinkNext]_<<vars, bytes>> => SessionInv'
  <2>1. [LinkNext]_<<vars, bytes>> => [Next]_vars
    BY DEF LinkNext
  <2>2. QED
    BY <2>1, NextInv
<1>3. SessionInv => CleanEnd /\ TalksToWorker
  BY DEF SessionInv, FlagsOK, PlacesOK, ReleasedKnown, CollectedKnown, CleanEnd, TokenKnown
<1>4. QED
  BY <1>1, <1>2, <1>3, PTL DEF LinkSpec
=============================================================================
