------------------------- MODULE ResizeStreamProofs -------------------------
(***************************************************************************)
(* For any set of sizes, any number of typed bytes and of changes of the   *)
(* terminal's size, and however the stream is cut into reads: the matcher  *)
(* stays in its bounds, and while nobody types the beginning of the magic  *)
(* prefix, the shell gets what is typed and the PTY the sizes sent; and    *)
(* whatever is typed, where the reads end makes no difference.             *)
(***************************************************************************)
EXTENDS ResizeStream, SequenceTheorems, WellFoundedInduction, TLAPS

(* What the marks say at a place between two bytes, and at the start.      *)
TextAt(i) == IF i = 0 THEN 0 ELSE stream[i].text
MsgAt(i) == IF i = 0 THEN 0 ELSE stream[i].msg
PartAt(i) == IF i = 0 THEN 0 ELSE stream[i].part

(* The byte at i is the one its marks say.                                 *)
ByteIs(i) ==
  LET e == stream[i]
  IN  IF e.part = 0
      THEN /\ e.text \in 1..Len(typed) /\ e.msg \in 0..Len(sent)
           /\ e.b = typed[e.text]
           /\ i = e.text + 8 * e.msg
      ELSE /\ e.text \in 0..Len(typed) /\ e.msg \in 1..Len(sent)
           /\ e.b = (Magic \o sent[e.msg])[e.part]
           /\ i = e.text + 8 * (e.msg - 1) + e.part

(* All eight bytes of its message are where they should be, with nothing   *)
(* typed between them.                                                     *)
AllEight(i) ==
  \A j \in 1..8 :
    LET k == i - stream[i].part + j
    IN  /\ k \in 1..Len(stream)
        /\ stream[k].part = j
        /\ stream[k].msg = stream[i].msg
        /\ stream[k].text = stream[i].text

MessageIsWhole(i) ==
  AllEight(i) /\ TextAt(i - stream[i].part) = stream[i].text

(* No message begins where there is only text.                             *)
TextBeginsNoMessage ==
  \A p, q \in 0..Len(stream) :
    p <= q /\ (\A r \in (p + 1)..q : stream[r].part = 0) => MsgAt(q) = MsgAt(p)

StreamIsMixed ==
  /\ \A i \in 1..Len(stream) : ByteIs(i)
  /\ \A i \in 1..Len(stream) : stream[i].part # 0 => MessageIsWhole(i)
  /\ TextBeginsNoMessage
  /\ TextAt(Len(stream)) = Len(typed)
  /\ MsgAt(Len(stream)) = Len(sent)
  /\ PartAt(Len(stream)) \in {0, 8}

(* Before the first byte, before the guest reads, after it is done.        *)
Quiet ==
  /\ host \in {"start", "notify"} => stream = <<>> /\ typed = <<>> /\ sent = <<>>
  /\ guest = "handshake" =>
       /\ at = 0 /\ got = 0 /\ matchLen = 0
       /\ dims = <<>> /\ out = <<>> /\ applied = <<>>
  /\ guest = "copy" => dims = <<>>
  /\ guest = "dims" => at = got /\ matchLen = 0
  /\ guest = "done" => host = "ended"

(* The last size sent is the terminal's unless a signal says otherwise.    *)
LastIsCurrent ==
  host \in {"poll", "read"} /\ ~winch /\ sent # <<>> =>
    sent[Len(sent)] = window

(* Where the guest is between two bytes, and what it has let through.      *)
Let(t, m) == out = SubSeq(typed, 1, t) /\ applied = SubSeq(sent, 1, m)

BetweenItems ==
  /\ PartAt(at) \in {0, 8}
  /\ matchLen = 0
  /\ Let(TextAt(at), MsgAt(at))

HoldsOneByte ==
  /\ at > 0 /\ PartAt(at) = 0 /\ stream[at].b = "A"
  /\ matchLen = 1
  /\ Let(TextAt(at) - 1, MsgAt(at))

InMagic ==
  /\ PartAt(at) \in 1..3
  /\ matchLen = PartAt(at)
  /\ Let(TextAt(at), MsgAt(at) - 1)

InSize ==
  /\ PartAt(at) \in 4..7
  /\ dims = SubSeq(sent[MsgAt(at)], 1, PartAt(at) - 4)
  /\ Let(TextAt(at), MsgAt(at) - 1)

GuestFollows ==
  /\ guest = "copy" => BetweenItems \/ HoldsOneByte \/ InMagic
  /\ guest = "dims" => InSize
  /\ guest = "done" => out = typed /\ applied = sent

IInv ==
  /\ TypeOK
  /\ Quiet
  /\ LastIsCurrent
  /\ ~broken => StreamIsMixed
  /\ Undisturbed => GuestFollows

-----------------------------------------------------------------------------
(* What is at hand                                                         *)

LEMMA Appended ==
  ASSUME NEW S, NEW s \in Seq(S), NEW e \in S, NEW t, t = Append(s, e)
  PROVE  /\ t \in Seq(S)
         /\ Len(t) = Len(s) + 1 /\ t[Len(s) + 1] = e
         /\ \A i \in 1..Len(s) : t[i] = s[i]
BY AppendProperties

LEMMA Joined ==
  ASSUME NEW S, NEW s \in Seq(S), NEW u \in Seq(S), NEW t, t = s \o u
  PROVE  /\ t \in Seq(S)
         /\ Len(t) = Len(s) + Len(u)
         /\ \A i \in 1..Len(s) : t[i] = s[i]
         /\ \A i \in 1..Len(u) : t[Len(s) + i] = u[i]
<1>1. /\ s \o u \in Seq(S) /\ Len(s \o u) = Len(s) + Len(u)
      /\ \A i \in 1..Len(s) + Len(u) :
           (s \o u)[i] = IF i <= Len(s) THEN s[i] ELSE u[i - Len(s)]
  BY ConcatProperties, Zenon
<1>2. Len(s) \in Nat /\ Len(u) \in Nat
  BY LenProperties
<1>3. ASSUME NEW i \in 1..Len(s) PROVE (s \o u)[i] = s[i]
  <2>1. i \in 1..Len(s) + Len(u) /\ i <= Len(s)
    BY <1>2
  <2>. QED BY <1>1, <2>1, Zenon
<1>4. ASSUME NEW i \in 1..Len(u) PROVE (s \o u)[Len(s) + i] = u[i]
  <2>1. /\ Len(s) + i \in 1..Len(s) + Len(u) /\ ~(Len(s) + i <= Len(s))
        /\ (Len(s) + i) - Len(s) = i
    BY <1>2
  <2>. QED BY <1>1, <2>1, Zenon
<1>. QED BY <1>1, <1>3, <1>4, Zenon

(* A prefix and what follows it.                                           *)
LEMMA PrefixIs ==
  ASSUME NEW S, NEW s \in Seq(S), NEW a \in 0..Len(s)
  PROVE  /\ SubSeq(s, 1, a) \in Seq(S) /\ Len(SubSeq(s, 1, a)) = a
         /\ \A i \in 1..a : SubSeq(s, 1, a)[i] = s[i]
<1>1. \A i \in 1..a : s[i] \in S
  BY LenProperties
<1>. QED BY <1>1, LenProperties, SubSeqProperties

LEMMA PrefixOf ==
  ASSUME NEW S, NEW s \in Seq(S), NEW a \in 0..Len(s)
  PROVE  IsPrefix(SubSeq(s, 1, a), s)
<1>1. PICK u : u = SubSeq(s, 1, a)
  OBVIOUS
<1>2. u \in Seq(S) /\ Len(u) = a
  BY <1>1, PrefixIs, Zenon
<1>3. SubSeq(u, 1, a) = u
  BY <1>2, SubSeqFull, Zenon
<1>4. a <= Len(s)
  BY LenProperties
<1>. QED BY <1>1, <1>2, <1>3, <1>4, Zenon DEF IsPrefix

LEMMA SamePrefix ==
  ASSUME NEW S, NEW s \in Seq(S), NEW u \in Seq(S),
         NEW a \in 0..Len(s), a <= Len(u), \A i \in 1..a : s[i] = u[i]
  PROVE  SubSeq(s, 1, a) = SubSeq(u, 1, a)
<1>0. a \in 0..Len(u)
  BY LenProperties
<1>1. /\ SubSeq(s, 1, a) \in Seq(S) /\ Len(SubSeq(s, 1, a)) = a
      /\ \A i \in 1..a : SubSeq(s, 1, a)[i] = s[i]
  BY PrefixIs, Zenon
<1>2. /\ SubSeq(u, 1, a) \in Seq(S) /\ Len(SubSeq(u, 1, a)) = a
      /\ \A i \in 1..a : SubSeq(u, 1, a)[i] = u[i]
  BY <1>0, PrefixIs, Zenon
<1>. QED BY <1>1, <1>2, SeqEqual, Zenon

(* u is what s has after its first a elements.                             *)
Follows(s, a, u) ==
  a + Len(u) <= Len(s) /\ \A i \in 1..Len(u) : u[i] = s[a + i]

LEMMA Longer ==
  ASSUME NEW S, NEW s \in Seq(S), NEW a \in Nat, NEW u \in Seq(S),
         Follows(s, a, u)
  PROVE  SubSeq(s, 1, a) \o u = SubSeq(s, 1, a + Len(u))
<1>. PICK b : b = a + Len(u)
  OBVIOUS
<1>f. b <= Len(s) /\ \A i \in 1..Len(u) : u[i] = s[a + i]
  BY Zenon DEF Follows
<1>0. Len(s) \in Nat /\ Len(u) \in Nat
  BY LenProperties
<1>1. a \in 0..Len(s) /\ b \in 0..Len(s)
  BY <1>0, <1>f
<1>2. PICK v, w : v = SubSeq(s, 1, a) /\ w = v \o u
  OBVIOUS
<1>3. v \in Seq(S) /\ Len(v) = a /\ \A i \in 1..a : v[i] = s[i]
  BY <1>1, <1>2, PrefixIs, Zenon
<1>4. /\ w \in Seq(S) /\ Len(w) = Len(v) + Len(u)
      /\ \A i \in 1..Len(v) : w[i] = v[i]
      /\ \A i \in 1..Len(u) : w[Len(v) + i] = u[i]
  <2>1. v \in Seq(S) /\ w = v \o u
    BY <1>2, <1>3
  <2>. QED BY <2>1, Joined
<1>5. PICK x : x = SubSeq(s, 1, b)
  OBVIOUS
<1>6. x \in Seq(S) /\ Len(x) = b /\ \A i \in 1..b : x[i] = s[i]
  BY <1>1, <1>5, PrefixIs, Zenon
<1>7. ASSUME NEW i \in 1..Len(w) PROVE w[i] = x[i]
  <2>1. CASE i <= a
    <3>1. i \in 1..a /\ i \in 1..b /\ i \in 1..Len(v)
      BY <1>0, <1>3, <1>4, <2>1
    <3>. QED BY <1>3, <1>4, <1>6, <3>1, Zenon
  <2>2. CASE i > a
    <3>1. i - a \in 1..Len(u) /\ a + (i - a) = i /\ i \in 1..b
      BY <1>0, <1>3, <1>4, <2>2
    <3>2. w[i] = u[i - a]
      BY <1>3, <1>4, <3>1
    <3>3. u[i - a] = s[i]
      BY <1>f, <3>1, Zenon
    <3>. QED BY <1>6, <3>1, <3>2, <3>3, Zenon
  <2>. QED BY <1>0, <1>3, <1>4, <2>1, <2>2
<1>8. Len(w) = Len(x)
  BY <1>0, <1>3, <1>4, <1>6
<1>9. w = x
  BY <1>4, <1>6, <1>7, <1>8, SeqEqual, Zenon
<1>. QED BY <1>2, <1>5, <1>9, Zenon

LEMMA MinOfTwo ==
  ASSUME NEW a \in Nat, NEW b \in Nat
  PROVE  Min({a, b}) = IF a <= b THEN a ELSE b
BY DEF Min

LEMMA MagicIs == Magic \in Seq(Byte) /\ Len(Magic) = 4
BY DEF Magic, Byte

LEMMA FunctionsAreSeqs ==
  ASSUME NEW S, NEW n \in Nat, NEW s \in [1..n -> S]
  PROVE  s \in Seq(S) /\ Len(s) = n
OBVIOUS

LEMMA FoursAndEights ==
  ASSUME NEW S
  PROVE  /\ \A s \in [1..4 -> S] : s \in Seq(S) /\ Len(s) = 4
         /\ \A s \in [1..8 -> S] : s \in Seq(S) /\ Len(s) = 8
<1>1. 4 \in Nat /\ 8 \in Nat
  OBVIOUS
<1>. QED BY <1>1, FunctionsAreSeqs, Zenon

LEMMA MagicThenSize ==
  ASSUME NEW s \in Sizes
  PROVE  /\ \A i \in 1..4 : (Magic \o s)[i] = Magic[i]
         /\ \A i \in 5..8 : (Magic \o s)[i] = s[i - 4]
<1>1. s \in Seq(Byte) /\ Len(s) = 4
  BY SizesAssumption, FoursAndEights, Zenon
<1>2. /\ \A i \in 1..Len(Magic) : (Magic \o s)[i] = Magic[i]
      /\ \A i \in 1..Len(s) : (Magic \o s)[Len(Magic) + i] = s[i]
  <2>1. Magic \in Seq(Byte) /\ s \in Seq(Byte)
    BY <1>1, MagicIs
  <2>2. PICK t : t = Magic \o s
    OBVIOUS
  <2>3. /\ \A i \in 1..Len(Magic) : t[i] = Magic[i]
        /\ \A i \in 1..Len(s) : t[Len(Magic) + i] = s[i]
    BY <2>1, <2>2, Joined
  <2>. QED BY <2>2, <2>3, Zenon
<1>3. \A i \in 1..4 : (Magic \o s)[4 + i] = s[i]
  BY <1>1, <1>2, MagicIs, Zenon
<1>4. ASSUME NEW i \in 5..8 PROVE (Magic \o s)[i] = s[i - 4]
  <2>1. i - 4 \in 1..4 /\ 4 + (i - 4) = i
    OBVIOUS
  <2>. QED BY <1>3, <2>1, Zenon
<1>5. \A i \in 1..4 : (Magic \o s)[i] = Magic[i]
  BY <1>2, MagicIs, Zenon
<1>. QED BY <1>4, <1>5, Zenon

(* A message: eight bytes, the magic prefix and the size.                  *)
LEMMA MessageHas ==
  ASSUME NEW s \in Sizes, typed \in Seq(Byte), sent \in Seq(Sizes)
  PROVE  /\ Message(s) \in Seq(MarkedByte) /\ Len(Message(s)) = 8
         /\ \A i \in 1..8 :
              Message(s)[i] = [b |-> (Magic \o s)[i], text |-> Len(typed),
                               msg |-> Len(sent) + 1, part |-> i]
<1>. DEFINE u == Magic \o s
            e(i) == [b |-> u[i], text |-> Len(typed),
                     msg |-> Len(sent) + 1, part |-> i]
<1>1. s \in Seq(Byte) /\ Len(s) = 4
  BY SizesAssumption, FoursAndEights, Zenon
<1>2. u \in Seq(Byte) /\ Len(u) = Len(Magic) + Len(s)
  BY <1>1, MagicIs, ConcatProperties, Zenon
<1>3. Len(u) = 8
  BY <1>1, <1>2, MagicIs
<1>4. Len(typed) \in Nat /\ Len(sent) + 1 \in Nat
  BY LenProperties
<1>5. ASSUME NEW i \in 1..8 PROVE e(i) \in MarkedByte
  <2>1. u[i] \in Byte
    BY <1>2, <1>3, ElementOfSeq, Zenon
  <2>. HIDE DEF u
  <2>. QED BY <1>4, <2>1 DEF MarkedByte
<1>6. [i \in 1..8 |-> e(i)] \in [1..8 -> MarkedByte]
  BY <1>5, Zenon
<1>7. Message(s) = [i \in 1..8 |-> e(i)]
  BY DEF Message
<1>8. Message(s) \in Seq(MarkedByte) /\ Len(Message(s)) = 8
  <2>1. Message(s) \in [1..8 -> MarkedByte]
    BY <1>6, <1>7, Zenon
  <2>. QED BY <2>1, SizesAssumption, FoursAndEights, Zenon
<1>9. \A i \in 1..8 : Message(s)[i] = e(i)
  BY <1>7, Zenon
<1>. QED BY <1>8, <1>9, Zenon

(* Bytes of a stretch of the stream.                                       *)
LEMMA BytesOf ==
  ASSUME stream \in Seq(MarkedByte), NEW p \in Nat, NEW q \in Nat,
         p <= q, q <= Len(stream)
  PROVE  LET s == Bytes(SubSeq(stream, p + 1, q))
         IN  /\ s \in Seq(Byte) /\ Len(s) = q - p
             /\ \A i \in 1..(q - p) : s[i] = stream[p + i].b
<1>. DEFINE u == SubSeq(stream, p + 1, q)
            n == q - p
<1>1. \A i \in (p + 1)..q : stream[i] \in MarkedByte
  BY ElementOfSeq
<1>2. u \in Seq(MarkedByte) /\ Len(u) = n /\ \A i \in 1..n : u[i] = stream[p + i]
  BY <1>1, SubSeqProperties
<1>3. u \in [1..n -> MarkedByte] /\ DOMAIN u = 1..n
  BY <1>2, LenProperties
<1>4. \A i \in 1..n : u[i].b \in Byte
  BY <1>3 DEF MarkedByte
<1>5. Bytes(u) \in [1..n -> Byte] /\ \A i \in 1..n : Bytes(u)[i] = u[i].b
  BY <1>3, <1>4 DEF Bytes
<1>6. n \in Nat
  OBVIOUS
<1>7. Bytes(u) \in Seq(Byte) /\ Len(Bytes(u)) = n
  BY <1>5, <1>6, FunctionsAreSeqs, Zenon
<1>. QED BY <1>2, <1>5, <1>7

LEMMA MagicPart ==
  ASSUME NEW n \in 0..4
  PROVE  LET s == SubSeq(Magic, 1, n)
         IN  /\ s \in Seq(Byte) /\ Len(s) = n
             /\ \A i \in 1..n : s[i] = Magic[i]
<1>1. \A i \in 1..4 : Magic[i] \in Byte
  BY MagicIs, ElementOfSeq, Zenon
<1>2. \A i \in 1..n : Magic[i] \in Byte
  BY <1>1
<1>. QED BY <1>2, SubSeqProperties

LEMMA FirstBytes ==
  ASSUME stream \in Seq(MarkedByte), NEW n \in 0..Len(stream)
  PROVE  LET s == Bytes(SubSeq(stream, 1, n))
         IN  /\ s \in Seq(Byte) /\ Len(s) = n
             /\ \A i \in 1..n : s[i] = stream[i].b
<1>1. 0 \in Nat /\ n \in Nat /\ 0 <= n /\ n <= Len(stream)
      /\ 0 + 1 = 1 /\ n - 0 = n /\ \A i \in 1..n : 0 + i = i
  BY LenProperties
<1>2. LET s == Bytes(SubSeq(stream, 0 + 1, n))
      IN  /\ s \in Seq(Byte) /\ Len(s) = n - 0
          /\ \A i \in 1..(n - 0) : s[i] = stream[0 + i].b
  BY <1>1, BytesOf, Zenon
<1>. QED BY <1>1, <1>2, Zenon

(* The bytes the guest takes in one step.                                  *)
LEMMA AheadIs ==
  ASSUME stream \in Seq(MarkedByte), at \in Nat, NEW n \in Nat,
         at + n <= Len(stream)
  PROVE  /\ Ahead(n) \in Seq(Byte) /\ Len(Ahead(n)) = n
         /\ \A i \in 1..n : Ahead(n)[i] = stream[at + i].b
<1>1. at + n \in Nat /\ at <= at + n /\ (at + n) - at = n
  OBVIOUS
<1>2. LET s == Bytes(SubSeq(stream, at + 1, at + n))
      IN  /\ s \in Seq(Byte) /\ Len(s) = (at + n) - at
          /\ \A i \in 1..((at + n) - at) : s[i] = stream[at + i].b
  BY <1>1, BytesOf, Zenon
<1>. QED BY <1>1, <1>2, Zenon DEF Ahead

(* A size that is full is applied and another one kept.                    *)
LEMMA FillDoes ==
  ASSUME NEW size \in Seq(Byte), Len(size) <= 4, Fill(size),
         applied \in Seq([1..4 -> Byte])
  PROVE  /\ dims' \in Seq(Byte) /\ Len(dims') < 4
         /\ guest' \in {"copy", "dims"}
         /\ dims' # <<>> => guest' = "dims"
         /\ applied' \in Seq([1..4 -> Byte])
<1>1. Len(size) \in Nat /\ size \in [1..Len(size) -> Byte]
  BY LenProperties, Zenon
<1>2. CASE Len(size) = 4
  <2>1. size \in [1..4 -> Byte]
    BY <1>1, <1>2, Zenon
  <2>2. applied' = Append(applied, size) /\ dims' = <<>> /\ guest' = "copy"
    BY <1>2 DEF Fill
  <2>3. applied' \in Seq([1..4 -> Byte])
    BY <2>1, <2>2, AppendProperties, Zenon
  <2>. QED BY <2>2, <2>3
<1>3. CASE Len(size) # 4
  BY <1>1, <1>3 DEF Fill
<1>. QED BY <1>2, <1>3

-----------------------------------------------------------------------------
(* Type correctness: TypeOK is inductive                                   *)

LEMMA InitType == Init => TypeOK
<1>1. /\ <<>> \in Seq(MarkedByte) /\ <<>> \in Seq(Byte) /\ <<>> \in Seq(Sizes)
      /\ <<>> \in Seq([1..4 -> Byte]) /\ Len(<<>>) = 0
  BY EmptySeq, Zenon
<1>2. Init => /\ stream \in Seq(MarkedByte) /\ typed \in Seq(Byte)
              /\ sent \in Seq(Sizes) /\ dims \in Seq(Byte) /\ out \in Seq(Byte)
              /\ applied \in Seq([1..4 -> Byte])
              /\ Len(stream) = 0 /\ Len(typed) = 0 /\ Len(dims) = 0
  BY <1>1, Zenon DEF Init
<1>3. Init => /\ changes = 0 /\ matchLen = 0 /\ raw = 0 /\ at = 0 /\ got = 0
              /\ window \in Sizes /\ winch \in BOOLEAN /\ broken \in BOOLEAN
              /\ host = "start" /\ guest = "handshake" /\ dims = <<>>
  BY Zenon DEF Init
<1>. QED BY <1>2, <1>3, BoundsAssumption DEF TypeOK

LEMMA HostType ==
  ASSUME TypeOK,
         \/ \E s \in Sizes : Resize(s)
         \/ SendHandshake \/ Notify \/ PollWinch \/ SendResize
         \/ \E b \in Byte : Type(b)
         \/ ReadTimeout \/ StdinEnds \/ Break
  PROVE  TypeOK'
<1>. USE DEF TypeOK, hostVars, guestVars
<1>1. ASSUME NEW s \in Sizes, Resize(s) PROVE TypeOK'
  BY <1>1, BoundsAssumption DEF Resize
<1>2. CASE SendHandshake
  BY <1>2 DEF SendHandshake, HostAt
<1>3. CASE Notify
  BY <1>3 DEF Notify, HostAt
<1>4. CASE PollWinch
  BY <1>4 DEF PollWinch, HostAt
<1>5. CASE SendResize
  <2>0. Message(window) \in Seq(MarkedByte) /\ Len(Message(window)) = 8
    BY MessageHas, Zenon
  <2>1. stream' \in Seq(MarkedByte) /\ Len(stream') = Len(stream) + 8
    <3>1. stream' = stream \o Message(window)
      BY <1>5 DEF SendResize
    <3>2. /\ stream \o Message(window) \in Seq(MarkedByte)
          /\ Len(stream \o Message(window)) = Len(stream) + Len(Message(window))
      BY <2>0, ConcatProperties, Zenon
    <3>. QED BY <2>0, <3>1, <3>2, Zenon
  <2>2. sent' \in Seq(Sizes)
    BY <1>5, AppendProperties, Zenon DEF SendResize
  <2>3. got \in 0..Len(stream')
    BY <2>1, LenProperties
  <2>. QED BY <1>5, <2>1, <2>2, <2>3 DEF SendResize, HostAt
<1>6. ASSUME NEW b \in Byte, Type(b) PROVE TypeOK'
  <2>. DEFINE e == [b |-> b, text |-> Len(typed) + 1, msg |-> Len(sent),
                    part |-> 0]
  <2>1. e \in MarkedByte
    BY LenProperties DEF MarkedByte
  <2>2. stream' \in Seq(MarkedByte) /\ Len(stream') = Len(stream) + 1
    BY <1>6, <2>1, AppendProperties, Zenon DEF Type
  <2>3. typed' \in Seq(Byte) /\ Len(typed') = Len(typed) + 1
    BY <1>6, AppendProperties, Zenon DEF Type
  <2>4. Len(typed') <= MaxTyped
    BY <1>6, <2>3, BoundsAssumption, LenProperties DEF Type
  <2>5. got \in 0..Len(stream')
    BY <2>2, LenProperties
  <2>. QED BY <1>6, <2>2, <2>3, <2>4, <2>5 DEF Type, HostAt
<1>7. CASE ReadTimeout
  BY <1>7 DEF ReadTimeout, HostAt
<1>8. CASE StdinEnds
  BY <1>8 DEF StdinEnds, HostAt
<1>9. CASE Break
  <2>1. \A i \in 1..got : stream[i] \in MarkedByte
    BY ElementOfSeq
  <2>2. stream' \in Seq(MarkedByte) /\ Len(stream') = got
    BY <1>9, <2>1, SubSeqProperties DEF Break
  <2>3. got \in 0..Len(stream')
    BY <2>2
  <2>. QED BY <1>9, <2>2, <2>3 DEF Break
<1>. QED BY <1>1, <1>2, <1>3, <1>4, <1>5, <1>6, <1>7, <1>8, <1>9

(* The bytes after the prefix that a read already has, at most four.       *)
Size == Bytes(SubSeq(stream, at + 2, Min({at + 5, got})))

LEMMA LastByte ==
  ASSUME TypeOK, at < got
  PROVE  /\ at + 5 \in Nat /\ got \in Nat
         /\ Min({at + 5, got}) \in (at + 1)..got
         /\ Min({at + 5, got}) <= at + 5
         /\ Min({at + 5, got}) = at + 5 \/ Min({at + 5, got}) = got
         /\ Size \in Seq(Byte) /\ Len(Size) = Min({at + 5, got}) - (at + 1)
         /\ \A i \in 1..Len(Size) : Size[i] = stream[at + 1 + i].b
<1>1. at + 5 \in Nat /\ got \in Nat
  BY LenProperties DEF TypeOK
<1>2. Min({at + 5, got}) = IF at + 5 <= got THEN at + 5 ELSE got
  BY <1>1, MinOfTwo, Zenon
<1>. DEFINE last == Min({at + 5, got})
<1>3. last \in (at + 1)..got /\ last <= at + 5 /\ (last = at + 5 \/ last = got)
  BY <1>1, <1>2 DEF TypeOK
<1>. HIDE DEF last
<1>4. /\ at + 1 \in Nat /\ last \in Nat /\ at + 1 <= last /\ last <= Len(stream)
      /\ (at + 1) + 1 = at + 2
  BY <1>3, LenProperties DEF TypeOK
<1>5. LET s == Bytes(SubSeq(stream, (at + 1) + 1, last))
      IN  /\ s \in Seq(Byte) /\ Len(s) = last - (at + 1)
          /\ \A i \in 1..(last - (at + 1)) : s[i] = stream[at + 1 + i].b
  BY <1>4, BytesOf, Zenon DEF TypeOK
<1>6. Size = Bytes(SubSeq(stream, (at + 1) + 1, last))
  BY <1>4, Zenon DEF Size, last
<1>. QED BY <1>1, <1>3, <1>5, <1>6, Zenon DEF last

LEMMA GuestType ==
  ASSUME TypeOK,
         \/ \E k \in 0..Len(stream) : Handshake(k)
         \/ Read \/ Match \/ MatchLast \/ Flush \/ Copy
         \/ \E k \in 1..Min({4, Len(stream) - got}) : ReadDims(k)
         \/ EndOfInput
  PROVE  TypeOK'
<1>. USE DEF TypeOK, hostVars
<1>0. Len(stream) \in Nat
  BY LenProperties
<1>1. ASSUME NEW k \in 0..Len(stream), Handshake(k) PROVE TypeOK'
  <2>1. out' \in Seq(Byte)
    BY <1>0, <1>1, FirstBytes, Zenon DEF Handshake
  <2>. QED BY <1>0, <1>1, <2>1 DEF Handshake
<1>2. CASE Read
  BY <1>0, <1>2 DEF Read
<1>3. CASE Match
  BY <1>0, <1>3 DEF Match
<1>4. CASE MatchLast
  <2>. DEFINE last == Min({at + 5, got})
  <2>1. /\ last \in (at + 1)..got /\ last <= at + 5
        /\ Size \in Seq(Byte) /\ Len(Size) = last - (at + 1)
    BY <1>4, LastByte, Zenon DEF MatchLast
  <2>3. Fill(Size) /\ at' = last
    BY <1>4, Zenon DEF MatchLast, Size
  <2>. HIDE DEF last
  <2>4. Len(Size) <= 4
    BY <2>1
  <2>5. /\ dims' \in Seq(Byte) /\ Len(dims') < 4
        /\ guest' \in {"copy", "dims"}
        /\ dims' # <<>> => guest' = "dims"
        /\ applied' \in Seq([1..4 -> Byte])
    BY <2>1, <2>3, <2>4, FillDoes, Zenon
  <2>. QED BY <1>0, <1>4, <2>1, <2>3, <2>5 DEF MatchLast
<1>5. CASE Flush
  <2>1. SubSeq(Magic, 1, matchLen) \in Seq(Byte)
    BY MagicPart
  <2>2. out \o SubSeq(Magic, 1, matchLen) \in Seq(Byte)
    BY <2>1, ConcatProperties, Zenon
  <2>. QED BY <1>5, <2>2 DEF Flush
<1>6. CASE Copy
  <2>1. PICK n \in 1..(got - at) : out' = out \o Ahead(n) /\ at' = at + n
    BY <1>6 DEF Copy
  <2>2. n \in Nat /\ at \in Nat /\ at + n <= Len(stream)
    BY <1>0, <1>6 DEF Copy
  <2>3. Ahead(n) \in Seq(Byte)
    BY <2>2, AheadIs
  <2>4. out' \in Seq(Byte)
    BY <2>1, <2>3, ConcatProperties, Zenon
  <2>. QED BY <1>0, <1>6, <2>1, <2>4 DEF Copy
<1>7. ASSUME NEW k \in 1..Min({4, Len(stream) - got}), ReadDims(k) PROVE TypeOK'
  <2>0. 4 \in Nat /\ Len(stream) - got \in Nat
    BY <1>0
  <2>1. k \in Nat /\ k <= 4 /\ k <= Len(stream) - got
    <3>1. Min({4, Len(stream) - got}) =
            IF 4 <= Len(stream) - got THEN 4 ELSE Len(stream) - got
      BY <2>0, MinOfTwo, Zenon
    <3>. QED BY <2>0, <3>1
  <2>2. at \in Nat /\ at + k <= Len(stream)
    BY <1>0, <2>1
  <2>3. Ahead(k) \in Seq(Byte) /\ Len(Ahead(k)) = k
    BY <2>1, <2>2, AheadIs
  <2>4. /\ dims \o Ahead(k) \in Seq(Byte)
        /\ Len(dims \o Ahead(k)) = Len(dims) + Len(Ahead(k))
    BY <2>3, ConcatProperties, Zenon
  <2>5. Len(dims \o Ahead(k)) <= 4
    BY <1>7, <2>1, <2>3, <2>4, LenProperties DEF ReadDims
  <2>6. /\ dims' \in Seq(Byte) /\ Len(dims') < 4
        /\ guest' \in {"copy", "dims"}
        /\ dims' # <<>> => guest' = "dims"
        /\ applied' \in Seq([1..4 -> Byte])
    BY <1>7, <2>4, <2>5, FillDoes, Zenon DEF ReadDims
  <2>. QED BY <1>0, <1>7, <2>1, <2>6 DEF ReadDims
<1>8. CASE EndOfInput
  <2>1. SubSeq(Magic, 1, matchLen) \in Seq(Byte)
    BY MagicPart
  <2>2. out \o SubSeq(Magic, 1, matchLen) \in Seq(Byte)
    BY <2>1, ConcatProperties, Zenon
  <2>. QED BY <1>8, <2>2 DEF EndOfInput
<1>. QED BY <1>1, <1>2, <1>3, <1>4, <1>5, <1>6, <1>7, <1>8

LEMMA TypeStep == TypeOK /\ [Next]_vars => TypeOK'
<1>1. ASSUME TypeOK, UNCHANGED vars PROVE TypeOK'
  BY <1>1 DEF TypeOK, vars, hostVars, guestVars
<1>. QED BY <1>1, HostType, GuestType, Zenon DEF Next

(* The places in the stream and the partial matches stay in their ranges,  *)
(* whatever is typed and however it is read (resize.go:54-107).            *)
THEOREM TypeCorrect == Spec => []TypeOK
BY InitType, TypeStep, PTL DEF Spec

-----------------------------------------------------------------------------
(* What holds before, after and between                                    *)

HostActs ==
  \/ \E s \in Sizes : Resize(s)
  \/ SendHandshake \/ Notify \/ PollWinch \/ SendResize
  \/ \E b \in Byte : Type(b)
  \/ ReadTimeout \/ StdinEnds \/ Break

GuestActs ==
  \/ \E k \in 0..Len(stream) : Handshake(k)
  \/ Read \/ Match \/ MatchLast \/ Flush \/ Copy
  \/ \E k \in 1..Min({4, Len(stream) - got}) : ReadDims(k)
  \/ EndOfInput

LEMMA Actors == Next => HostActs \/ GuestActs
BY Zenon DEF Next, HostActs, GuestActs

LEMMA QuietStep == ASSUME TypeOK, Quiet, [Next]_vars PROVE Quiet'
<1>. USE DEF Quiet
<1>1. CASE UNCHANGED vars
  BY <1>1 DEF vars, hostVars, guestVars
<1>2. CASE HostActs
  <2>1. /\ host' \in {"start", "notify"} =>
             /\ host \in {"start", "notify"}
             /\ stream' = stream /\ typed' = typed /\ sent' = sent
        /\ host = "ended" => host' = "ended"
        /\ UNCHANGED guestVars
    BY <1>2 DEF HostActs, Resize, SendHandshake, Notify, PollWinch, SendResize,
                Type, ReadTimeout, StdinEnds, Break, HostAt
  <2>. QED BY <2>1 DEF guestVars
<1>3. CASE GuestActs
  <2>1. UNCHANGED hostVars /\ guest' # "handshake"
    BY <1>3 DEF GuestActs, Handshake, Read, Match, MatchLast, Fill, Flush, Copy,
                ReadDims, EndOfInput
  <2>2. ASSUME NEW k \in 0..Len(stream), Handshake(k) PROVE Quiet'
    BY <2>1, <2>2 DEF Handshake, hostVars
  <2>3. CASE Read
    BY <2>1, <2>3 DEF Read, hostVars
  <2>4. CASE Match
    BY <2>1, <2>4 DEF Match, hostVars
  <2>5. CASE MatchLast
    <3>1. Fill(Size) /\ at' = Min({at + 5, got}) /\ got' = got /\ matchLen' = 0
      BY <2>5, Zenon DEF MatchLast, Size
    <3>2. /\ Len(Size) = Min({at + 5, got}) - (at + 1) /\ at \in Nat
          /\ Min({at + 5, got}) = at + 5 \/ Min({at + 5, got}) = got
      BY <2>5, LastByte, LenProperties DEF MatchLast, TypeOK
    <3>3. Len(Size) # 4 => at' = got'
      BY <3>1, <3>2
    <3>. QED BY <2>1, <3>1, <3>3 DEF Fill, hostVars
  <2>6. CASE Flush
    BY <2>1, <2>6 DEF Flush, hostVars
  <2>7. CASE Copy
    BY <2>1, <2>7 DEF Copy, hostVars
  <2>8. ASSUME NEW k \in 1..Min({4, Len(stream) - got}), ReadDims(k) PROVE Quiet'
    BY <2>1, <2>8 DEF ReadDims, Fill, hostVars
  <2>9. CASE EndOfInput
    BY <2>1, <2>9 DEF EndOfInput, AtEOF, hostVars
  <2>. QED BY <1>3, <2>2, <2>3, <2>4, <2>5, <2>6, <2>7, <2>8, <2>9 DEF GuestActs
<1>. QED BY <1>1, <1>2, <1>3, Actors

LEMMA LastStep ==
  ASSUME TypeOK, Quiet, LastIsCurrent, [Next]_vars
  PROVE  LastIsCurrent'
<1>. USE DEF LastIsCurrent
<1>1. CASE UNCHANGED hostVars
  BY <1>1 DEF hostVars
<1>2. CASE SendResize
  <2>1. sent' = Append(sent, window) /\ window \in Sizes /\ window' = window
    BY <1>2 DEF SendResize, TypeOK
  <2>2. sent \in Seq(Sizes)
    BY DEF TypeOK
  <2>3. Len(sent') = Len(sent) + 1 /\ sent'[Len(sent) + 1] = window
    BY <2>1, <2>2, AppendProperties, Zenon
  <2>4. sent'[Len(sent')] = window'
    BY <2>1, <2>3, Zenon
  <2>. QED BY <2>4, Zenon
<1>3. CASE HostActs /\ ~SendResize
  <2>1. ASSUME NEW s \in Sizes, Resize(s) PROVE LastIsCurrent'
    BY <2>1 DEF Resize
  <2>2. CASE Notify
    BY <2>2 DEF Notify, HostAt, Quiet
  <2>3. CASE PollWinch
    BY <2>3 DEF PollWinch, HostAt, TypeOK
  <2>4. CASE \/ SendHandshake \/ \E b \in Byte : Type(b)
             \/ ReadTimeout \/ StdinEnds \/ Break
    BY <2>4 DEF SendHandshake, Type, ReadTimeout, StdinEnds, Break, HostAt
  <2>. QED BY <1>3, <2>1, <2>2, <2>3, <2>4 DEF HostActs
<1>4. GuestActs \/ UNCHANGED vars => UNCHANGED hostVars
  BY DEF GuestActs, Handshake, Read, Match, MatchLast, Flush, Copy,
         ReadDims, EndOfInput, vars
<1>. QED BY <1>1, <1>2, <1>3, <1>4, Actors

-----------------------------------------------------------------------------
(* The stream is typed bytes and whole messages                            *)

LEMMA MarksOf ==
  ASSUME TypeOK, NEW i \in 1..Len(stream)
  PROVE  /\ stream[i] \in MarkedByte
         /\ stream[i].b \in Byte /\ stream[i].text \in Nat
         /\ stream[i].msg \in Nat /\ stream[i].part \in 0..8
<1>1. stream \in Seq(MarkedByte)
  BY DEF TypeOK
<1>2. stream[i] \in MarkedByte
  BY <1>1, ElementOfSeq, Zenon
<1>. QED BY <1>2 DEF MarkedByte

LEMMA Lengths ==
  ASSUME TypeOK
  PROVE  /\ Len(stream) \in Nat /\ Len(typed) \in Nat /\ Len(sent) \in Nat
         /\ at \in Nat /\ got \in Nat /\ at <= got /\ got <= Len(stream)
BY LenProperties DEF TypeOK

(* Between two items the marks count the bytes.                            *)
LEMMA BetweenIs ==
  ASSUME TypeOK, StreamIsMixed, NEW i \in 0..Len(stream), PartAt(i) \in {0, 8}
  PROVE  /\ TextAt(i) \in 0..Len(typed) /\ MsgAt(i) \in 0..Len(sent)
         /\ i = TextAt(i) + 8 * MsgAt(i)
<1>1. CASE i = 0
  BY <1>1, Lengths DEF TextAt, MsgAt
<1>2. CASE i # 0
  <2>1. i \in 1..Len(stream)
    BY <1>2, Lengths
  <2>2. ByteIs(i)
    BY <2>1, Zenon DEF StreamIsMixed
  <2>3. PICK e : e = stream[i]
    OBVIOUS
  <2>4. TextAt(i) = e.text /\ MsgAt(i) = e.msg /\ e.part \in {0, 8}
    BY <1>2, <2>3, Zenon DEF TextAt, MsgAt, PartAt
  <2>5. CASE e.part = 0
    <3>1. e.text \in 1..Len(typed) /\ e.msg \in 0..Len(sent)
          /\ i = e.text + 8 * e.msg
      BY <2>2, <2>3, <2>5, Zenon DEF ByteIs
    <3>2. e.text \in 0..Len(typed)
      BY <3>1
    <3>. QED BY <2>4, <3>1, <3>2, Zenon
  <2>6. CASE e.part = 8
    <3>1. e.text \in 0..Len(typed) /\ e.msg \in 1..Len(sent)
          /\ i = e.text + 8 * (e.msg - 1) + e.part
      <4>1. e.part # 0
        BY <2>6
      <4>. QED BY <2>2, <2>3, <4>1, Zenon DEF ByteIs
    <3>2. PICK x, y : x = e.text /\ y = e.msg
      OBVIOUS
    <3>3. x \in Nat /\ y \in Nat /\ i = x + 8 * (y - 1) + 8
      BY <2>6, <3>1, <3>2
    <3>4. i = x + 8 * y /\ y \in 0..Len(sent)
      BY <3>1, <3>2, <3>3
    <3>. QED BY <2>4, <3>1, <3>2, <3>4, Zenon
  <2>. QED BY <2>4, <2>5, <2>6, Zenon
<1>. QED BY <1>1, <1>2

LEMMA StreamLen ==
  ASSUME TypeOK, StreamIsMixed
  PROVE  Len(stream) = Len(typed) + 8 * Len(sent)
<1>1. Len(stream) \in 0..Len(stream) /\ PartAt(Len(stream)) \in {0, 8}
  BY Lengths DEF StreamIsMixed
<1>2. Len(stream) = TextAt(Len(stream)) + 8 * MsgAt(Len(stream))
  BY <1>1, BetweenIs, Zenon
<1>. QED BY <1>2, Zenon DEF StreamIsMixed

(* The history only grows while the connection lasts.                      *)
Grows ==
  /\ Len(stream') >= Len(stream) /\ Len(typed') >= Len(typed)
  /\ Len(sent') >= Len(sent)
  /\ \A i \in 1..Len(stream) : stream'[i] = stream[i]
  /\ \A i \in 1..Len(typed) : typed'[i] = typed[i]
  /\ \A i \in 1..Len(sent) : sent'[i] = sent[i]

LEMMA TypeGrows ==
  ASSUME TypeOK, NEW b \in Byte, Type(b)
  PROVE  /\ Grows
         /\ Len(stream') = Len(stream) + 1 /\ Len(typed') = Len(typed) + 1
         /\ Len(sent') = Len(sent) /\ sent' = sent
         /\ typed'[Len(typed) + 1] = b
         /\ stream'[Len(stream) + 1] =
              [b |-> b, text |-> Len(typed) + 1, msg |-> Len(sent), part |-> 0]
<1>. DEFINE e == [b |-> b, text |-> Len(typed) + 1, msg |-> Len(sent),
                  part |-> 0]
<1>1. /\ stream \in Seq(MarkedByte) /\ typed \in Seq(Byte)
      /\ stream' = Append(stream, e) /\ typed' = Append(typed, b)
      /\ sent' = sent
  BY DEF TypeOK, Type
<1>2. e \in MarkedByte
  BY Lengths DEF MarkedByte
<1>3. /\ Len(stream') = Len(stream) + 1 /\ stream'[Len(stream) + 1] = e
      /\ \A i \in 1..Len(stream) : stream'[i] = stream[i]
  BY <1>1, <1>2, Appended
<1>4. /\ Len(typed') = Len(typed) + 1 /\ typed'[Len(typed) + 1] = b
      /\ \A i \in 1..Len(typed) : typed'[i] = typed[i]
  BY <1>1, Appended
<1>5. /\ Len(stream') >= Len(stream) /\ Len(typed') >= Len(typed)
      /\ Len(sent') >= Len(sent)
  BY <1>1, <1>3, <1>4, Lengths
<1>. QED BY <1>1, <1>3, <1>4, <1>5, Zenon DEF Grows

LEMMA SendGrows ==
  ASSUME TypeOK, SendResize
  PROVE  /\ Grows
         /\ Len(stream') = Len(stream) + 8 /\ typed' = typed
         /\ Len(sent') = Len(sent) + 1
         /\ sent'[Len(sent) + 1] = window
         /\ \A i \in 1..8 : stream'[Len(stream) + i] =
              [b |-> (Magic \o window)[i], text |-> Len(typed),
               msg |-> Len(sent) + 1, part |-> i]
<1>1. /\ stream \in Seq(MarkedByte) /\ typed \in Seq(Byte)
      /\ sent \in Seq(Sizes) /\ window \in Sizes
      /\ stream' = stream \o Message(window) /\ sent' = Append(sent, window)
      /\ typed' = typed
  BY DEF TypeOK, SendResize
<1>2. /\ Message(window) \in Seq(MarkedByte) /\ Len(Message(window)) = 8
      /\ \A i \in 1..8 :
           Message(window)[i] = [b |-> (Magic \o window)[i], text |-> Len(typed),
                                 msg |-> Len(sent) + 1, part |-> i]
  BY <1>1, MessageHas, Zenon
<1>3. /\ Len(stream') = Len(stream) + Len(Message(window))
      /\ \A i \in 1..Len(stream) : stream'[i] = stream[i]
      /\ \A i \in 1..Len(Message(window)) :
           stream'[Len(stream) + i] = Message(window)[i]
  <2>1. /\ stream \in Seq(MarkedByte) /\ Message(window) \in Seq(MarkedByte)
        /\ stream' = stream \o Message(window)
    BY <1>1, <1>2
  <2>. QED BY <2>1, Joined
<1>4. Len(stream') = Len(stream) + 8
  BY <1>2, <1>3
<1>5. \A i \in 1..8 : stream'[Len(stream) + i] = Message(window)[i]
  BY <1>2, <1>3, Zenon
<1>7. /\ Len(sent') = Len(sent) + 1 /\ sent'[Len(sent) + 1] = window
      /\ \A i \in 1..Len(sent) : sent'[i] = sent[i]
  BY <1>1, Appended
<1>8. /\ Len(stream') >= Len(stream) /\ Len(typed') >= Len(typed)
      /\ Len(sent') >= Len(sent)
  BY <1>1, <1>4, <1>7, Lengths
<1>9. Grows
  BY <1>1, <1>3, <1>7, <1>8, Zenon DEF Grows
<1>. QED BY <1>1, <1>2, <1>4, <1>5, <1>7, <1>9, Zenon

LEMMA OldPlaces ==
  ASSUME TypeOK, Grows, NEW i \in 0..Len(stream)
  PROVE  TextAt(i)' = TextAt(i) /\ MsgAt(i)' = MsgAt(i) /\ PartAt(i)' = PartAt(i)
BY Lengths DEF Grows, TextAt, MsgAt, PartAt

(* What was mixed into the stream stays as it is.                          *)
LEMMA OldBytes ==
  ASSUME TypeOK, StreamIsMixed, Grows, NEW i \in 1..Len(stream)
  PROVE  /\ ByteIs(i)'
         /\ stream[i].part # 0 => MessageIsWhole(i)'
         /\ i \in 1..Len(stream')
         /\ stream'[i] = stream[i]
<1>0. /\ Len(typed) \in Nat /\ Len(typed') >= Len(typed)
      /\ Len(sent) \in Nat /\ Len(sent') >= Len(sent)
  BY Lengths, Zenon DEF Grows
<1>1. i \in 1..Len(stream') /\ stream'[i] = stream[i]
  BY Lengths DEF Grows
<1>2. ByteIs(i)'
  <2>1. ByteIs(i)
    BY DEF StreamIsMixed
  <2>2. CASE stream[i].part = 0
    <3>1. stream[i].text \in 1..Len(typed) /\ stream[i].msg \in 0..Len(sent)
      BY <2>1, <2>2, Zenon DEF ByteIs
    <3>2. typed'[stream[i].text] = typed[stream[i].text]
      BY <3>1, Zenon DEF Grows
    <3>3. stream[i].text \in 1..Len(typed') /\ stream[i].msg \in 0..Len(sent')
      BY <1>0, <3>1
    <3>. QED BY <1>1, <2>1, <2>2, <3>2, <3>3, Zenon DEF ByteIs
  <2>3. CASE stream[i].part # 0
    <3>1. stream[i].msg \in 1..Len(sent) /\ stream[i].text \in 0..Len(typed)
      BY <2>1, <2>3 DEF ByteIs
    <3>2. sent'[stream[i].msg] = sent[stream[i].msg]
      BY <3>1, Zenon DEF Grows
    <3>3. stream[i].msg \in 1..Len(sent') /\ stream[i].text \in 0..Len(typed')
      BY <1>0, <3>1
    <3>. QED BY <1>1, <2>1, <2>3, <3>2, <3>3, Zenon DEF ByteIs
  <2>. QED BY <2>2, <2>3
<1>3. ASSUME stream[i].part # 0 PROVE MessageIsWhole(i)'
  <2>1. MessageIsWhole(i)
    BY <1>3 DEF StreamIsMixed
  <2>2. stream[i].part \in 0..8
    BY MarksOf
  <2>3. ASSUME NEW j \in 1..8, NEW k, k = i - stream[i].part + j
        PROVE  /\ k \in 1..Len(stream')
               /\ stream'[k].part = j
               /\ stream'[k].msg = stream[i].msg
               /\ stream'[k].text = stream[i].text
    <3>1. /\ k \in 1..Len(stream) /\ stream[k].part = j
          /\ stream[k].msg = stream[i].msg /\ stream[k].text = stream[i].text
      BY <2>1, <2>3, Zenon DEF MessageIsWhole, AllEight
    <3>2. k \in 1..Len(stream') /\ stream'[k] = stream[k]
      BY <3>1, Lengths DEF Grows
    <3>. QED BY <3>1, <3>2
  <2>4. AllEight(i)'
    BY <1>1, <2>3, Zenon DEF AllEight
  <2>5. PICK k : k = i - stream[i].part
    OBVIOUS
  <2>6. k \in 0..Len(stream)
    <3>1. k + 1 \in 1..Len(stream)
      BY <2>1, <2>2, <2>5 DEF AllEight, MessageIsWhole
    <3>. QED BY <2>2, <2>5, <3>1
  <2>7. TextAt(k)' = stream[i].text
    BY <2>1, <2>5, <2>6, OldPlaces DEF MessageIsWhole
  <2>. QED BY <1>1, <2>4, <2>5, <2>7, Zenon DEF MessageIsWhole
<1>. QED BY <1>1, <1>2, <1>3

LEMMA OldText ==
  ASSUME TypeOK, StreamIsMixed, Grows,
         NEW p \in 0..Len(stream), NEW q \in 0..Len(stream),
         p <= q, \A r \in (p + 1)..q : stream'[r].part = 0
  PROVE  MsgAt(q)' = MsgAt(p)'
<1>1. ASSUME NEW r \in (p + 1)..q PROVE stream[r].part = 0
  <2>1. r \in 1..Len(stream)
    BY Lengths
  <2>. QED BY <2>1 DEF Grows
<1>2. MsgAt(q) = MsgAt(p)
  BY <1>1 DEF StreamIsMixed, TextBeginsNoMessage
<1>. QED BY <1>2, OldPlaces

LEMMA TypeMixes ==
  ASSUME TypeOK, StreamIsMixed, NEW b \in Byte, Type(b)
  PROVE  StreamIsMixed'
<1>0. PICK n \in Nat : n = Len(stream)
  BY Lengths
<1>1. /\ Grows /\ Len(stream') = n + 1 /\ Len(typed') = Len(typed) + 1
      /\ sent' = sent /\ typed'[Len(typed) + 1] = b
      /\ stream'[n + 1] =
           [b |-> b, text |-> Len(typed) + 1, msg |-> Len(sent), part |-> 0]
  BY <1>0, TypeGrows, Zenon
<1>2. n = Len(typed) + 8 * Len(sent)
  BY <1>0, StreamLen, Zenon
<1>3. n \in Nat /\ Len(typed) \in Nat /\ Len(sent) \in Nat
  BY Lengths
<1>4. /\ TextAt(n + 1)' = Len(typed) + 1 /\ MsgAt(n + 1)' = Len(sent)
      /\ PartAt(n + 1)' = 0
  BY <1>1, <1>3 DEF TextAt, MsgAt, PartAt
<1>5. ByteIs(n + 1)'
  BY <1>1, <1>2, <1>3 DEF ByteIs
<1>6. ASSUME NEW i \in 1..Len(stream')
      PROVE  ByteIs(i)' /\ (stream'[i].part # 0 => MessageIsWhole(i)')
  <2>1. i \in 1..n \/ i = n + 1
    BY <1>1, <1>3
  <2>. QED BY <1>1, <1>5, <2>1, OldBytes, <1>0
<1>7. ASSUME NEW p \in 0..Len(stream'), NEW q \in 0..Len(stream'),
             p <= q, \A r \in (p + 1)..q : stream'[r].part = 0
      PROVE  MsgAt(q)' = MsgAt(p)'
  <2>1. CASE q \in 0..n
    <3>1. p \in 0..n
      BY <1>3, <1>7, <2>1
    <3>. QED BY <1>1, <1>7, <2>1, <3>1, OldText, <1>0
  <2>2. CASE q = n + 1 /\ p \in 0..n
    <3>1. MsgAt(n)' = MsgAt(p)'
      BY <1>1, <1>3, <1>7, <2>2, OldText, <1>0
    <3>2. MsgAt(n)' = Len(sent)
      BY <1>1, <1>3, OldPlaces, <1>0 DEF StreamIsMixed
    <3>. QED BY <1>4, <2>2, <3>1, <3>2
  <2>3. CASE q = n + 1 /\ p = n + 1
    BY <2>3
  <2>. QED BY <1>1, <1>3, <1>7, <2>1, <2>2, <2>3
<1>8. /\ TextAt(Len(stream))' = Len(typed') /\ MsgAt(Len(stream))' = Len(sent')
      /\ PartAt(Len(stream))' \in {0, 8}
  BY <1>1, <1>4, Zenon
<1>9. TextBeginsNoMessage'
  BY <1>7, Zenon DEF TextBeginsNoMessage
<1>. QED BY <1>6, <1>8, <1>9, Zenon DEF StreamIsMixed

LEMMA SendMixes ==
  ASSUME TypeOK, StreamIsMixed, SendResize
  PROVE  StreamIsMixed'
<1>0. PICK n \in Nat, t \in Nat, m \in Nat :
        n = Len(stream) /\ t = Len(typed) /\ m = Len(sent)
  BY Lengths
<1>1. /\ Grows /\ Len(stream') = n + 8 /\ typed' = typed
      /\ Len(sent') = m + 1 /\ sent'[m + 1] = window
      /\ \A i \in 1..8 : stream'[n + i] =
           [b |-> (Magic \o window)[i], text |-> t, msg |-> m + 1, part |-> i]
  BY <1>0, SendGrows, Zenon
<1>2. n = t + 8 * m
  BY <1>0, StreamLen, Zenon
<1>3. ASSUME NEW i \in 1..8
      PROVE  /\ n + i \in 1..(n + 8)
             /\ stream'[n + i].part = i /\ stream'[n + i].msg = m + 1
             /\ stream'[n + i].text = t
             /\ stream'[n + i].b = (Magic \o window)[i]
  <2>1. stream'[n + i] =
          [b |-> (Magic \o window)[i], text |-> t, msg |-> m + 1, part |-> i]
    BY <1>1, Zenon
  <2>2. n + i \in 1..(n + 8)
    OBVIOUS
  <2>3. PICK x, e : x = (Magic \o window)[i] /\ e = stream'[n + i]
    BY Zenon
  <2>4. e = [b |-> x, text |-> t, msg |-> m + 1, part |-> i]
    BY <2>1, <2>3, Zenon
  <2>5. e.b = x /\ e.text = t /\ e.msg = m + 1 /\ e.part = i
    BY <2>4
  <2>. QED BY <2>2, <2>3, <2>5, Zenon
<1>4. ASSUME NEW i \in 1..8
      PROVE  ByteIs(n + i)' /\ MessageIsWhole(n + i)'
  <2>1. /\ stream'[n + i].part = i /\ stream'[n + i].msg = m + 1
        /\ stream'[n + i].text = t
        /\ stream'[n + i].b = (Magic \o sent'[m + 1])[i]
    BY <1>1, <1>3, Zenon
  <2>2. ByteIs(n + i)'
    <3>1. /\ i # 0 /\ t \in 0..Len(typed') /\ m + 1 \in 1..Len(sent')
          /\ n + i = t + 8 * ((m + 1) - 1) + i
      <4>1. Len(typed') = t /\ Len(sent') = m + 1
        BY <1>0, <1>1, Zenon
      <4>. QED BY <1>2, <4>1
    <3>. QED BY <2>1, <3>1, Zenon DEF ByteIs
  <2>3. MessageIsWhole(n + i)'
    <3>1. PICK q : q = n + i
      OBVIOUS
    <3>2. /\ stream'[q].part = i /\ stream'[q].msg = m + 1
          /\ stream'[q].text = t
      BY <2>1, <3>1, Zenon
    <3>3. ASSUME NEW j \in 1..8, NEW k, k = q - stream'[q].part + j
          PROVE  /\ k \in 1..Len(stream') /\ stream'[k].part = j
                 /\ stream'[k].msg = stream'[q].msg
                 /\ stream'[k].text = stream'[q].text
      <4>1. Len(stream') = n + 8
        BY <1>1, Zenon
      <4>2. k = n + j
        BY <3>1, <3>2, <3>3
      <4>. QED BY <1>3, <3>2, <4>1, <4>2, Zenon
    <3>4. AllEight(q)'
      BY <3>3, Zenon DEF AllEight
    <3>5. q - stream'[q].part = n
      BY <3>1, <3>2
    <3>6. TextAt(n)' = t
      <4>1. n \in 0..Len(stream) /\ TextAt(n) = t
        BY <1>0 DEF StreamIsMixed
      <4>. QED BY <1>1, <4>1, OldPlaces
    <3>7. MessageIsWhole(q)'
      BY <3>2, <3>4, <3>5, <3>6, Zenon DEF MessageIsWhole
    <3>. QED BY <3>1, <3>7, Zenon
  <2>. QED BY <2>2, <2>3
<1>5. ASSUME NEW i \in 1..Len(stream')
      PROVE  i \in 1..n \/ \E j \in 1..8 : i = n + j
  <2>0. Len(stream') = n + 8
    BY <1>1, Zenon
  <2>1. i \notin 1..n => i - n \in 1..8 /\ i = n + (i - n)
    BY <2>0
  <2>. QED BY <2>1
<1>6. ASSUME NEW i \in 1..Len(stream')
      PROVE  ByteIs(i)' /\ (stream'[i].part # 0 => MessageIsWhole(i)')
  <2>1. CASE i \in 1..n
    BY <1>0, <1>1, <2>1, OldBytes
  <2>2. CASE \E j \in 1..8 : i = n + j
    BY <1>4, <2>2
  <2>. QED BY <1>5, <2>1, <2>2
<1>7. ASSUME NEW p \in 0..Len(stream'), NEW q \in 0..Len(stream'),
             p <= q, \A r \in (p + 1)..q : stream'[r].part = 0
      PROVE  MsgAt(q)' = MsgAt(p)'
  <2>1. CASE p = q
    BY <2>1
  <2>2. CASE q \in 0..n
    <3>1. p \in 0..n
      BY <1>7, <2>2
    <3>. QED BY <1>0, <1>1, <1>7, <2>2, <3>1, OldText, Zenon
  <2>3. CASE p # q /\ q \notin 0..n
    <3>1. q \in (p + 1)..q /\ q \in 1..Len(stream') /\ q \notin 1..n
      BY <1>1, <1>7, <2>3
    <3>2. PICK j \in 1..8 : q = n + j
      BY <1>5, <3>1
    <3>3. stream'[q].part = 0 /\ stream'[q].part = j
      BY <1>3, <1>7, <3>1, <3>2, Zenon
    <3>. QED BY <3>3
  <2>. QED BY <2>1, <2>2, <2>3
<1>8. /\ TextAt(Len(stream))' = Len(typed') /\ MsgAt(Len(stream))' = Len(sent')
      /\ PartAt(Len(stream))' \in {0, 8}
  <2>1. /\ TextAt(n + 8)' = t /\ MsgAt(n + 8)' = m + 1 /\ PartAt(n + 8)' = 8
    <3>1. 8 \in 1..8 /\ n + 8 # 0
      BY <1>0
    <3>. QED BY <1>3, <3>1, Zenon DEF TextAt, MsgAt, PartAt
  <2>. QED BY <1>0, <1>1, <2>1, Zenon
<1>9. TextBeginsNoMessage'
  BY <1>7, Zenon DEF TextBeginsNoMessage
<1>. QED BY <1>6, <1>8, <1>9, Zenon DEF StreamIsMixed

LEMMA MixedStep ==
  ASSUME TypeOK, Quiet, ~broken => StreamIsMixed, [Next]_vars, ~broken'
  PROVE  StreamIsMixed'
<1>1. ~broken
  <2>1. HostActs \/ GuestActs \/ UNCHANGED vars => broken' = broken \/ broken'
    BY DEF HostActs, GuestActs, Resize, SendHandshake, Notify, PollWinch,
           SendResize, Type, ReadTimeout, StdinEnds, Break, Handshake, Read,
           Match, MatchLast, Flush, Copy, ReadDims, EndOfInput, vars, hostVars
  <2>. QED BY <2>1, Actors
<1>2. StreamIsMixed
  BY <1>1
<1>3. ASSUME NEW b \in Byte, Type(b) PROVE StreamIsMixed'
  BY <1>2, <1>3, TypeMixes
<1>4. CASE SendResize
  BY <1>2, <1>4, SendMixes
<1>5. CASE UNCHANGED <<stream, typed, sent>>
  <2>1. stream' = stream /\ typed' = typed /\ sent' = sent
    BY <1>5
  <2>2. ASSUME NEW i
        PROVE  /\ TextAt(i)' = TextAt(i) /\ MsgAt(i)' = MsgAt(i)
               /\ PartAt(i)' = PartAt(i) /\ ByteIs(i)' = ByteIs(i)
               /\ AllEight(i)' = AllEight(i)
    BY <2>1, Zenon DEF TextAt, MsgAt, PartAt, ByteIs, AllEight
  <2>3. ASSUME NEW i PROVE MessageIsWhole(i)' = MessageIsWhole(i)
    BY <2>1, <2>2, Zenon DEF MessageIsWhole, TextAt
  <2>4. TextBeginsNoMessage'
    BY <1>2, <2>1, <2>2 DEF StreamIsMixed, TextBeginsNoMessage
  <2>5. /\ TextAt(Len(stream))' = Len(typed') /\ MsgAt(Len(stream))' = Len(sent')
        /\ PartAt(Len(stream))' \in {0, 8}
    <3>1. PICK n : n = Len(stream)
      OBVIOUS
    <3>. QED BY <1>2, <2>1, <2>2, <3>1 DEF StreamIsMixed
  <2>. QED BY <1>2, <2>1, <2>2, <2>3, <2>4, <2>5, Zenon DEF StreamIsMixed
<1>6. \/ UNCHANGED <<stream, typed, sent>> \/ SendResize
      \/ \E b \in Byte : Type(b)
  <2>1. HostActs \/ GuestActs \/ UNCHANGED vars =>
          \/ UNCHANGED <<stream, typed, sent>> \/ SendResize
          \/ \E b \in Byte : Type(b)
    BY DEF HostActs, GuestActs, Resize, SendHandshake, Notify, PollWinch,
           ReadTimeout, StdinEnds, Break, Handshake, Read,
           Match, MatchLast, Flush, Copy, ReadDims, EndOfInput, vars, hostVars
  <2>. QED BY <2>1, Actors
<1>. QED BY <1>3, <1>4, <1>5, <1>6

-----------------------------------------------------------------------------
(* What the next byte is                                                   *)

LEMMA MagicBytes ==
  /\ Magic[1] = "A" /\ Magic[2] = "B" /\ Magic[3] = "A" /\ Magic[4] = "B"
  /\ "A" # "B"
BY DEF Magic

(* In a message the next byte is the message's next.                       *)
LEMMA InsideGoesOn ==
  ASSUME TypeOK, StreamIsMixed, NEW i \in 1..Len(stream), stream[i].part \in 1..7
  PROVE  /\ i + 1 \in 1..Len(stream)
         /\ stream[i + 1].part = stream[i].part + 1
         /\ stream[i + 1].msg = stream[i].msg
         /\ stream[i + 1].text = stream[i].text
<1>1. AllEight(i) /\ stream[i].part + 1 \in 1..8
  BY DEF StreamIsMixed, MessageIsWhole
<1>2. i - stream[i].part + (stream[i].part + 1) = i + 1
  OBVIOUS
<1>. QED BY <1>1, <1>2, Zenon DEF AllEight

(* Between two items it is the next typed one, or a message begins.        *)
LEMMA TextOrMessage ==
  ASSUME TypeOK, StreamIsMixed, NEW i \in 0..Len(stream), i < Len(stream),
         PartAt(i) \in {0, 8}
  PROVE  \/ stream[i + 1].part = 0
         \/ /\ stream[i + 1].part = 1
            /\ TextAt(i + 1) = TextAt(i) /\ MsgAt(i + 1) = MsgAt(i) + 1
            /\ stream[i + 1].b = "A"
<1>. DEFINE j == stream[i + 1].part
<1>1. i + 1 \in 1..Len(stream) /\ i \in Nat
  BY Lengths
<1>2. j \in 0..8 /\ ByteIs(i + 1)
  BY <1>1, MarksOf DEF StreamIsMixed
<1>3. CASE j = 0
  BY <1>3
<1>4. CASE j >= 2
  <2>1. AllEight(i + 1) /\ j - 1 \in 1..7
    BY <1>1, <1>2, <1>4 DEF StreamIsMixed, MessageIsWhole
  <2>2. (i + 1) - j + (j - 1) = i /\ j - 1 \in 1..8
    BY <1>1, <1>2, <1>4
  <2>3. i \in 1..Len(stream) /\ stream[i].part = j - 1
    BY <2>1, <2>2, Zenon DEF AllEight
  <2>. QED BY <2>1, <2>3 DEF PartAt
<1>5. CASE j = 1
  <2>1. TextAt((i + 1) - j) = stream[i + 1].text
    BY <1>1, <1>5 DEF StreamIsMixed, MessageIsWhole
  <2>2. (i + 1) - j = i /\ i + 1 # 0
    BY <1>1, <1>5
  <2>3. stream[i + 1].text = TextAt(i) /\ TextAt(i + 1) = TextAt(i)
    BY <2>1, <2>2, Zenon DEF TextAt
  <2>4. /\ i + 1 = stream[i + 1].text + 8 * (stream[i + 1].msg - 1) + 1
        /\ stream[i + 1].msg \in 1..Len(sent)
        /\ stream[i + 1].b = (Magic \o sent[stream[i + 1].msg])[1]
    <3>1. stream[i + 1].part = 1 /\ stream[i + 1].part # 0
      BY <1>5
    <3>. QED BY <1>2, <3>1, Zenon DEF ByteIs
  <2>5. i = TextAt(i) + 8 * MsgAt(i) /\ TextAt(i) \in Nat /\ MsgAt(i) \in Nat
    BY BetweenIs, Lengths
  <2>6. stream[i + 1].msg = MsgAt(i) + 1
    <3>1. PICK a, x, y :
            a = TextAt(i) /\ x = stream[i + 1].msg - 1 /\ y = MsgAt(i)
      OBVIOUS
    <3>2. x \in Int /\ stream[i + 1].msg = x + 1
      BY <2>4, <3>1
    <3>3. i + 1 = a + 8 * x + 1 /\ i = a + 8 * y /\ a \in Nat /\ y \in Nat
      BY <2>3, <2>4, <2>5, <3>1, Zenon
    <3>4. x = y
      BY <3>2, <3>3
    <3>. QED BY <3>1, <3>2, <3>4, Zenon
  <2>7. sent[stream[i + 1].msg] \in Sizes
    BY <2>4, ElementOfSeq DEF TypeOK
  <2>8. (Magic \o sent[stream[i + 1].msg])[1] = Magic[1]
    <3>1. 1 \in 1..4
      OBVIOUS
    <3>. QED BY <2>7, <3>1, MagicThenSize, Zenon
  <2>. QED BY <1>5, <2>2, <2>3, <2>4, <2>6, <2>8, MagicBytes DEF MsgAt
<1>. QED BY <1>2, <1>3, <1>4, <1>5

LEMMA NextIsText ==
  ASSUME TypeOK, StreamIsMixed, NEW i \in 0..Len(stream), i < Len(stream),
         PartAt(i) \in {0, 8}, stream[i + 1].part = 0
  PROVE  /\ TextAt(i + 1) = TextAt(i) + 1 /\ MsgAt(i + 1) = MsgAt(i)
         /\ PartAt(i + 1) = 0
         /\ TextAt(i + 1) \in 1..Len(typed)
         /\ stream[i + 1].b = typed[TextAt(i + 1)]
<1>1. i + 1 \in 1..Len(stream) /\ i \in Nat /\ i + 1 # 0 /\ i <= i + 1
      /\ i + 1 \in 0..Len(stream)
  BY Lengths
<1>2. \A r \in (i + 1)..(i + 1) : stream[r].part = 0
  OBVIOUS
<1>3. MsgAt(i + 1) = MsgAt(i)
  BY <1>1, <1>2 DEF StreamIsMixed, TextBeginsNoMessage
<1>4. i = TextAt(i) + 8 * MsgAt(i) /\ TextAt(i) \in Nat /\ MsgAt(i) \in Nat
  BY BetweenIs, Lengths
<1>5. /\ stream[i + 1].text \in 1..Len(typed)
      /\ stream[i + 1].b = typed[stream[i + 1].text]
      /\ i + 1 = stream[i + 1].text + 8 * stream[i + 1].msg
  BY <1>1 DEF StreamIsMixed, ByteIs
<1>6. /\ TextAt(i + 1) = stream[i + 1].text /\ MsgAt(i + 1) = stream[i + 1].msg
      /\ PartAt(i + 1) = 0
  BY <1>1 DEF TextAt, MsgAt, PartAt
<1>7. TextAt(i + 1) = TextAt(i) + 1
  BY <1>1, <1>3, <1>4, <1>5, <1>6, MarksOf
<1>. QED BY <1>3, <1>5, <1>6, <1>7, Zenon

-----------------------------------------------------------------------------
(* The guest lets through what the stream says                             *)

LEMMA PlacesStay ==
  ASSUME stream' = stream, NEW i, at' = i
  PROVE  /\ TextAt(at)' = TextAt(i) /\ MsgAt(at)' = MsgAt(i)
         /\ PartAt(at)' = PartAt(i)
BY DEF TextAt, MsgAt, PartAt

(* The bytes of a size.                                                    *)
IsOfSize(k, p, m, t) ==
  /\ k \in 1..Len(stream)
  /\ stream[k].part = p /\ stream[k].msg = m /\ stream[k].text = t
  /\ stream[k].b = sent[m][p - 4]

LEMMA SizeGoesOn ==
  ASSUME TypeOK, StreamIsMixed, NEW i \in 1..Len(stream),
         stream[i].part \in 4..7, NEW d \in 1..(8 - stream[i].part)
  PROVE  IsOfSize(i + d, stream[i].part + d, stream[i].msg, stream[i].text)
<1>0. PICK p, m, j, k :
        p = stream[i].part /\ m = stream[i].msg /\ j = p + d /\ k = i + d
  OBVIOUS
<1>1. p \in 4..7 /\ d \in 1..(8 - p) /\ i \in Int
  BY <1>0
<1>2. /\ j \in 1..8 /\ j \in 5..8 /\ p # 0 /\ j # 0 /\ i - p + j = k
  <2>1. j = p + d /\ k = i + d
    BY <1>0, Zenon
  <2>2. j \in 5..8
    BY <1>1, <2>1
  <2>3. i - p + j = k
    BY <1>1, <2>1
  <2>. QED BY <1>1, <2>2, <2>3
<1>3. AllEight(i)
  BY <1>0, <1>2, Zenon DEF StreamIsMixed, MessageIsWhole
<1>4. /\ k \in 1..Len(stream) /\ stream[k].part = j
      /\ stream[k].msg = m /\ stream[k].text = stream[i].text
  BY <1>0, <1>2, <1>3, Zenon DEF AllEight
<1>5. ByteIs(k)
  BY <1>2, <1>4, Zenon DEF StreamIsMixed
<1>6. m \in 1..Len(sent) /\ stream[k].b = (Magic \o sent[m])[j]
  BY <1>2, <1>4, <1>5, Zenon DEF ByteIs
<1>7. sent[m] \in Sizes
  BY <1>6, ElementOfSeq DEF TypeOK
<1>8. (Magic \o sent[m])[j] = sent[m][j - 4]
  BY <1>2, <1>7, MagicThenSize, Zenon
<1>9. IsOfSize(k, j, m, stream[i].text)
  BY <1>4, <1>6, <1>8, Zenon DEF IsOfSize
<1>. QED BY <1>0, <1>9, Zenon

(* Text up to where a prefix may begin.                                    *)
LEMMA TextGoesOn ==
  ASSUME TypeOK, StreamIsMixed, NEW i \in 0..Len(stream), NEW n \in Nat,
         i + n <= Len(stream), PartAt(i) \in {0, 8},
         \A d \in 1..n : stream[i + d].b # "A"
  PROVE  /\ n > 0 => PartAt(i + n) = 0
         /\ TextAt(i + n) = TextAt(i) + n /\ MsgAt(i + n) = MsgAt(i)
         /\ \A d \in 1..n : /\ TextAt(i) + d \in 1..Len(typed)
                           /\ stream[i + d].b = typed[TextAt(i) + d]
<1>0. i \in Nat /\ Len(stream) \in Nat
  BY Lengths
<1>1. ASSUME NEW d \in 1..n PROVE stream[i + d].part = 0
  <2>0. PICK j : j = stream[i + d].part
    OBVIOUS
  <2>1. i + d \in 1..Len(stream)
    BY <1>0
  <2>2. j \in 0..8
    BY <2>0, <2>1, MarksOf
  <2>3. ASSUME j # 0 PROVE FALSE
    <3>1. AllEight(i + d) /\ j \in 1..8
      <4>1. j \in 1..8
        BY <2>2, <2>3
      <4>. QED BY <2>0, <2>1, <2>3, <4>1, Zenon DEF StreamIsMixed, MessageIsWhole
    <3>2. CASE j <= d
      <4>1. PICK e : e = d - j + 1
        OBVIOUS
      <4>2. e \in 1..n /\ (i + d) - j + 1 = i + e /\ 1 \in 1..8
        BY <1>0, <2>2, <2>3, <3>2, <4>1
      <4>3. i + e \in 1..Len(stream) /\ stream[i + e].part = 1
        BY <2>0, <3>1, <4>2, Zenon DEF AllEight
      <4>4. ByteIs(i + e)
        BY <4>3 DEF StreamIsMixed
      <4>5. /\ stream[i + e].msg \in 1..Len(sent)
            /\ stream[i + e].b = (Magic \o sent[stream[i + e].msg])[1]
        <5>1. stream[i + e].part # 0
          BY <4>3
        <5>. QED BY <4>3, <4>4, <5>1, Zenon DEF ByteIs
      <4>6. sent[stream[i + e].msg] \in Sizes
        BY <4>5, ElementOfSeq DEF TypeOK
      <4>7. stream[i + e].b = "A"
        <5>1. \A k \in 1..4 : (Magic \o sent[stream[i + e].msg])[k] = Magic[k]
          BY <4>6, MagicThenSize
        <5>2. 1 \in 1..4
          OBVIOUS
        <5>. QED BY <4>5, <5>1, <5>2, MagicBytes, Zenon
      <4>. QED BY <4>2, <4>7
    <3>3. CASE j > d
      <4>1. (i + d) - j + (j - d) = i /\ j - d \in 1..8 /\ j - d \in 1..7
        BY <1>0, <2>2, <3>3
      <4>2. i \in 1..Len(stream) /\ stream[i].part = j - d
        BY <2>0, <3>1, <4>1, Zenon DEF AllEight
      <4>. QED BY <4>1, <4>2 DEF PartAt
    <3>. QED BY <2>2, <3>2, <3>3
  <2>. QED BY <2>0, <2>3, Zenon
<1>2. ASSUME NEW d \in 0..n
      PROVE  MsgAt(i + d) = MsgAt(i) /\ TextAt(i + d) = TextAt(i) + d
             /\ (d > 0 => PartAt(i + d) = 0)
  <2>1. i + d \in 0..Len(stream) /\ i <= i + d
    BY <1>0
  <2>2. ASSUME NEW r \in (i + 1)..(i + d) PROVE stream[r].part = 0
    <3>1. PICK e : e = r - i
      OBVIOUS
    <3>2. e \in 1..n /\ r = i + e
      BY <1>0, <3>1
    <3>. QED BY <1>1, <3>2
  <2>3. MsgAt(i + d) = MsgAt(i)
    BY <2>1, <2>2 DEF StreamIsMixed, TextBeginsNoMessage
  <2>4. PartAt(i + d) \in {0, 8} /\ (d > 0 => PartAt(i + d) = 0)
    <3>1. CASE d = 0
      <4>1. i + d = i
        BY <1>0, <3>1
      <4>. QED BY <3>1, <4>1
    <3>2. CASE d # 0
      <4>1. d \in 1..n /\ i + d # 0
        BY <1>0, <3>2
      <4>. QED BY <1>1, <4>1 DEF PartAt
    <3>. QED BY <3>1, <3>2
  <2>5. i = TextAt(i) + 8 * MsgAt(i) /\ TextAt(i) \in Nat /\ MsgAt(i) \in Nat
    BY BetweenIs, Lengths
  <2>6. i + d = TextAt(i + d) + 8 * MsgAt(i + d) /\ TextAt(i + d) \in Nat
    BY <2>1, <2>4, BetweenIs, Lengths
  <2>7. TextAt(i + d) = TextAt(i) + d
    BY <1>0, <2>3, <2>5, <2>6
  <2>. QED BY <2>3, <2>4, <2>7
<1>3. ASSUME NEW d \in 1..n
      PROVE  /\ TextAt(i) + d \in 1..Len(typed)
             /\ stream[i + d].b = typed[TextAt(i) + d]
  <2>1. i + d \in 1..Len(stream) /\ i + d # 0 /\ d \in 0..n
    BY <1>0
  <2>2. stream[i + d].text = TextAt(i) + d
    BY <1>2, <2>1 DEF TextAt
  <2>3. ByteIs(i + d) /\ stream[i + d].part = 0
    BY <1>1, <2>1 DEF StreamIsMixed
  <2>. QED BY <2>2, <2>3, Zenon DEF ByteIs
<1>4. n \in 0..n
  OBVIOUS
<1>. QED BY <1>2, <1>3, <1>4, Zenon

(* A byte that is held back is the next one of the text.                   *)
LEMMA HeldIsText ==
  ASSUME TypeOK, StreamIsMixed, HoldsOneByte, at \in 0..Len(stream)
  PROVE  out \o SubSeq(Magic, 1, matchLen) = SubSeq(typed, 1, TextAt(at))
<1>1. /\ at \in 1..Len(stream) /\ stream[at].part = 0 /\ stream[at].b = "A"
      /\ matchLen = 1 /\ out = SubSeq(typed, 1, TextAt(at) - 1)
      /\ TextAt(at) = stream[at].text
  BY Lengths DEF HoldsOneByte, PartAt, TextAt, Let
<1>2. ByteIs(at)
  BY <1>1 DEF StreamIsMixed
<1>3. TextAt(at) \in 1..Len(typed) /\ typed[TextAt(at)] = "A"
  BY <1>1, <1>2 DEF ByteIs
<1>4. PICK a, u : a = TextAt(at) - 1 /\ u = SubSeq(Magic, 1, 1)
  OBVIOUS
<1>5. u \in Seq(Byte) /\ Len(u) = 1 /\ u[1] = "A"
  <2>1. 1 \in 0..4 /\ 1 \in 1..1
    OBVIOUS
  <2>. QED BY <1>4, <2>1, MagicPart, MagicBytes, Zenon
<1>6. /\ a \in Nat /\ TextAt(at) = a + Len(u) /\ TextAt(at) <= Len(typed)
      /\ \A i \in 1..Len(u) : u[i] = typed[a + i]
  BY <1>3, <1>4, <1>5, Lengths
<1>7. typed \in Seq(Byte) /\ u \in Seq(Byte)
  BY <1>5 DEF TypeOK
<1>8. SubSeq(typed, 1, a) \o u = SubSeq(typed, 1, TextAt(at))
  <2>1. Follows(typed, a, u)
    BY <1>6, Zenon DEF Follows
  <2>2. SubSeq(typed, 1, a) \o u = SubSeq(typed, 1, a + Len(u))
    BY <1>6, <1>7, <2>1, Longer, Zenon
  <2>. QED BY <1>6, <2>2, Zenon
<1>. QED BY <1>1, <1>4, <1>8, Zenon

LEMMA MatchFollows ==
  ASSUME TypeOK, StreamIsMixed, NoPrefixTyped, GuestFollows, Match
  PROVE  GuestFollows'
<1>1. /\ guest = "copy" /\ at < got /\ matchLen < 3
      /\ stream[at + 1].b = Magic[matchLen + 1] /\ matchLen' = matchLen + 1
      /\ at' = at + 1 /\ guest' = "copy" /\ out' = out /\ applied' = applied
      /\ stream' = stream /\ typed' = typed /\ sent' = sent
  BY DEF Match, Here, hostVars
<1>2. /\ at \in 0..Len(stream) /\ at < Len(stream) /\ at + 1 > 0
      /\ at + 1 \in 1..Len(stream) /\ at \in Nat
  BY <1>1, Lengths
<1>3. /\ TextAt(at)' = TextAt(at + 1) /\ MsgAt(at)' = MsgAt(at + 1)
      /\ PartAt(at)' = PartAt(at + 1)
  BY <1>1, PlacesStay
<1>4. CASE BetweenItems
  <2>1. matchLen' = 1 /\ stream[at + 1].b = "A" /\ Let(TextAt(at), MsgAt(at))
    BY <1>1, <1>4, MagicBytes DEF BetweenItems
  <2>2. CASE stream[at + 1].part = 0
    <3>1. /\ TextAt(at + 1) = TextAt(at) + 1 /\ MsgAt(at + 1) = MsgAt(at)
          /\ PartAt(at + 1) = 0 /\ TextAt(at) \in Nat
      BY <1>2, <1>4, <2>2, NextIsText, BetweenIs DEF BetweenItems
    <3>2. TextAt(at)' - 1 = TextAt(at)
      BY <1>3, <3>1
    <3>3. HoldsOneByte'
      BY <1>1, <1>2, <1>3, <2>1, <3>1, <3>2, Zenon DEF HoldsOneByte, Let
    <3>. QED BY <1>1, <3>3 DEF GuestFollows
  <2>3. CASE stream[at + 1].part = 1 /\ TextAt(at + 1) = TextAt(at)
             /\ MsgAt(at + 1) = MsgAt(at) + 1
    <3>1. MsgAt(at)' - 1 = MsgAt(at) /\ PartAt(at)' = 1 /\ 1 \in 1..3
      BY <1>2, <1>3, <1>4, <2>3, BetweenIs DEF BetweenItems, PartAt
    <3>2. InMagic'
      BY <1>1, <1>3, <2>1, <2>3, <3>1, Zenon DEF InMagic, Let
    <3>. QED BY <1>1, <3>2 DEF GuestFollows
  <2>. QED BY <1>2, <1>4, <2>2, <2>3, TextOrMessage DEF BetweenItems
<1>5. CASE HoldsOneByte
  <2>1. /\ at \in 1..Len(stream) /\ stream[at].part = 0 /\ stream[at].b = "A"
        /\ stream[at + 1].b = "B" /\ PartAt(at) \in {0, 8}
    BY <1>1, <1>2, <1>5, MagicBytes DEF HoldsOneByte, PartAt
  <2>2. stream[at + 1].part = 0
    BY <1>2, <2>1, TextOrMessage, MagicBytes
  <2>3. /\ TextAt(at + 1) = TextAt(at) + 1 /\ TextAt(at + 1) \in 1..Len(typed)
        /\ typed[TextAt(at + 1)] = "B"
    BY <1>2, <2>1, <2>2, NextIsText
  <2>4. TextAt(at) \in 1..Len(typed) /\ typed[TextAt(at)] = "A"
    <3>1. ByteIs(at)
      BY <2>1 DEF StreamIsMixed
    <3>. QED BY <2>1, <3>1 DEF ByteIs, TextAt
  <2>5. TextAt(at) \in 1..(Len(typed) - 1)
    BY <2>3, <2>4, Lengths
  <2>. QED BY <2>3, <2>4, <2>5 DEF NoPrefixTyped
<1>6. CASE InMagic
  <2>1. at \in 1..Len(stream) /\ PartAt(at) = stream[at].part
    BY <1>2, <1>6 DEF InMagic, PartAt
  <2>2. /\ stream[at + 1].part = stream[at].part + 1
        /\ stream[at + 1].msg = stream[at].msg
        /\ stream[at + 1].text = stream[at].text
    BY <1>6, <2>1, InsideGoesOn DEF InMagic
  <2>3. /\ PartAt(at + 1) = PartAt(at) + 1 /\ MsgAt(at + 1) = MsgAt(at)
        /\ TextAt(at + 1) = TextAt(at)
    BY <1>2, <2>1, <2>2 DEF PartAt, MsgAt, TextAt
  <2>4. PartAt(at)' \in 1..3 /\ matchLen' = PartAt(at)'
    BY <1>1, <1>3, <1>6, <2>3 DEF InMagic
  <2>5. InMagic'
    BY <1>1, <1>3, <1>6, <2>3, <2>4, Zenon DEF InMagic, Let
  <2>. QED BY <1>1, <2>5 DEF GuestFollows
<1>. QED BY <1>1, <1>4, <1>5, <1>6 DEF GuestFollows

LEMMA FlushFollows ==
  ASSUME TypeOK, StreamIsMixed, GuestFollows, Flush
  PROVE  GuestFollows'
<1>1. /\ guest = "copy" /\ at < got /\ matchLen > 0
      /\ stream[at + 1].b # Magic[matchLen + 1] /\ matchLen' = 0
      /\ at' = at /\ guest' = "copy" /\ applied' = applied
      /\ out' = out \o SubSeq(Magic, 1, matchLen)
      /\ stream' = stream /\ typed' = typed /\ sent' = sent
  BY DEF Flush, Here, hostVars
<1>2. /\ at \in 0..Len(stream) /\ at < Len(stream)
      /\ at + 1 \in 1..Len(stream) /\ at \in Nat
  BY <1>1, Lengths
<1>3. /\ TextAt(at)' = TextAt(at) /\ MsgAt(at)' = MsgAt(at)
      /\ PartAt(at)' = PartAt(at)
  BY <1>1, PlacesStay
<1>4. CASE HoldsOneByte
  <2>1. out' = SubSeq(typed, 1, TextAt(at))
    BY <1>1, <1>2, <1>4, HeldIsText DEF HoldsOneByte
  <2>2. BetweenItems'
    BY <1>1, <1>3, <1>4, <2>1 DEF BetweenItems, HoldsOneByte, Let
  <2>. QED BY <1>1, <2>2 DEF GuestFollows
<1>5. CASE InMagic
  <2>1. at \in 1..Len(stream) /\ PartAt(at) = stream[at].part
    BY <1>2, <1>5 DEF InMagic, PartAt
  <2>2. stream[at + 1].part = matchLen + 1 /\ matchLen + 1 \in 2..4
    BY <1>5, <2>1, InsideGoesOn DEF InMagic
  <2>3. /\ stream[at + 1].msg \in 1..Len(sent)
        /\ stream[at + 1].b = (Magic \o sent[stream[at + 1].msg])[matchLen + 1]
    <3>1. ByteIs(at + 1) /\ stream[at + 1].part # 0
      BY <1>2, <2>2 DEF StreamIsMixed
    <3>. QED BY <2>2, <3>1, Zenon DEF ByteIs
  <2>4. sent[stream[at + 1].msg] \in Sizes
    BY <2>3, ElementOfSeq DEF TypeOK
  <2>5. \A k \in 1..4 : (Magic \o sent[stream[at + 1].msg])[k] = Magic[k]
    BY <2>4, MagicThenSize
  <2>6. matchLen + 1 \in 1..4
    BY <2>2
  <2>. QED BY <1>1, <2>3, <2>5, <2>6, Zenon
<1>6. ~BetweenItems
  BY <1>1 DEF BetweenItems
<1>. QED BY <1>1, <1>4, <1>5, <1>6 DEF GuestFollows

(* What was read of a size, or all of it.                                  *)
LEMMA FilledFollows ==
  ASSUME TypeOK, StreamIsMixed, NEW q \in 1..Len(stream), NEW p, NEW m,
         p = stream[q].part, m = stream[q].msg, p \in 4..8, m \in 1..Len(sent),
         NEW size, size = SubSeq(sent[m], 1, p - 4), Fill(size),
         at' = q, matchLen' = 0, out' = out,
         stream' = stream, typed' = typed, sent' = sent,
         Let(stream[q].text, m - 1)
  PROVE  GuestFollows'
<1>1. /\ TextAt(at)' = stream[q].text /\ MsgAt(at)' = m /\ PartAt(at)' = p
  BY DEF TextAt, MsgAt, PartAt
<1>2. sent[m] \in Sizes /\ sent \in Seq(Sizes)
  BY ElementOfSeq DEF TypeOK
<1>3. sent[m] \in Seq(Byte) /\ Len(sent[m]) = 4
  BY <1>2, SizesAssumption, FoursAndEights, Zenon
<1>4. p - 4 \in 0..4 /\ p - 4 \in 0..Len(sent[m])
  BY <1>3
<1>5. size \in Seq(Byte) /\ Len(size) = p - 4
  BY <1>3, <1>4, PrefixIs, Zenon
<1>6. CASE p = 8
  <2>1. size = sent[m] /\ Len(size) = 4
    <3>1. p - 4 = Len(sent[m])
      BY <1>3, <1>6
    <3>. QED BY <1>3, <1>5, <3>1, SubSeqFull, Zenon
  <2>2. applied' = Append(applied, sent[m]) /\ guest' = "copy"
    BY <2>1 DEF Fill
  <2>3. SubSeq(sent, 1, m) = SubSeq(sent, 1, m - 1) \o <<sent[m]>>
    <3>1. m \in 1..Len(sent) /\ 1 \in 1..Len(sent)
      BY Lengths
    <3>. QED BY <1>2, <3>1, SubSeqRecursiveSecond
  <2>4. SubSeq(sent, 1, m - 1) \in Seq(Sizes)
    <3>1. m - 1 \in 0..Len(sent)
      BY Lengths
    <3>. QED BY <1>2, <3>1, PrefixIs, Zenon
  <2>5. applied' = SubSeq(sent, 1, m)
    BY <1>2, <2>2, <2>3, <2>4, AppendIsConcat, Zenon DEF Let
  <2>6. BetweenItems'
    BY <1>1, <1>6, <2>5 DEF BetweenItems, Let
  <2>. QED BY <2>2, <2>6 DEF GuestFollows
<1>7. CASE p # 8
  <2>1. Len(size) # 4 /\ p \in 4..7
    BY <1>4, <1>5, <1>7
  <2>2. dims' = size /\ guest' = "dims" /\ applied' = applied
    BY <2>1 DEF Fill
  <2>3. dims' = SubSeq(sent'[MsgAt(at)'], 1, PartAt(at)' - 4)
    BY <1>1, <2>2
  <2>4. InSize'
    BY <1>1, <2>1, <2>2, <2>3, Zenon DEF InSize, Let
  <2>. QED BY <2>2, <2>4 DEF GuestFollows
<1>. QED BY <1>6, <1>7

LEMMA MatchLastFollows ==
  ASSUME TypeOK, StreamIsMixed, GuestFollows, MatchLast
  PROVE  GuestFollows'
<1>1. /\ guest = "copy" /\ at < got /\ matchLen = 3 /\ matchLen' = 0
      /\ stream' = stream /\ typed' = typed /\ sent' = sent /\ out' = out
  BY DEF MatchLast, hostVars
<1>2. PICK q : q = Min({at + 5, got})
  OBVIOUS
<1>3. Fill(Size) /\ at' = q
  BY <1>2, Zenon DEF MatchLast, Size
<1>4. /\ q \in (at + 1)..got /\ q <= at + 5
      /\ Size \in Seq(Byte) /\ Len(Size) = q - (at + 1)
      /\ \A i \in 1..Len(Size) : Size[i] = stream[at + 1 + i].b
  BY <1>1, <1>2, LastByte, Zenon
<1>5. InMagic /\ PartAt(at) = 3
  BY <1>1 DEF GuestFollows, BetweenItems, HoldsOneByte, InMagic
<1>6. at \in 1..Len(stream) /\ stream[at].part = 3
  BY <1>1, <1>5, Lengths DEF PartAt
<1>7. PICK i, m, t : i = at + 1 /\ m = stream[at].msg /\ t = stream[at].text
  OBVIOUS
<1>8. /\ i \in 1..Len(stream) /\ stream[i].part = 4
      /\ stream[i].msg = m /\ stream[i].text = t
  BY <1>6, <1>7, InsideGoesOn
<1>9. Let(t, m - 1)
  <2>1. at # 0
    BY <1>6
  <2>. QED BY <1>5, <1>7, <2>1, Zenon DEF InMagic, Let, TextAt, MsgAt
<1>10. m \in 1..Len(sent)
  <2>1. ByteIs(i) /\ stream[i].part # 0
    BY <1>8 DEF StreamIsMixed
  <2>. QED BY <1>8, <2>1, Zenon DEF ByteIs
<1>11. PICK n : n = q - i
  OBVIOUS
<1>12. n \in 0..4 /\ q = i + n /\ Len(Size) = n /\ q \in 1..Len(stream)
  BY <1>4, <1>6, <1>7, <1>11, Lengths
<1>13. ASSUME NEW d \in 1..4
       PROVE  /\ i + d \in 1..Len(stream) /\ stream[i + d].part = 4 + d
              /\ stream[i + d].msg = m /\ stream[i + d].text = t
              /\ stream[i + d].b = sent[m][d]
  <2>1. /\ stream[i].part \in 4..7 /\ d \in 1..(8 - stream[i].part)
        /\ (4 + d) - 4 = d
    BY <1>8
  <2>2. IsOfSize(i + d, 4 + d, m, t)
    BY <1>8, <2>1, SizeGoesOn, Zenon
  <2>3. /\ i + d \in 1..Len(stream) /\ stream[i + d].part = 4 + d
        /\ stream[i + d].msg = m /\ stream[i + d].text = t
        /\ stream[i + d].b = sent[m][(4 + d) - 4]
    BY <2>2, Zenon DEF IsOfSize
  <2>. QED BY <2>1, <2>3, Zenon
<1>14. stream[q].part = 4 + n /\ stream[q].msg = m /\ stream[q].text = t
  <2>1. CASE n = 0
    BY <1>8, <1>12, <2>1
  <2>2. CASE n # 0
    <3>1. n \in 1..4
      BY <1>12, <2>2
    <3>. QED BY <1>12, <1>13, <3>1, Zenon
  <2>. QED BY <2>1, <2>2
<1>15. Size = SubSeq(sent[m], 1, n)
  <2>1. sent[m] \in Sizes
    BY <1>10, ElementOfSeq DEF TypeOK
  <2>2. sent[m] \in Seq(Byte) /\ Len(sent[m]) = 4
    BY <2>1, SizesAssumption, FoursAndEights, Zenon
  <2>3. n \in 0..Len(sent[m])
    BY <1>12, <2>2
  <2>4. PICK u : u = SubSeq(sent[m], 1, n)
    OBVIOUS
  <2>5. u \in Seq(Byte) /\ Len(u) = n /\ \A d \in 1..n : u[d] = sent[m][d]
    BY <2>2, <2>3, <2>4, PrefixIs, Zenon
  <2>6. ASSUME NEW d \in 1..n PROVE Size[d] = u[d]
    <3>1. d \in 1..4 /\ d \in 1..Len(Size)
      BY <1>12
    <3>. QED BY <1>4, <1>7, <1>13, <2>5, <3>1, Zenon
  <2>. QED BY <1>4, <1>12, <2>4, <2>5, <2>6, SeqEqual, Zenon
<1>16. PICK p : p = 4 + n
  OBVIOUS
<1>17. p - 4 = n /\ p \in 4..8
  BY <1>12, <1>16
<1>. QED
  BY <1>1, <1>3, <1>9, <1>10, <1>12, <1>14, <1>15, <1>16, <1>17,
     FilledFollows, Zenon

LEMMA ReadDimsFollows ==
  ASSUME TypeOK, Quiet, StreamIsMixed, GuestFollows,
         NEW k \in 1..Min({4, Len(stream) - got}), ReadDims(k)
  PROVE  GuestFollows'
<1>1. /\ guest = "dims" /\ k <= 4 - Len(dims) /\ Fill(dims \o Ahead(k))
      /\ at' = at + k /\ matchLen' = 0 /\ out' = out
      /\ stream' = stream /\ typed' = typed /\ sent' = sent
  BY DEF ReadDims, hostVars, Quiet
<1>2. k \in Nat /\ k > 0 /\ at + k <= Len(stream) /\ at \in Nat
  <2>1. 4 \in Nat /\ Len(stream) - got \in Nat
    BY Lengths
  <2>2. Min({4, Len(stream) - got}) =
          IF 4 <= Len(stream) - got THEN 4 ELSE Len(stream) - got
    BY <2>1, MinOfTwo, Zenon
  <2>. QED BY <2>1, <2>2, Lengths
<1>3. InSize
  BY <1>1 DEF GuestFollows
<1>4. PICK i, p, m, t : /\ i = at /\ p = PartAt(at) /\ m = MsgAt(at)
                        /\ t = TextAt(at)
  OBVIOUS
<1>5. /\ i \in 1..Len(stream) /\ p = stream[i].part /\ m = stream[i].msg
      /\ t = stream[i].text /\ p \in 4..7
  BY <1>3, <1>4, Lengths DEF InSize, PartAt, MsgAt, TextAt
<1>6. dims = SubSeq(sent[m], 1, p - 4) /\ Let(t, m - 1)
  BY <1>3, <1>4, Zenon DEF InSize
<1>7. m \in 1..Len(sent)
  <2>1. ByteIs(i) /\ stream[i].part # 0
    BY <1>5 DEF StreamIsMixed
  <2>. QED BY <1>5, <2>1, Zenon DEF ByteIs
<1>8. sent[m] \in Seq(Byte) /\ Len(sent[m]) = 4
  <2>1. sent[m] \in Sizes
    BY <1>7, ElementOfSeq DEF TypeOK
  <2>. QED BY <2>1, SizesAssumption, FoursAndEights, Zenon
<1>9. Len(dims) = p - 4 /\ p - 4 \in 0..3 /\ k \in 1..(8 - p)
  <2>1. p - 4 \in 0..3 /\ p - 4 \in 0..Len(sent[m])
    BY <1>5, <1>8
  <2>2. Len(dims) = p - 4
    BY <1>6, <1>8, <2>1, PrefixIs, Zenon
  <2>. QED BY <1>1, <1>2, <2>1, <2>2
<1>10. ASSUME NEW d \in 1..k
       PROVE  /\ i + d \in 1..Len(stream) /\ stream[i + d].part = p + d
              /\ stream[i + d].msg = m /\ stream[i + d].text = t
              /\ stream[i + d].b = sent[m][(p + d) - 4]
  <2>1. d \in 1..(8 - p)
    BY <1>2, <1>5, <1>9
  <2>2. IsOfSize(i + d, p + d, m, t)
    BY <1>5, <2>1, SizeGoesOn, Zenon
  <2>. QED BY <2>2, Zenon DEF IsOfSize
<1>11. PICK u, a, b, q :
         u = Ahead(k) /\ a = p - 4 /\ b = p - 4 + k /\ q = i + k
  OBVIOUS
<1>12. /\ u \in Seq(Byte) /\ Len(u) = k
       /\ \A d \in 1..k : u[d] = stream[i + d].b
  <2>1. stream \in Seq(MarkedByte)
    BY DEF TypeOK
  <2>. QED BY <1>2, <1>4, <1>11, <2>1, AheadIs, Zenon
<1>13. dims \o u = SubSeq(sent[m], 1, b)
  <2>1. a \in Nat /\ b = a + Len(u) /\ b <= Len(sent[m])
    <3>1. /\ p \in 4..7 /\ k \in 1..(8 - p) /\ a = p - 4 /\ b = p - 4 + k
          /\ Len(u) = k /\ Len(sent[m]) = 4
      BY <1>5, <1>8, <1>9, <1>11, <1>12, Zenon
    <3>. QED BY <3>1
  <2>2. ASSUME NEW d \in 1..Len(u) PROVE u[d] = sent[m][a + d]
    <3>1. d \in 1..k
      BY <1>12
    <3>2. (p + d) - 4 = a + d
      <4>1. p \in 4..7 /\ a = p - 4
        BY <1>5, <1>11
      <4>. QED BY <3>1, <4>1
    <3>. QED BY <1>10, <1>12, <3>1, <3>2, Zenon
  <2>3. PICK w : w = sent[m]
    OBVIOUS
  <2>4. /\ w \in Seq(Byte) /\ u \in Seq(Byte) /\ b <= Len(w)
        /\ \A d \in 1..Len(u) : u[d] = w[a + d]
    BY <1>8, <1>12, <2>1, <2>2, <2>3, Zenon
  <2>5. SubSeq(w, 1, a) \o u = SubSeq(w, 1, b)
    <3>1. Follows(w, a, u)
      BY <2>1, <2>4, Zenon DEF Follows
    <3>. QED BY <2>1, <2>4, <3>1, Longer, Zenon
  <2>. QED BY <1>6, <1>11, <2>3, <2>5, Zenon
<1>14. PICK r : r = p + k
  OBVIOUS
<1>15. /\ q \in 1..Len(stream) /\ stream[q].part = r /\ stream[q].msg = m
       /\ stream[q].text = t /\ r \in 4..8 /\ r - 4 = b /\ at' = q
  <2>1. k \in 1..k
    BY <1>2
  <2>2. r \in 4..8 /\ r - 4 = b
    <3>1. p \in 4..7 /\ k \in 1..(8 - p) /\ r = p + k /\ b = p - 4 + k
      BY <1>5, <1>9, <1>11, <1>14, Zenon
    <3>. QED BY <3>1
  <2>3. at' = q
    BY <1>1, <1>4, <1>11, Zenon
  <2>. QED BY <1>10, <1>11, <1>14, <2>1, <2>2, <2>3, Zenon
<1>. QED
  BY <1>1, <1>6, <1>7, <1>11, <1>13, <1>15, FilledFollows, Zenon

LEMMA CopyFollows ==
  ASSUME TypeOK, StreamIsMixed, GuestFollows, Copy
  PROVE  GuestFollows'
<1>1. /\ guest = "copy" /\ at < got /\ matchLen = 0 /\ matchLen' = 0
      /\ guest' = "copy" /\ applied' = applied
      /\ stream' = stream /\ typed' = typed /\ sent' = sent
  BY DEF Copy, hostVars
<1>2. PICK n \in 1..(got - at) :
        /\ \A d \in 1..n : stream[at + d].b # "A"
        /\ out' = out \o Ahead(n) /\ at' = at + n
  BY DEF Copy
<1>3. /\ at \in 0..Len(stream) /\ at \in Nat /\ n \in Nat /\ n > 0
      /\ at + n <= Len(stream)
  BY <1>1, Lengths
<1>4. BetweenItems
  BY <1>1 DEF GuestFollows, HoldsOneByte, InMagic
<1>5. PICK i, a, b, u :
        i = at /\ a = TextAt(at) /\ b = TextAt(at) + n /\ u = Ahead(n)
  OBVIOUS
<1>6. PartAt(i) \in {0, 8}
  BY <1>4, <1>5 DEF BetweenItems
<1>7. /\ PartAt(i + n) = 0
      /\ TextAt(i + n) = TextAt(i) + n /\ MsgAt(i + n) = MsgAt(i)
      /\ \A d \in 1..n : /\ TextAt(i) + d \in 1..Len(typed)
                        /\ stream[i + d].b = typed[TextAt(i) + d]
  BY <1>2, <1>3, <1>5, <1>6, TextGoesOn, Zenon
<1>8. /\ u \in Seq(Byte) /\ Len(u) = n
      /\ \A d \in 1..n : u[d] = stream[i + d].b
  <2>1. stream \in Seq(MarkedByte)
    BY DEF TypeOK
  <2>. QED BY <1>3, <1>5, <2>1, AheadIs, Zenon
<1>9. a \in Nat
  BY <1>3, <1>4, <1>5, BetweenIs DEF BetweenItems
<1>10. b = a + Len(u) /\ b <= Len(typed)
  <2>1. n \in 1..n
    BY <1>3
  <2>2. a + n \in 1..Len(typed)
    BY <1>5, <1>7, <2>1, Zenon
  <2>. QED BY <1>5, <1>8, <2>2, Lengths
<1>11. \A d \in 1..Len(u) : u[d] = typed[a + d]
  BY <1>5, <1>7, <1>8, Zenon
<1>12. typed \in Seq(Byte) /\ u \in Seq(Byte)
  BY <1>8 DEF TypeOK
<1>13. SubSeq(typed, 1, a) \o u = SubSeq(typed, 1, b)
  <2>1. Follows(typed, a, u)
    BY <1>10, <1>11, Zenon DEF Follows
  <2>. QED BY <1>9, <1>10, <1>12, <2>1, Longer, Zenon
<1>14. out' = SubSeq(typed, 1, b) /\ applied' = SubSeq(sent, 1, MsgAt(i))
  BY <1>1, <1>2, <1>4, <1>5, <1>13, Zenon DEF BetweenItems, Let
<1>15. /\ TextAt(at)' = b /\ MsgAt(at)' = MsgAt(i) /\ PartAt(at)' = 0
  <2>1. at' = i + n
    BY <1>2, <1>5
  <2>2. /\ TextAt(at)' = TextAt(i + n) /\ MsgAt(at)' = MsgAt(i + n)
        /\ PartAt(at)' = PartAt(i + n)
    BY <1>1, <2>1, PlacesStay
  <2>. QED BY <1>5, <1>7, <2>2, Zenon
<1>16. BetweenItems'
  BY <1>1, <1>14, <1>15 DEF BetweenItems, Let
<1>. QED BY <1>1, <1>16 DEF GuestFollows

(* At the end of the stream nothing is missing.                            *)
LEMMA NothingIsMissing ==
  ASSUME TypeOK, StreamIsMixed, GuestFollows, at = Len(stream)
  PROVE  /\ guest # "dims"
         /\ guest = "copy" => /\ out \o SubSeq(Magic, 1, matchLen) = typed
                             /\ matchLen <= 1
                             /\ applied = sent
<1>1. /\ TextAt(at) = Len(typed) /\ MsgAt(at) = Len(sent)
      /\ PartAt(at) \in {0, 8}
  BY Zenon DEF StreamIsMixed
<1>2. typed \in Seq(Byte) /\ sent \in Seq(Sizes)
  BY DEF TypeOK
<1>3. /\ SubSeq(typed, 1, Len(typed)) = typed
      /\ SubSeq(sent, 1, Len(sent)) = sent
  BY <1>2, SubSeqFull, Zenon
<1>4. guest # "dims"
  BY <1>1 DEF GuestFollows, InSize
<1>5. CASE BetweenItems
  <2>1. out = typed /\ applied = sent /\ matchLen = 0
    BY <1>1, <1>3, <1>5, Zenon DEF BetweenItems, Let
  <2>2. SubSeq(Magic, 1, matchLen) = <<>>
    BY <2>1, SubSeqEmpty
  <2>3. out \o <<>> = out
    BY <1>2, <2>1, ConcatEmptySeq, Zenon
  <2>4. out \o SubSeq(Magic, 1, matchLen) = typed
    BY <2>1, <2>2, <2>3, Zenon
  <2>5. matchLen <= 1
    BY <2>1
  <2>. QED BY <1>4, <2>1, <2>4, <2>5, Zenon
<1>6. CASE HoldsOneByte
  <2>1. at \in 0..Len(stream)
    BY Lengths
  <2>2. out \o SubSeq(Magic, 1, matchLen) = SubSeq(typed, 1, TextAt(at))
    BY <1>6, <2>1, HeldIsText
  <2>3. applied = sent /\ matchLen = 1
    BY <1>1, <1>3, <1>6, Zenon DEF HoldsOneByte, Let
  <2>. QED BY <1>1, <1>3, <1>4, <2>2, <2>3
<1>7. ~InMagic
  BY <1>1 DEF InMagic
<1>. QED BY <1>4, <1>5, <1>6, <1>7 DEF GuestFollows

LEMMA EndFollows ==
  ASSUME TypeOK, StreamIsMixed, GuestFollows, EndOfInput
  PROVE  GuestFollows'
<1>1. /\ at = Len(stream) /\ guest \in {"copy", "dims"} /\ guest' = "done"
      /\ out' = out \o SubSeq(Magic, 1, matchLen) /\ applied' = applied
      /\ typed' = typed /\ sent' = sent
  BY DEF EndOfInput, AtEOF, hostVars
<1>2. out' = typed' /\ applied' = sent'
  BY <1>1, NothingIsMissing
<1>. QED BY <1>1, <1>2 DEF GuestFollows

(* What came with the line is text if it holds no message's byte.          *)
LEMMA HandshakeFollows ==
  ASSUME TypeOK, Quiet, StreamIsMixed, NoEarlyResize',
         NEW k \in 0..Len(stream), Handshake(k)
  PROVE  GuestFollows'
<1>1. /\ guest' = "copy" /\ raw' = k /\ at' = k
      /\ out' = Bytes(SubSeq(stream, 1, k)) /\ matchLen' = 0 /\ applied' = <<>>
      /\ stream' = stream /\ typed' = typed /\ sent' = sent
  BY DEF Handshake, Quiet, hostVars
<1>2. k \in Nat /\ k <= Len(stream) /\ 0 \in 0..Len(stream)
  BY Lengths
<1>3. \A i \in 1..k : stream[i].part = 0
  BY <1>1 DEF NoEarlyResize
<1>4. ASSUME NEW i \in 0..k
      PROVE  PartAt(i) = 0 /\ MsgAt(i) = 0 /\ TextAt(i) = i
  <2>1. i \in 0..Len(stream) /\ 0 <= i /\ i \in Nat
    BY <1>2
  <2>2. \A r \in (0 + 1)..i : stream[r].part = 0
    BY <1>2, <1>3
  <2>3. MsgAt(i) = MsgAt(0)
    BY <1>2, <2>1, <2>2, Zenon DEF StreamIsMixed, TextBeginsNoMessage
  <2>4. MsgAt(0) = 0
    BY DEF MsgAt
  <2>5. PartAt(i) = 0
    BY <1>3 DEF PartAt
  <2>6. i = TextAt(i) + 8 * MsgAt(i) /\ TextAt(i) \in 0..Len(typed)
    BY <2>1, <2>5, BetweenIs
  <2>. QED BY <2>3, <2>4, <2>5, <2>6, Lengths
<1>5. k \in 0..Len(typed)
  <2>1. k \in 0..k
    BY <1>2
  <2>2. PartAt(k) = 0 /\ TextAt(k) = k
    BY <1>4, <2>1, Zenon
  <2>3. TextAt(k) \in 0..Len(typed)
    BY <2>2, BetweenIs
  <2>. QED BY <2>2, <2>3
<1>6. PICK u, v : u = Bytes(SubSeq(stream, 1, k)) /\ v = SubSeq(typed, 1, k)
  OBVIOUS
<1>7. /\ u \in Seq(Byte) /\ Len(u) = k
      /\ \A i \in 1..k : u[i] = stream[i].b
  <2>1. stream \in Seq(MarkedByte)
    BY DEF TypeOK
  <2>. QED BY <1>6, <2>1, FirstBytes, Zenon
<1>8. /\ v \in Seq(Byte) /\ Len(v) = k /\ \A i \in 1..k : v[i] = typed[i]
  <2>1. typed \in Seq(Byte)
    BY DEF TypeOK
  <2>. QED BY <1>5, <1>6, <2>1, PrefixIs, Zenon
<1>9. ASSUME NEW i \in 1..k PROVE stream[i].b = typed[i]
  <2>1. i \in 0..k /\ i # 0 /\ i \in 1..Len(stream)
    BY <1>2
  <2>2. TextAt(i) = i /\ stream[i].part = 0
    BY <1>3, <1>4, <2>1, Zenon
  <2>3. stream[i].text = i
    BY <2>1, <2>2, Zenon DEF TextAt
  <2>4. ByteIs(i)
    BY <2>1 DEF StreamIsMixed
  <2>5. stream[i].b = typed[stream[i].text]
    BY <2>2, <2>4 DEF ByteIs
  <2>. QED BY <2>3, <2>5, Zenon
<1>10. u = v
  BY <1>7, <1>8, <1>9, SeqEqual, Zenon
<1>11. PartAt(k) = 0 /\ MsgAt(k) = 0 /\ TextAt(k) = k
  <2>1. k \in 0..k
    BY <1>2
  <2>. QED BY <1>4, <2>1, Zenon
<1>12. SubSeq(sent, 1, 0) = <<>>
  BY SubSeqEmpty
<1>13. BetweenItems'
  <2>1. /\ TextAt(at)' = k /\ MsgAt(at)' = 0 /\ PartAt(at)' = 0
    BY <1>1, <1>11, PlacesStay
  <2>. QED BY <1>1, <1>6, <1>10, <1>12, <2>1 DEF BetweenItems, Let
<1>. QED BY <1>1, <1>13 DEF GuestFollows

(* The marks at a place count what was typed and the messages begun.       *)
LEMMA MarksAre ==
  ASSUME TypeOK, StreamIsMixed, NEW i \in 0..Len(stream)
  PROVE  /\ TextAt(i) \in 0..Len(typed) /\ MsgAt(i) \in 0..Len(sent)
         /\ PartAt(i) \in 1..8 => MsgAt(i) \in 1..Len(sent)
         /\ i # 0 /\ PartAt(i) = 0 => TextAt(i) \in 1..Len(typed)
<1>1. PICK t, m, p : t = TextAt(i) /\ m = MsgAt(i) /\ p = PartAt(i)
  OBVIOUS
<1>2. CASE i = 0
  BY <1>1, <1>2, Lengths DEF TextAt, MsgAt, PartAt
<1>3. CASE i # 0
  <2>1. i \in 1..Len(stream)
    BY <1>3
  <2>2. ByteIs(i) /\ t = stream[i].text /\ m = stream[i].msg /\ p = stream[i].part
    BY <1>1, <1>3, <2>1 DEF StreamIsMixed, TextAt, MsgAt, PartAt
  <2>3. CASE p = 0
    <3>1. t \in 1..Len(typed) /\ m \in 0..Len(sent)
      BY <2>2, <2>3, Zenon DEF ByteIs
    <3>. QED BY <1>1, <2>3, <3>1
  <2>4. CASE p # 0
    <3>1. t \in 0..Len(typed) /\ m \in 1..Len(sent)
      BY <2>2, <2>4, Zenon DEF ByteIs
    <3>. QED BY <1>1, <2>4, <3>1
  <2>. QED BY <2>3, <2>4
<1>. QED BY <1>2, <1>3

(* krun-exec adds to the stream behind the guest's place.                  *)
LEMMA HostFollows ==
  ASSUME TypeOK, TypeOK', Quiet, StreamIsMixed, GuestFollows, Grows,
         UNCHANGED guestVars, host = "ended" => typed' = typed /\ sent' = sent
  PROVE  GuestFollows'
<1>1. /\ guest' = guest /\ at' = at /\ got' = got /\ matchLen' = matchLen
      /\ dims' = dims /\ out' = out /\ applied' = applied
  BY DEF guestVars
<1>2. at \in 0..Len(stream)
  BY Lengths
<1>3. PICK i, t, m, p : i = at /\ t = TextAt(i) /\ m = MsgAt(i) /\ p = PartAt(i)
  OBVIOUS
<1>4. /\ TextAt(i)' = t /\ MsgAt(i)' = m /\ PartAt(i)' = p
  BY <1>2, <1>3, OldPlaces
<1>5. /\ TextAt(at)' = t /\ MsgAt(at)' = m /\ PartAt(at)' = p
  BY <1>1, <1>3, <1>4 DEF TextAt, MsgAt, PartAt
<1>6. /\ t \in 0..Len(typed) /\ m \in 0..Len(sent)
      /\ i # 0 => stream'[i] = stream[i]
      /\ p \in 1..8 => m \in 1..Len(sent)
      /\ i # 0 /\ p = 0 => t \in 1..Len(typed)
  <2>1. i # 0 => i \in 1..Len(stream) /\ stream'[i] = stream[i]
    BY <1>2, <1>3 DEF Grows
  <2>. QED BY <1>2, <1>3, <2>1, MarksAre, Zenon
<1>7. ASSUME NEW a \in 0..Len(typed) PROVE SubSeq(typed', 1, a) = SubSeq(typed, 1, a)
  <2>1. typed \in Seq(Byte) /\ typed' \in Seq(Byte)
    BY DEF TypeOK
  <2>2. a <= Len(typed') /\ \A j \in 1..a : typed[j] = typed'[j]
    BY Lengths, LenProperties, <2>1 DEF Grows
  <2>. QED BY <2>1, <2>2, SamePrefix, Zenon
<1>8. ASSUME NEW a \in 0..Len(sent) PROVE SubSeq(sent', 1, a) = SubSeq(sent, 1, a)
  <2>1. sent \in Seq(Sizes) /\ sent' \in Seq(Sizes)
    BY DEF TypeOK
  <2>2. a <= Len(sent') /\ \A j \in 1..a : sent[j] = sent'[j]
    BY Lengths, LenProperties, <2>1 DEF Grows
  <2>. QED BY <2>1, <2>2, SamePrefix, Zenon
<1>9. CASE guest = "copy"
  <2>1. CASE BetweenItems
    <3>1. BetweenItems'
      BY <1>1, <1>3, <1>5, <1>6, <1>7, <1>8, <2>1, Zenon DEF BetweenItems, Let
    <3>. QED BY <1>1, <1>9, <3>1 DEF GuestFollows
  <2>2. CASE HoldsOneByte
    <3>1. i # 0 /\ p = 0 /\ t - 1 \in 0..Len(typed)
      BY <1>2, <1>3, <1>6, <2>2, Lengths DEF HoldsOneByte
    <3>2. stream'[at'].b = "A"
      BY <1>1, <1>3, <1>6, <2>2, <3>1, Zenon DEF HoldsOneByte
    <3>3. HoldsOneByte'
      BY <1>1, <1>3, <1>5, <1>6, <1>7, <1>8, <2>2, <3>1, <3>2, Zenon
         DEF HoldsOneByte, Let
    <3>. QED BY <1>1, <1>9, <3>3 DEF GuestFollows
  <2>3. CASE InMagic
    <3>1. m - 1 \in 0..Len(sent)
      BY <1>3, <1>6, <2>3, Lengths DEF InMagic
    <3>2. InMagic'
      BY <1>1, <1>3, <1>5, <1>6, <1>7, <1>8, <2>3, <3>1, Zenon DEF InMagic, Let
    <3>. QED BY <1>1, <1>9, <3>2 DEF GuestFollows
  <2>. QED BY <1>9, <2>1, <2>2, <2>3 DEF GuestFollows
<1>10. CASE guest = "dims"
  <2>1. InSize /\ p \in 4..7
    BY <1>3, <1>10 DEF GuestFollows, InSize
  <2>2. m \in 1..Len(sent) /\ m - 1 \in 0..Len(sent)
    BY <1>6, <2>1, Lengths
  <2>3. sent'[m] = sent[m]
    BY <2>2 DEF Grows
  <2>4. InSize'
    BY <1>1, <1>3, <1>5, <1>6, <1>7, <1>8, <2>1, <2>2, <2>3, Zenon DEF InSize, Let
  <2>. QED BY <1>1, <1>10, <2>4 DEF GuestFollows
<1>11. CASE guest = "done"
  BY <1>1, <1>11 DEF GuestFollows, Quiet
<1>. QED BY <1>1, <1>9, <1>10, <1>11, Zenon DEF GuestFollows

(* Nothing the guest goes by changes.                                      *)
LEMMA Stays ==
  ASSUME GuestFollows,
         guest' = guest, at' = at, matchLen' = matchLen, out' = out,
         applied' = applied, dims' = dims, stream' = stream, typed' = typed,
         sent' = sent
  PROVE  GuestFollows'
BY Zenon DEF GuestFollows, BetweenItems, HoldsOneByte, InMagic, InSize, Let,
             TextAt, MsgAt, PartAt

LEMMA HostGrows ==
  ASSUME TypeOK, HostActs, ~broken'
  PROVE  /\ Grows /\ UNCHANGED guestVars /\ ~broken
         /\ host = "ended" => typed' = typed /\ sent' = sent
<1>0. ~Break
  BY DEF Break
<1>1. /\ UNCHANGED guestVars /\ ~broken
      /\ host = "ended" => typed' = typed /\ sent' = sent
  <2>1. UNCHANGED guestVars /\ broken' = broken
    BY <1>0, Zenon DEF HostActs, Resize, SendHandshake, Notify, PollWinch,
                       SendResize, Type, ReadTimeout, StdinEnds
  <2>2. host = "ended" => typed' = typed /\ sent' = sent
    BY <1>0 DEF HostActs, Resize, SendHandshake, Notify, PollWinch,
                SendResize, Type, ReadTimeout, StdinEnds, HostAt
  <2>. QED BY <2>1, <2>2, Zenon
<1>2. \/ SendResize \/ \E b \in Byte : Type(b)
      \/ stream' = stream /\ typed' = typed /\ sent' = sent
  BY DEF HostActs, Resize, SendHandshake, Notify, PollWinch,
         ReadTimeout, StdinEnds, Break
<1>3. stream' = stream /\ typed' = typed /\ sent' = sent => Grows
  BY Lengths DEF Grows
<1>. QED BY <1>1, <1>2, <1>3, SendGrows, TypeGrows

LEMMA EarlierText ==
  ASSUME TypeOK, Grows, NoPrefixTyped'
  PROVE  NoPrefixTyped
<1>1. ASSUME NEW i \in 1..(Len(typed) - 1)
      PROVE  ~(typed[i] = "A" /\ typed[i + 1] = "B")
  <2>1. /\ i \in 1..(Len(typed') - 1) /\ i \in 1..Len(typed)
        /\ i + 1 \in 1..Len(typed) /\ Len(typed') \in Nat
    <3>1. Len(typed') >= Len(typed) /\ Len(typed') \in Nat
      BY LenProperties DEF Grows
    <3>. QED BY <3>1, Lengths
  <2>2. ~(typed'[i] = "A" /\ typed'[i + 1] = "B")
    BY <2>1 DEF NoPrefixTyped
  <2>. QED BY <2>1, <2>2 DEF Grows
<1>. QED BY <1>1 DEF NoPrefixTyped

LEMMA FollowsStep ==
  ASSUME IInv, TypeOK', [Next]_vars, Undisturbed'
  PROVE  GuestFollows'
<1>. USE DEF IInv
<1>1. CASE HostActs
  <2>1. /\ Grows /\ UNCHANGED guestVars /\ ~broken
        /\ host = "ended" => typed' = typed /\ sent' = sent
    BY <1>1, HostGrows DEF Undisturbed
  <2>2. NoPrefixTyped
    BY <2>1, EarlierText DEF Undisturbed
  <2>3. NoEarlyResize
    <3>1. ASSUME NEW i \in 1..raw PROVE stream[i].part = 0
      <4>1. i \in 1..Len(stream) /\ raw' = raw
        BY <2>1, Lengths DEF TypeOK, guestVars
      <4>. QED BY <2>1, <4>1 DEF Undisturbed, NoEarlyResize, Grows
    <3>. QED BY <3>1 DEF NoEarlyResize
  <2>. QED BY <2>1, <2>2, <2>3, HostFollows DEF Undisturbed
<1>2. ASSUME NEW k \in 0..Len(stream), Handshake(k) PROVE GuestFollows'
  <2>1. ~broken /\ NoEarlyResize'
    BY <1>2 DEF Handshake, hostVars, Undisturbed
  <2>. QED BY <1>2, <2>1, HandshakeFollows
<1>3. CASE UNCHANGED <<hostVars, raw>>
  <2>1. StreamIsMixed /\ NoPrefixTyped /\ GuestFollows
    BY <1>3 DEF hostVars, Undisturbed, NoPrefixTyped, NoEarlyResize
  <2>2. CASE Read
    <3>1. /\ guest' = guest /\ at' = at /\ matchLen' = matchLen /\ out' = out
          /\ applied' = applied /\ dims' = dims /\ guest = "copy"
          /\ stream' = stream /\ typed' = typed /\ sent' = sent
      BY <2>2 DEF Read, hostVars
    <3>. QED BY <2>1, <3>1, Stays
  <2>3. CASE Match
    BY <2>1, <2>3, MatchFollows
  <2>4. CASE MatchLast
    BY <2>1, <2>4, MatchLastFollows
  <2>5. CASE Flush
    BY <2>1, <2>5, FlushFollows
  <2>6. CASE Copy
    BY <2>1, <2>6, CopyFollows
  <2>7. ASSUME NEW k \in 1..Min({4, Len(stream) - got}), ReadDims(k)
        PROVE  GuestFollows'
    BY <2>1, <2>7, ReadDimsFollows
  <2>8. CASE EndOfInput
    BY <2>1, <2>8, EndFollows
  <2>9. CASE UNCHANGED vars
    <3>1. /\ guest' = guest /\ at' = at /\ matchLen' = matchLen /\ out' = out
          /\ applied' = applied /\ dims' = dims
          /\ stream' = stream /\ typed' = typed /\ sent' = sent
      BY <2>9 DEF vars, hostVars, guestVars
    <3>. QED BY <2>1, <3>1, Stays
  <2>10. CASE HostActs
    BY <1>1, <2>10
  <2>11. CASE \E k \in 0..Len(stream) : Handshake(k)
    BY <1>2, <2>11
  <2>. QED
    BY <2>2, <2>3, <2>4, <2>5, <2>6, <2>7, <2>8, <2>9, <2>10, <2>11, Actors
       DEF GuestActs
<1>4. \/ HostActs \/ UNCHANGED <<hostVars, raw>>
      \/ \E k \in 0..Len(stream) : Handshake(k)
  BY Actors DEF GuestActs, Read, Match, MatchLast, Flush, Copy, ReadDims,
                EndOfInput, vars, guestVars
<1>. QED BY <1>1, <1>2, <1>3, <1>4

-----------------------------------------------------------------------------
(* The inductive invariant and what it says                                *)

LEMMA InitInv == Init => IInv
<1>. SUFFICES ASSUME Init PROVE IInv
  OBVIOUS
<1>1. /\ stream = <<>> /\ typed = <<>> /\ sent = <<>> /\ host = "start"
      /\ guest = "handshake" /\ at = 0 /\ got = 0 /\ matchLen = 0
      /\ dims = <<>> /\ out = <<>> /\ applied = <<>>
  BY Zenon DEF Init
<1>2. TypeOK
  BY InitType
<1>3. Quiet /\ LastIsCurrent
  BY <1>1 DEF Quiet, LastIsCurrent
<1>4. Len(stream) = 0 /\ Len(typed) = 0 /\ Len(sent) = 0
  BY <1>1
<1>5. StreamIsMixed
  <2>1. TextAt(0) = 0 /\ MsgAt(0) = 0 /\ PartAt(0) = 0
    BY DEF TextAt, MsgAt, PartAt
  <2>2. TextBeginsNoMessage
    BY <1>4 DEF TextBeginsNoMessage
  <2>. QED BY <1>4, <2>1, <2>2 DEF StreamIsMixed
<1>6. GuestFollows
  BY <1>1 DEF GuestFollows
<1>. QED BY <1>2, <1>3, <1>5, <1>6 DEF IInv

LEMMA InvStep == IInv /\ [Next]_vars => IInv'
<1>. SUFFICES ASSUME IInv, [Next]_vars PROVE IInv'
  OBVIOUS
<1>1. TypeOK'
  BY TypeStep DEF IInv
<1>2. Quiet' /\ LastIsCurrent'
  BY QuietStep, LastStep DEF IInv
<1>3. ~broken' => StreamIsMixed'
  BY MixedStep DEF IInv
<1>4. Undisturbed' => GuestFollows'
  BY <1>1, FollowsStep
<1>. QED BY <1>1, <1>2, <1>3, <1>4 DEF IInv

LEMMA InvText == IInv => TextIsUntouched
<1>. SUFFICES ASSUME IInv, Undisturbed PROVE
       /\ IsPrefix(out, typed) /\ IsPrefix(applied, sent)
       /\ guest = "done" => out = typed /\ applied = sent
       /\ guest = "copy" /\ at = Len(stream) =>
            /\ out \o SubSeq(Magic, 1, matchLen) = typed
            /\ matchLen <= 1
  BY Zenon DEF TextIsUntouched
<1>1. TypeOK /\ StreamIsMixed /\ GuestFollows /\ Quiet
  BY DEF IInv, Undisturbed
<1>2. /\ guest = "done" => out = typed /\ applied = sent
      /\ guest = "copy" /\ at = Len(stream) =>
           /\ out \o SubSeq(Magic, 1, matchLen) = typed
           /\ matchLen <= 1
  BY <1>1, NothingIsMissing DEF GuestFollows
<1>3. /\ typed \in Seq(Byte) /\ sent \in Seq(Sizes)
      /\ 0 \in 0..Len(typed) /\ 0 \in 0..Len(sent)
  BY <1>1, Lengths DEF TypeOK
<1>4. \/ \E t \in 0..Len(typed), m \in 0..Len(sent) : Let(t, m)
      \/ out = typed /\ applied = sent
  <2>1. CASE guest = "handshake"
    <3>1. out = <<>> /\ applied = <<>>
      BY <1>1, <2>1 DEF Quiet
    <3>2. SubSeq(typed, 1, 0) = <<>> /\ SubSeq(sent, 1, 0) = <<>>
      BY SubSeqEmpty
    <3>. QED BY <1>3, <3>1, <3>2, Zenon DEF Let
  <2>2. CASE guest \in {"copy", "dims"}
    <3>1. PICK t, m, p : t = TextAt(at) /\ m = MsgAt(at) /\ p = PartAt(at)
      OBVIOUS
    <3>2. at \in 0..Len(stream)
      BY <1>1, Lengths
    <3>3. /\ t \in 0..Len(typed) /\ m \in 0..Len(sent)
          /\ p \in 1..8 => m \in 1..Len(sent)
          /\ at # 0 /\ p = 0 => t \in 1..Len(typed)
      BY <1>1, <3>1, <3>2, MarksAre, Zenon
    <3>4. BetweenItems \/ HoldsOneByte \/ InMagic \/ InSize
      BY <1>1, <2>2 DEF GuestFollows
    <3>5. CASE BetweenItems
      BY <3>1, <3>3, <3>5, Zenon DEF BetweenItems
    <3>6. CASE HoldsOneByte
      <4>1. t - 1 \in 0..Len(typed)
        BY <1>1, <3>1, <3>3, <3>6, Lengths DEF HoldsOneByte
      <4>. QED BY <3>1, <3>3, <3>6, <4>1, Zenon DEF HoldsOneByte
    <3>7. CASE InMagic \/ InSize
      <4>1. p \in 1..8
        BY <3>1, <3>7 DEF InMagic, InSize
      <4>2. m - 1 \in 0..Len(sent)
        BY <1>1, <3>3, <4>1, Lengths
      <4>. QED BY <3>1, <3>3, <3>7, <4>2, Zenon DEF InMagic, InSize
    <3>. QED BY <3>4, <3>5, <3>6, <3>7, Zenon
  <2>3. CASE guest = "done"
    BY <1>2, <2>3, Zenon
  <2>. QED BY <1>1, <2>1, <2>2, <2>3 DEF TypeOK
<1>5. IsPrefix(out, typed) /\ IsPrefix(applied, sent)
  <2>1. ASSUME NEW t \in 0..Len(typed), NEW m \in 0..Len(sent), Let(t, m)
        PROVE  IsPrefix(out, typed) /\ IsPrefix(applied, sent)
    BY <1>3, <2>1, PrefixOf, Zenon DEF Let
  <2>2. CASE out = typed /\ applied = sent
    <3>1. /\ Len(typed) \in 0..Len(typed) /\ Len(sent) \in 0..Len(sent)
          /\ SubSeq(typed, 1, Len(typed)) = typed
          /\ SubSeq(sent, 1, Len(sent)) = sent
      BY <1>1, <1>3, Lengths, SubSeqFull
    <3>. QED BY <1>3, <2>2, <3>1, PrefixOf, Zenon
  <2>. QED BY <1>4, <2>1, <2>2, Zenon
<1>. QED BY <1>2, <1>5, Zenon

LEMMA InvPty == IInv => PtyFollowsTerminal
<1>. SUFFICES ASSUME IInv, Undisturbed, ~winch, host \in {"poll", "read"},
                     sent # <<>>, guest = "copy", at = Len(stream)
              PROVE  applied # <<>> /\ Last(applied) = window
  BY Zenon DEF PtyFollowsTerminal
<1>1. TypeOK /\ StreamIsMixed /\ GuestFollows /\ LastIsCurrent
  BY DEF IInv, Undisturbed
<1>2. applied = sent
  BY <1>1, NothingIsMissing
<1>3. sent[Len(sent)] = window
  BY <1>1, Zenon DEF LastIsCurrent
<1>. QED BY <1>2, <1>3, Zenon DEF Last

LEMMA Inductive == Spec => []IInv
BY InitInv, InvStep, PTL DEF Spec

(* However the stream is cut into reads, while nobody types the beginning  *)
(* of the magic prefix the shell gets what is typed, in order and in the   *)
(* end all of it, and the PTY the sizes sent (resize.go:54-119).           *)
THEOREM TextKept == Spec => []TextIsUntouched
BY Inductive, InvText, PTL

(* When all is quiet the PTY has the terminal's size, however its changes, *)
(* the signals and the reads of the size interleave                        *)
(* (krun-exec main.go:147-153, 173).                                       *)
THEOREM TerminalFollowed == Spec => []PtyFollowsTerminal
BY Inductive, InvPty, PTL

-----------------------------------------------------------------------------
(* What any bytes mean: Decode solves its equation.  There is no induction *)
(* over an operator here, but a set of numbers that has the next of each   *)
(* of its own has them all, and a set can say what an operator would.      *)

Less == {ss \in Nat \X Nat : ss[1] < ss[2]}

LEMMA SetInduction ==
  ASSUME NEW S, 0 \in S, \A n \in Nat : n \in S => n + 1 \in S
  PROVE  \A n \in Nat : n \in S
<1>1. IsWellFoundedOn(Less, Nat)
  <2>1. OpToRel(<, Nat) = Less
    BY Zenon DEF OpToRel, Less
  <2>. QED BY <2>1, NatLessThanWellFounded, Zenon
<1>. SUFFICES ASSUME NEW n \in Nat, n \notin S PROVE FALSE
  OBVIOUS
<1>2. PICK T : T = Nat \ S
  OBVIOUS
<1>3. T \subseteq Nat /\ T # {}
  BY <1>2
<1>4. PICK m \in T : \A y \in T : ~ (<<y, m>> \in Less)
  BY <1>1, <1>3, WFMin, Zenon
<1>5. m \in Nat /\ m \notin S /\ m # 0
  BY <1>2, <1>4
<1>6. m - 1 \in Nat /\ (m - 1) + 1 = m
  BY <1>5
<1>7. <<m - 1, m>> \in Less
  BY <1>5, <1>6 DEF Less
<1>8. m - 1 \in S
  BY <1>2, <1>4, <1>6, <1>7, Zenon
<1>. QED BY <1>5, <1>6, <1>8, Zenon

LEMMA Stretch ==
  ASSUME NEW S, NEW s \in Seq(S), NEW p \in Nat, NEW n \in Nat, p + n <= Len(s)
  PROVE  LET u == SubSeq(s, p + 1, p + n)
         IN  /\ u \in Seq(S) /\ Len(u) = n
             /\ \A i \in 1..n : u[i] = s[p + i]
<1>1. \A i \in (p + 1)..(p + n) : s[i] \in S
  BY ElementOfSeq
<1>. QED BY <1>1, SubSeqProperties

LEMMA StretchIs ==
  ASSUME NEW S, NEW s \in Seq(S), NEW p \in Nat, NEW n \in Nat, p + n <= Len(s),
         NEW u \in Seq(S), Len(u) = n, \A i \in 1..n : u[i] = s[p + i]
  PROVE  SubSeq(s, p + 1, p + n) = u
<1>1. PICK v : v = SubSeq(s, p + 1, p + n)
  OBVIOUS
<1>2. v \in Seq(S) /\ Len(v) = n /\ \A i \in 1..n : v[i] = s[p + i]
  BY <1>1, Stretch
<1>3. v = u
  BY <1>2, SeqEqual, Zenon
<1>. QED BY <1>1, <1>3

(* What a stretch of bytes can mean.                                       *)
Meaning == [text : Seq(Byte), sizes : Seq([1..4 -> Byte])]

(* Is f what Decode says from lo on?                                       *)
Solves(s, f, lo) ==
  f = [i \in lo..(Len(s) + 8) |-> Means(s, f, i)]

(* One byte more in front.                                                 *)
LEMMA SolvedFurther ==
  ASSUME NEW s \in Seq(Byte), NEW lo \in Int, lo <= Len(s) + 8,
         NEW f, Solves(s, f, lo)
  PROVE  \E g : Solves(s, g, lo - 1)
<1>1. PICK hi : hi = Len(s) + 8
  OBVIOUS
<1>2. Len(s) \in Nat /\ hi \in Int
  BY <1>1, LenProperties
<1>3. \A i \in lo..hi : f[i] = Means(s, f, i)
  BY <1>1, Zenon DEF Solves
<1>4. PICK g : g = [i \in (lo - 1)..hi |->
                      IF i = lo - 1 THEN Means(s, f, i) ELSE f[i]]
  OBVIOUS
<1>5. \A i \in lo..hi : g[i] = f[i]
  BY <1>2, <1>4
<1>6. ASSUME NEW i \in (lo - 1)..hi PROVE Means(s, g, i) = Means(s, f, i)
  <2>1. CASE i > Len(s)
    BY <2>1, Zenon DEF Means
  <2>2. CASE ~(i > Len(s))
    <3>1. i + 1 \in lo..hi /\ i + 8 \in lo..hi
      BY <1>1, <1>2, <2>2
    <3>2. g[i + 1] = f[i + 1] /\ g[i + 8] = f[i + 8]
      BY <1>5, <3>1, Zenon
    <3>. QED BY <3>2, Zenon DEF Means
  <2>. QED BY <2>1, <2>2
<1>7. ASSUME NEW i \in (lo - 1)..hi PROVE g[i] = Means(s, g, i)
  <2>1. CASE i = lo - 1
    BY <1>4, <1>6, <2>1, Zenon
  <2>2. CASE i # lo - 1
    <3>1. i \in lo..hi
      BY <1>2, <2>2
    <3>. QED BY <1>3, <1>5, <1>6, <3>1, Zenon
  <2>. QED BY <2>1, <2>2
<1>8. g = [i \in (lo - 1)..hi |-> Means(s, g, i)]
  <2>1. g = [i \in (lo - 1)..hi |-> g[i]]
    BY <1>4, Zenon
  <2>. QED BY <1>7, <2>1, Zenon
<1>. QED BY <1>1, <1>8, Zenon DEF Solves

LEMMA MeansType ==
  ASSUME NEW s \in Seq(Byte), NEW f, NEW i \in Nat \ {0},
         i <= Len(s) => f[i + 1] \in Meaning /\ f[i + 8] \in Meaning
  PROVE  Means(s, f, i) \in Meaning
<1>1. Len(s) \in Nat
  BY LenProperties
<1>2. PICK S, F : S = Seq(Byte) /\ F = Seq([1..4 -> Byte])
  OBVIOUS
<1>3. Meaning = [text : S, sizes : F]
  BY <1>2, Zenon DEF Meaning
<1>4. CASE i > Len(s)
  <2>1. <<>> \in S /\ <<>> \in F
    BY <1>2, EmptySeq, Zenon
  <2>2. Means(s, f, i) = [text |-> <<>>, sizes |-> <<>>]
    BY <1>4, Zenon DEF Means
  <2>. QED BY <1>3, <2>1, <2>2
<1>5. CASE i <= Len(s)
  <2>0. ~(i > Len(s)) /\ i \in 1..Len(s)
    BY <1>1, <1>5
  <2>1. PICK e, g : e = f[i + 1] /\ g = f[i + 8]
    OBVIOUS
  <2>2. e.text \in S /\ e.sizes \in F /\ g.text \in S /\ g.sizes \in F
    BY <1>3, <1>5, <2>1
  <2>3. s[i] \in Byte
    BY <2>0, ElementOfSeq, Zenon
  <2>4. <<s[i]>> \o e.text \in S
    <3>1. <<s[i]>> \in Seq(Byte)
      BY <2>3
    <3>. QED BY <1>2, <2>2, <3>1, ConcatProperties, Zenon
  <2>5. SizeAfter(s, i) \in F
    <3>1. CASE i + 7 <= Len(s)
      <4>1. PICK z : z = SubSeq(s, i + 4, i + 7)
        OBVIOUS
      <4>2. /\ i + 3 \in Nat /\ 4 \in Nat /\ (i + 3) + 4 <= Len(s)
            /\ (i + 3) + 1 = i + 4 /\ (i + 3) + 4 = i + 7
        BY <1>1, <3>1
      <4>3. LET u == SubSeq(s, (i + 3) + 1, (i + 3) + 4)
            IN  /\ u \in Seq(Byte) /\ Len(u) = 4
                /\ \A k \in 1..4 : u[k] = s[(i + 3) + k]
        BY <4>2, Stretch
      <4>4. z \in Seq(Byte) /\ Len(z) = 4
        BY <4>1, <4>2, <4>3, Zenon
      <4>5. z \in [1..4 -> Byte]
        BY <4>4, LenProperties, Zenon
      <4>6. <<z>> \in Seq([1..4 -> Byte])
        BY <4>5
      <4>. QED BY <1>2, <3>1, <4>1, <4>6, Zenon DEF SizeAfter
    <3>2. CASE ~(i + 7 <= Len(s))
      BY <1>2, <3>2, EmptySeq, Zenon DEF SizeAfter
    <3>. QED BY <3>1, <3>2
  <2>6. SizeAfter(s, i) \o g.sizes \in F
    BY <1>2, <2>2, <2>5, ConcatProperties, Zenon
  <2>7. CASE MagicAt(s, i)
    <3>1. Means(s, f, i) = [text |-> g.text, sizes |-> SizeAfter(s, i) \o g.sizes]
      BY <2>0, <2>1, <2>7, Zenon DEF Means
    <3>2. PICK z : z = SizeAfter(s, i) \o g.sizes
      OBVIOUS
    <3>. QED BY <1>3, <2>2, <2>6, <3>1, <3>2
  <2>8. CASE ~MagicAt(s, i)
    <3>1. Means(s, f, i) = [text |-> <<s[i]>> \o e.text, sizes |-> e.sizes]
      BY <2>0, <2>1, <2>8, Zenon DEF Means
    <3>2. PICK z : z = <<s[i]>> \o e.text
      OBVIOUS
    <3>. QED BY <1>3, <2>2, <2>4, <3>1, <3>2
  <2>. QED BY <2>7, <2>8
<1>. QED BY <1>1, <1>4, <1>5

(* The recursion of Decode has a solution: Decode is what its definition   *)
(* says, for every stream.                                                 *)
LEMMA DecodeIs ==
  ASSUME NEW s \in Seq(Byte)
  PROVE  \A i \in 1..(Len(s) + 8) : /\ Decode(s)[i] = Means(s, Decode(s), i)
                                   /\ Decode(s)[i] \in Meaning
<1>1. PICK hi : hi = Len(s) + 8
  OBVIOUS
<1>2. Len(s) \in Nat /\ hi \in Nat /\ hi >= 8
  BY <1>1, LenProperties
<1>3. \E f : Solves(s, f, 1)
  <2>. DEFINE S == {n \in Nat : n < hi => \E f : Solves(s, f, hi - n)}
  <2>1. 0 \in S
    <3>1. \E f : Solves(s, f, hi)
      <4>1. PICK f : f = [i \in hi..hi |-> [text |-> <<>>, sizes |-> <<>>]]
        OBVIOUS
      <4>2. ASSUME NEW i \in hi..hi
            PROVE  Means(s, f, i) = [text |-> <<>>, sizes |-> <<>>]
        <5>1. i > Len(s)
          BY <1>1, <1>2
        <5>. QED BY <5>1, Zenon DEF Means
      <4>3. f = [i \in hi..hi |-> Means(s, f, i)]
        BY <4>1, <4>2, Zenon
      <4>. QED BY <1>1, <4>3, Zenon DEF Solves
    <3>2. hi - 0 = hi
      BY <1>2
    <3>. QED BY <3>1, <3>2
  <2>2. ASSUME NEW n \in Nat, n \in S PROVE n + 1 \in S
    <3>. SUFFICES ASSUME n + 1 < hi PROVE \E f : Solves(s, f, hi - (n + 1))
      OBVIOUS
    <3>1. n < hi /\ hi - n \in Int /\ hi - n <= Len(s) + 8
          /\ hi - (n + 1) = (hi - n) - 1
      BY <1>1, <1>2
    <3>2. PICK f : Solves(s, f, hi - n)
      BY <2>2, <3>1
    <3>3. \E g : Solves(s, g, (hi - n) - 1)
      BY <3>1, <3>2, SolvedFurther, Zenon
    <3>. QED BY <3>1, <3>3, Zenon
  <2>3. \A n \in Nat : n \in S
    <3>. HIDE DEF S
    <3>. QED BY <2>1, <2>2, SetInduction, Zenon
  <2>4. hi - 1 \in Nat /\ hi - 1 < hi /\ hi - (hi - 1) = 1
    BY <1>2
  <2>. QED BY <2>3, <2>4
<1>4. Solves(s, Decode(s), 1)
  <2>1. Solves(s, CHOOSE f : Solves(s, f, 1), 1)
    BY <1>3, Zenon
  <2>2. Decode(s) = CHOOSE f : Solves(s, f, 1)
    BY Zenon DEF Decode, Solves
  <2>. QED BY <2>1, <2>2, Zenon
<1>5. PICK d : d = Decode(s)
  OBVIOUS
<1>6. \A i \in 1..hi : d[i] = Means(s, d, i)
  BY <1>1, <1>4, <1>5, Zenon DEF Solves
<1>7. \A i \in 1..hi : d[i] \in Meaning
  <2>. DEFINE S == {n \in Nat : \A i \in 1..hi : hi - i <= n => d[i] \in Meaning}
  <2>1. 0 \in S
    <3>. SUFFICES ASSUME NEW i \in 1..hi, hi - i <= 0 PROVE d[i] \in Meaning
      OBVIOUS
    <3>1. i > Len(s) /\ ~(i <= Len(s)) /\ i \in Nat \ {0}
      BY <1>1, <1>2
    <3>2. Means(s, d, i) \in Meaning
      BY <3>1, MeansType, Zenon
    <3>. QED BY <1>6, <3>2, Zenon
  <2>2. ASSUME NEW n \in Nat, n \in S PROVE n + 1 \in S
    <3>. SUFFICES ASSUME NEW i \in 1..hi, hi - i <= n + 1 PROVE d[i] \in Meaning
      OBVIOUS
    <3>1. i \in Nat \ {0}
      BY <1>2
    <3>2. ASSUME i <= Len(s) PROVE d[i + 1] \in Meaning /\ d[i + 8] \in Meaning
      <4>1. /\ i + 1 \in 1..hi /\ hi - (i + 1) <= n
            /\ i + 8 \in 1..hi /\ hi - (i + 8) <= n
        BY <1>1, <1>2, <3>2
      <4>2. \A j \in 1..hi : hi - j <= n => d[j] \in Meaning
        BY <2>2
      <4>. QED BY <4>1, <4>2, Zenon
    <3>3. Means(s, d, i) \in Meaning
      BY <3>1, <3>2, MeansType, Zenon
    <3>. QED BY <1>6, <3>3, Zenon
  <2>3. \A n \in Nat : n \in S
    <3>. HIDE DEF S
    <3>. QED BY <2>1, <2>2, SetInduction, Zenon
  <2>4. hi \in S
    BY <1>2, <2>3
  <2>5. \A i \in 1..hi : hi - i <= hi
    BY <1>2
  <2>. QED BY <2>4, <2>5
<1>. QED BY <1>1, <1>5, <1>6, <1>7, Zenon

(* What the bytes after the first p mean.                                  *)
After(s, p) == Decode(s)[p + 1]

LEMMA AfterType ==
  ASSUME NEW s \in Seq(Byte), NEW p \in Nat, p < Len(s) + 8
  PROVE  /\ After(s, p).text \in Seq(Byte)
         /\ After(s, p).sizes \in Seq([1..4 -> Byte])
<1>1. p + 1 \in 1..(Len(s) + 8)
  BY LenProperties
<1>2. After(s, p) \in Meaning
  BY <1>1, DecodeIs, Zenon DEF After
<1>3. PICK S, F : S = Seq(Byte) /\ F = Seq([1..4 -> Byte])
  OBVIOUS
<1>4. After(s, p) \in [text : S, sizes : F]
  BY <1>2, <1>3, Zenon DEF Meaning
<1>. QED BY <1>3, <1>4

LEMMA AfterAll ==
  ASSUME NEW s \in Seq(Byte), NEW p \in Nat, Len(s) <= p, p < Len(s) + 8
  PROVE  After(s, p).text = <<>> /\ After(s, p).sizes = <<>>
<1>1. p + 1 \in 1..(Len(s) + 8) /\ p + 1 > Len(s)
  BY LenProperties
<1>2. After(s, p) = Means(s, Decode(s), p + 1)
  BY <1>1, DecodeIs, Zenon DEF After
<1>3. After(s, p) = [text |-> <<>>, sizes |-> <<>>]
  BY <1>1, <1>2, Zenon DEF Means
<1>. QED BY <1>3

LEMMA AfterText ==
  ASSUME NEW s \in Seq(Byte), NEW p \in Nat, p < Len(s), ~MagicAt(s, p + 1)
  PROVE  /\ After(s, p).text = <<s[p + 1]>> \o After(s, p + 1).text
         /\ After(s, p).sizes = After(s, p + 1).sizes
<1>1. p + 1 \in 1..(Len(s) + 8) /\ ~(p + 1 > Len(s))
  BY LenProperties
<1>2. After(s, p) = Means(s, Decode(s), p + 1)
  BY <1>1, DecodeIs, Zenon DEF After
<1>3. After(s, p) = [text |-> <<s[p + 1]>> \o After(s, p + 1).text,
                     sizes |-> After(s, p + 1).sizes]
  BY <1>1, <1>2, Zenon DEF Means, After
<1>. QED BY <1>3

LEMMA AfterMagic ==
  ASSUME NEW s \in Seq(Byte), NEW p \in Nat, MagicAt(s, p + 1)
  PROVE  /\ After(s, p).text = After(s, p + 8).text
         /\ After(s, p).sizes = SizeAfter(s, p + 1) \o After(s, p + 8).sizes
<1>0. Len(s) \in Nat /\ p + 4 <= Len(s)
  BY LenProperties DEF MagicAt
<1>1. /\ p + 1 \in 1..(Len(s) + 8) /\ ~(p + 1 > Len(s))
      /\ (p + 1) + 8 = (p + 8) + 1
  BY <1>0
<1>2. After(s, p) = Means(s, Decode(s), p + 1)
  BY <1>1, DecodeIs, Zenon DEF After
<1>3. Decode(s)[(p + 1) + 8] = After(s, p + 8)
  BY <1>1, Zenon DEF After
<1>4. Means(s, Decode(s), p + 1)
        = [text  |-> Decode(s)[(p + 1) + 8].text,
           sizes |-> SizeAfter(s, p + 1) \o Decode(s)[(p + 1) + 8].sizes]
  BY <1>1, Zenon DEF Means
<1>5. After(s, p) = [text |-> After(s, p + 8).text,
                     sizes |-> SizeAfter(s, p + 1) \o After(s, p + 8).sizes]
  BY <1>2, <1>3, <1>4, Zenon
<1>6. PICK x, z : /\ x = After(s, p + 8).text
                  /\ z = SizeAfter(s, p + 1) \o After(s, p + 8).sizes
  OBVIOUS
<1>7. After(s, p) = [text |-> x, sizes |-> z]
  BY <1>5, <1>6, Zenon
<1>8. After(s, p).text = x /\ After(s, p).sizes = z
  BY <1>7
<1>. QED BY <1>6, <1>8, Zenon

LEMMA Regrouped ==
  ASSUME NEW x \in Seq(Byte), NEW y \in Seq(Byte), NEW z \in Seq(Byte)
  PROVE  (x \o y) \o z = x \o (y \o z)
<1>. PICK S : S = Byte
  OBVIOUS
<1>1. x \in Seq(S) /\ y \in Seq(S) /\ z \in Seq(S)
  OBVIOUS
<1>. QED BY <1>1, ConcatAssociative

(* A stretch where no message begins is text.                              *)
LEMMA TextRun ==
  ASSUME NEW s \in Seq(Byte), NEW p \in Nat, NEW n \in Nat, p + n <= Len(s),
         \A k \in 1..n : ~MagicAt(s, p + k)
  PROVE  /\ After(s, p).text = SubSeq(s, p + 1, p + n) \o After(s, p + n).text
         /\ After(s, p).sizes = After(s, p + n).sizes
<1>0. Len(s) \in Nat
  BY LenProperties
<1>. DEFINE Run(m) ==
              /\ After(s, p).text = SubSeq(s, p + 1, p + m) \o After(s, p + m).text
              /\ After(s, p).sizes = After(s, p + m).sizes
            S == {m \in Nat : m <= n => Run(m)}
<1>1. 0 \in S
  <2>1. /\ p + 0 = p /\ p + 1 \in Int /\ p \in Int /\ p < p + 1
        /\ p < Len(s) + 8
    BY <1>0
  <2>2. SubSeq(s, p + 1, p) = <<>>
    BY <2>1, SubSeqEmpty, Zenon
  <2>3. <<>> \o After(s, p).text = After(s, p).text
    BY <2>1, AfterType, ConcatEmptySeq, Zenon
  <2>4. Run(0)
    BY <2>1, <2>2, <2>3, Zenon
  <2>. QED BY <2>4, Zenon
<1>2. ASSUME NEW m \in Nat, m \in S PROVE m + 1 \in S
  <2>. HIDE DEF Run
  <2>. SUFFICES ASSUME m + 1 <= n PROVE Run(m + 1)
    OBVIOUS
  <2>1. Run(m)
    BY <1>2
  <2>2. /\ p + m \in Nat /\ p + m < Len(s) /\ m + 1 \in 1..n
        /\ (p + m) + 1 = p + (m + 1)
        /\ p + (m + 1) \in Nat /\ p + (m + 1) < Len(s) + 8
        /\ p + m <= Len(s) /\ (p + (m + 1)) - 1 = p + m
        /\ p + 1 \in 1..Len(s) /\ p + (m + 1) \in (p + 1)..Len(s)
        /\ p + (m + 1) \in 1..Len(s)
    BY <1>0
  <2>3. ~MagicAt(s, (p + m) + 1)
    BY <2>2, Zenon
  <2>4. PICK e : e = s[p + (m + 1)]
    OBVIOUS
  <2>5. PICK t : t = After(s, p + (m + 1)).text
    OBVIOUS
  <2>6. PICK u : u = SubSeq(s, p + 1, p + m)
    OBVIOUS
  <2>7. After(s, p + m).text = <<e>> \o t
        /\ After(s, p + m).sizes = After(s, p + (m + 1)).sizes
    BY <2>2, <2>3, <2>4, <2>5, AfterText, Zenon
  <2>8. t \in Seq(Byte)
    BY <2>2, <2>5, AfterType, Zenon
  <2>9. u \in Seq(Byte)
    BY <2>2, <2>6, Stretch, Zenon
  <2>0. PICK f : f = <<e>>
    OBVIOUS
  <2>10. f \in Seq(Byte)
    <3>1. e \in Byte
      BY <2>2, <2>4, ElementOfSeq, Zenon
    <3>. QED BY <2>0, <3>1
  <2>11. SubSeq(s, p + 1, p + (m + 1)) = u \o f
    BY <2>2, <2>4, <2>6, <2>0, SubSeqRecursiveSecond, Zenon
  <2>12. (u \o f) \o t = u \o (f \o t)
    BY <2>8, <2>9, <2>10, Regrouped
  <2>. QED BY <2>1, <2>5, <2>6, <2>7, <2>0, <2>11, <2>12, Zenon DEF Run
<1>3. \A m \in Nat : m \in S
  <2>. HIDE DEF S
  <2>. QED BY <1>1, <1>2, SetInduction, Zenon
<1>4. Run(n)
  <2>. HIDE DEF Run
  <2>. QED BY <1>3
<1>. QED BY <1>4, Zenon

-----------------------------------------------------------------------------
(* What has been passed on, and what is left                               *)

(* After o and a, what the bytes after p mean is all that is missing of    *)
(* what those after r do.                                                  *)
Covers(s, r, p, o, a) ==
  /\ o \o After(s, p).text = SubSeq(s, 1, r) \o After(s, r).text
  /\ a \o After(s, p).sizes = After(s, r).sizes

LEMMA CoversText ==
  ASSUME NEW s \in Seq(Byte), NEW r, NEW p \in Nat, NEW n \in Nat,
         p + n <= Len(s), \A k \in 1..n : ~MagicAt(s, p + k),
         NEW o \in Seq(Byte), NEW a, Covers(s, r, p, o, a)
  PROVE  Covers(s, r, p + n, o \o SubSeq(s, p + 1, p + n), a)
<1>1. p + n \in Nat /\ p + n < Len(s) + 8
  BY LenProperties
<1>2. PICK u : u = SubSeq(s, p + 1, p + n)
  OBVIOUS
<1>3. PICK t : t = After(s, p + n).text
  OBVIOUS
<1>4. u \in Seq(Byte)
  BY <1>2, Stretch, Zenon
<1>5. t \in Seq(Byte)
  BY <1>1, <1>3, AfterType, Zenon
<1>6. (o \o u) \o t = o \o (u \o t)
  BY <1>4, <1>5, Regrouped
<1>7. /\ After(s, p).text = u \o t
      /\ After(s, p).sizes = After(s, p + n).sizes
  BY <1>2, <1>3, TextRun, Zenon
<1>. QED BY <1>2, <1>3, <1>6, <1>7, Zenon DEF Covers

LEMMA OneInFront ==
  \A S : \A a, t \in Seq(S) : \A z \in S :
    Append(a, z) \o t = a \o (<<z>> \o t)
<1>. SUFFICES ASSUME NEW S, NEW a \in Seq(S), NEW t \in Seq(S), NEW z \in S
              PROVE  Append(a, z) \o t = a \o (<<z>> \o t)
  OBVIOUS
<1>1. PICK u : u = <<z>>
  OBVIOUS
<1>2. u \in Seq(S)
  BY <1>1
<1>3. (a \o u) \o t = a \o (u \o t)
  BY <1>2, ConcatAssociative
<1>4. Append(a, z) = a \o u
  BY <1>1, AppendIsConcat, Zenon
<1>. QED BY <1>1, <1>3, <1>4

LEMMA CoversOne ==
  ASSUME NEW S, NEW a \in Seq(S), NEW z \in S, NEW s \in Seq(Byte), NEW r,
         NEW p \in Nat, MagicAt(s, p + 1), SizeAfter(s, p + 1) = <<z>>,
         After(s, p + 8).sizes \in Seq(S), NEW o, Covers(s, r, p, o, a)
  PROVE  Covers(s, r, p + 8, o, Append(a, z))
<1>1. PICK t : t = After(s, p + 8).sizes
  OBVIOUS
<1>0. t \in Seq(S)
  BY <1>1, Zenon
<1>2. Append(a, z) \o t = a \o (<<z>> \o t)
  BY <1>0, OneInFront
<1>3. /\ After(s, p).text = After(s, p + 8).text
      /\ After(s, p).sizes = <<z>> \o t
  BY <1>1, AfterMagic, Zenon
<1>. QED BY <1>1, <1>2, <1>3, Zenon DEF Covers

LEMMA CoversSize ==
  ASSUME NEW s \in Seq(Byte), NEW r, NEW p \in Nat, p + 8 <= Len(s),
         MagicAt(s, p + 1), NEW o,
         NEW a \in Seq([1..4 -> Byte]), Covers(s, r, p, o, a),
         NEW z \in [1..4 -> Byte], z = SubSeq(s, p + 5, p + 8)
  PROVE  Covers(s, r, p + 8, o, Append(a, z))
<1>1. /\ p + 8 \in Nat /\ p + 8 < Len(s) + 8
      /\ (p + 1) + 7 <= Len(s)
      /\ (p + 1) + 4 = p + 5 /\ (p + 1) + 7 = p + 8
  BY LenProperties
<1>2. SizeAfter(s, p + 1) = <<z>>
  BY <1>1, Zenon DEF SizeAfter
<1>3. After(s, p + 8).sizes \in Seq([1..4 -> Byte])
  BY <1>1, AfterType, Zenon
<1>. QED BY <1>2, <1>3, CoversOne, Zenon

(* Bytes that begin with what the guest has read.                          *)
BeginsRead(s) ==
  /\ s \in Seq(Byte)
  /\ got <= Len(s) /\ \A i \in 1..got : s[i] = stream[i].b

DecodedTo(p) ==
  \A s : BeginsRead(s) => Covers(s, raw, p, out, applied)

Matched(p, n) == \A j \in 1..n : stream[p + j].b = Magic[j]

(* What the guest has passed on and what it holds is what the bytes read   *)
(* mean, whatever follows them: of a held prefix and a partial size it is  *)
(* not decided yet.                                                        *)
DecodedSoFar ==
  /\ guest = "copy" =>
       /\ raw + matchLen <= at
       /\ Matched(at - matchLen, matchLen)
       /\ DecodedTo(at - matchLen)
  /\ guest = "dims" =>
       LET p == at - (Len(dims) + 4)
       IN  /\ raw <= p
           /\ Matched(p, 4)
           /\ \A j \in 1..Len(dims) : stream[p + 4 + j].b = dims[j]
           /\ DecodedTo(p)
  /\ ReadsDoNotMatter

LEMMA HostKeeps ==
  ASSUME TypeOK, HostActs
  PROVE  /\ UNCHANGED guestVars
         /\ got <= Len(stream') /\ \A i \in 1..got : stream'[i] = stream[i]
         /\ host = "ended" => stream' = stream
<1>0. got \in Nat /\ got <= Len(stream) /\ Len(stream) \in Nat
  BY Lengths
<1>1. UNCHANGED guestVars
  BY Zenon DEF HostActs, Resize, SendHandshake, Notify, PollWinch, SendResize,
               Type, ReadTimeout, StdinEnds, Break
<1>2. host = "ended" => stream' = stream
  BY DEF HostActs, Resize, SendHandshake, Notify, PollWinch, SendResize,
         Type, ReadTimeout, StdinEnds, Break, HostAt
<1>3. got <= Len(stream') /\ \A i \in 1..got : stream'[i] = stream[i]
  <2>1. CASE stream' = stream
    BY <1>0, <2>1
  <2>2. CASE Grows
    BY <1>0, <2>2 DEF Grows
  <2>3. CASE Break
    <3>1. got \in 0..Len(stream) /\ stream \in Seq(MarkedByte)
      BY DEF TypeOK
    <3>2. stream' = SubSeq(stream, 1, got)
      BY <2>3 DEF Break
    <3>3. Len(stream') = got /\ \A i \in 1..got : stream'[i] = stream[i]
      BY <3>1, <3>2, PrefixIs, Zenon
    <3>. QED BY <1>0, <3>3
  <2>4. stream' = stream \/ Grows \/ Break
    BY TypeGrows, SendGrows, Zenon
       DEF HostActs, Resize, SendHandshake, Notify, PollWinch, ReadTimeout,
           StdinEnds
  <2>. QED BY <2>1, <2>2, <2>3, <2>4
<1>. QED BY <1>1, <1>2, <1>3

(* What is only read more of, or added to, stays decoded.                  *)
LEMMA StaysDecoded ==
  ASSUME TypeOK, NEW p \in Nat, DecodedTo(p),
         raw' = raw, out' = out, applied' = applied,
         got' \in Nat, got <= got',
         \A i \in 1..got : stream'[i] = stream[i]
  PROVE  DecodedTo(p)'
<1>0. got \in Nat
  BY Lengths
<1>. SUFFICES ASSUME NEW s, BeginsRead(s)'
              PROVE  Covers(s, raw, p, out, applied)
  BY Zenon DEF DecodedTo
<1>1. s \in Seq(Byte) /\ got' <= Len(s) /\ \A i \in 1..got' : s[i] = stream'[i].b
  BY DEF BeginsRead
<1>2. Len(s) \in Nat
  BY <1>1, LenProperties
<1>3. BeginsRead(s)
  BY <1>0, <1>1, <1>2 DEF BeginsRead
<1>. QED BY <1>3, Zenon DEF DecodedTo

LEMMA HostDecodes ==
  ASSUME TypeOK, Quiet, DecodedSoFar, HostActs
  PROVE  DecodedSoFar'
<1>0. /\ got \in Nat /\ at \in Nat /\ at <= got /\ matchLen \in Nat
      /\ raw \in Nat /\ Len(dims) \in Nat
  BY LenProperties DEF TypeOK
<1>1. /\ guest' = guest /\ raw' = raw /\ got' = got /\ at' = at
      /\ matchLen' = matchLen /\ dims' = dims /\ out' = out
      /\ applied' = applied
      /\ \A i \in 1..got : stream'[i] = stream[i]
      /\ host = "ended" => stream' = stream
  BY HostKeeps DEF guestVars
<1>2. CASE guest = "copy"
  <2>1. PICK p : p = at - matchLen
    OBVIOUS
  <2>2. p \in Nat /\ p + matchLen <= got
    BY <1>0, <1>2, <2>1 DEF DecodedSoFar
  <2>3. Matched(p, matchLen) /\ DecodedTo(p)
    BY <1>2, <2>1, Zenon DEF DecodedSoFar
  <2>4. Matched(p, matchLen)'
    BY <1>0, <1>1, <2>2, <2>3 DEF Matched
  <2>5. DecodedTo(p)'
    BY <1>0, <1>1, <2>2, <2>3, StaysDecoded
  <2>6. guest' = "copy"
    BY <1>1, <1>2
  <2>. QED BY <1>1, <1>2, <2>1, <2>4, <2>5, <2>6 DEF DecodedSoFar, ReadsDoNotMatter
<1>3. CASE guest = "dims"
  <2>1. PICK p : p = at - (Len(dims) + 4)
    OBVIOUS
  <2>2. raw <= p
    BY <1>3, <2>1, Zenon DEF DecodedSoFar
  <2>3. p \in Nat /\ p + 4 + Len(dims) <= got
    BY <1>0, <2>1, <2>2
  <2>4. /\ Matched(p, 4) /\ DecodedTo(p)
        /\ \A j \in 1..Len(dims) : stream[p + 4 + j].b = dims[j]
    BY <1>3, <2>1, Zenon DEF DecodedSoFar
  <2>5. Matched(p, 4)'
    BY <1>0, <1>1, <2>3, <2>4 DEF Matched
  <2>6. DecodedTo(p)'
    BY <1>0, <1>1, <2>3, <2>4, StaysDecoded
  <2>7. \A j \in 1..Len(dims) : stream'[p + 4 + j].b = dims[j]
    BY <1>0, <1>1, <2>3, <2>4
  <2>8. guest' = "dims" /\ guest' # "copy" /\ guest' # "done"
    BY <1>1, <1>3
  <2>. QED BY <1>1, <2>1, <2>2, <2>5, <2>6, <2>7, <2>8, Zenon
           DEF DecodedSoFar, ReadsDoNotMatter
<1>4. CASE guest \in {"handshake", "done"}
  <2>1. guest = "done" => stream' = stream
    BY <1>1 DEF Quiet
  <2>2. guest' # "copy" /\ guest' # "dims"
    BY <1>1, <1>4
  <2>. QED BY <1>1, <2>1, <2>2, Zenon DEF DecodedSoFar, ReadsDoNotMatter
<1>. QED BY <1>2, <1>3, <1>4 DEF TypeOK

-----------------------------------------------------------------------------
(* The guest, reading                                                      *)

LEMMA Kinds ==
  ASSUME TypeOK
  PROVE  /\ stream \in Seq(MarkedByte) /\ out \in Seq(Byte)
         /\ applied \in Seq([1..4 -> Byte]) /\ dims \in Seq(Byte)
BY DEF TypeOK

LEMMA Places ==
  ASSUME TypeOK
  PROVE  /\ got \in Nat /\ at \in Nat /\ raw \in Nat /\ matchLen \in 0..3
         /\ raw <= at /\ at <= got
<1>1. Len(stream) \in Nat
  BY Kinds, LenProperties, Zenon
<1>2. got \in 0..Len(stream) /\ at \in 0..got /\ raw \in 0..at
      /\ matchLen \in 0..3
  BY DEF TypeOK
<1>. QED BY <1>1, <1>2

LEMMA Sizings ==
  ASSUME TypeOK
  PROVE  /\ Len(stream) \in Nat /\ got <= Len(stream)
         /\ Len(dims) \in Nat /\ Len(dims) < 4
<1>1. Len(stream) \in Nat /\ Len(dims) \in Nat
  BY Kinds, LenProperties, Zenon
<1>2. got \in 0..Len(stream) /\ Len(dims) < 4
  BY DEF TypeOK
<1>. QED BY <1>1, <1>2

(* Where the prefix breaks off, none begins within it.                     *)
LEMMA NoneWithin ==
  ASSUME NEW s, NEW p \in Nat, NEW n \in 1..3,
         \A j \in 1..n : s[p + j] = Magic[j],
         s[p + (n + 1)] # Magic[n + 1],
         NEW k \in 1..n
  PROVE  ~MagicAt(s, p + k)
<1>. SUFFICES ASSUME MagicAt(s, p + k) PROVE FALSE
  OBVIOUS
<1>1. \A j \in 1..4 : s[p + k + j - 1] = Magic[j]
  BY DEF MagicAt
<1>2. s[p + k] = "A" /\ s[p + (k + 1)] = "B"
  <2>1. p + k + 1 - 1 = p + k /\ p + k + 2 - 1 = p + (k + 1)
    OBVIOUS
  <2>2. s[p + k + 1 - 1] = Magic[1] /\ s[p + k + 2 - 1] = Magic[2]
    BY <1>1
  <2>. QED BY <2>1, <2>2, MagicBytes, Zenon
<1>3. CASE k = 1
  <2>1. s[p + k + (n + 1) - 1] = Magic[n + 1]
    BY <1>1
  <2>2. p + k + (n + 1) - 1 = p + (n + 1)
    BY <1>3
  <2>. QED BY <2>1, <2>2, Zenon
<1>4. CASE k = 2
  <2>1. s[p + 2] = Magic[2]
    BY <1>4
  <2>. QED BY <1>2, <1>4, <2>1, MagicBytes, Zenon
<1>5. CASE k = 3
  <2>1. n = 3 /\ n + 1 = 4 /\ k + 1 = 4
    BY <1>5
  <2>. QED BY <1>2, <2>1, MagicBytes, Zenon
<1>. QED BY <1>3, <1>4, <1>5

LEMMA TextDecodes ==
  ASSUME TypeOK, NEW p \in Nat, NEW n \in Nat, p + n <= got, DecodedTo(p),
         \A s : BeginsRead(s) => \A k \in 1..n : ~MagicAt(s, p + k),
         NEW u \in Seq(Byte), Len(u) = n,
         \A i \in 1..n : u[i] = stream[p + i].b
  PROVE  \A s : BeginsRead(s) => Covers(s, raw, p + n, out \o u, applied)
<1>. SUFFICES ASSUME NEW s, BeginsRead(s)
              PROVE  Covers(s, raw, p + n, out \o u, applied)
  OBVIOUS
<1>1. /\ s \in Seq(Byte) /\ Len(s) \in Nat /\ got <= Len(s)
      /\ \A i \in 1..got : s[i] = stream[i].b
  BY LenProperties DEF BeginsRead
<1>2. p + n <= Len(s)
  BY <1>1, Places
<1>3. Covers(s, raw, p, out, applied)
  BY Zenon DEF DecodedTo
<1>4. out \in Seq(Byte)
  BY Kinds
<1>5. Covers(s, raw, p + n, out \o SubSeq(s, p + 1, p + n), applied)
  BY <1>1, <1>2, <1>3, <1>4, CoversText, Zenon
<1>6. SubSeq(s, p + 1, p + n) = u
  <2>1. \A i \in 1..n : p + i \in 1..got
    BY Places
  <2>2. \A i \in 1..n : u[i] = s[p + i]
    BY <1>1, <2>1, Zenon
  <2>. QED BY <1>1, <1>2, <2>2, StretchIs, Zenon
<1>. QED BY <1>5, <1>6, Zenon

(* The size is applied when all of it is read.                             *)
LEMMA FillDecodes ==
  ASSUME TypeOK, NEW p \in Nat, raw <= p, DecodedTo(p), Matched(p, 4),
         NEW size \in Seq(Byte), Len(size) <= 4, Fill(size),
         \A j \in 1..Len(size) : stream[p + 4 + j].b = size[j],
         stream' = stream, raw' = raw, out' = out, matchLen' = 0,
         got' \in Nat, got <= got', at' = p + 4 + Len(size), at' <= got'
  PROVE  DecodedSoFar'
<1>0. Len(size) \in Nat
  BY LenProperties
<1>1. CASE Len(size) = 4
  <2>1. applied' = Append(applied, size) /\ dims' = <<>> /\ guest' = "copy"
    BY <1>1, Zenon DEF Fill
  <2>2. at' = p + 8 /\ at' - matchLen' = p + 8 /\ raw' + matchLen' <= at'
        /\ p + 8 \in Nat
    BY <1>1, Places
  <2>3. size \in [1..4 -> Byte]
    BY <1>1, LenProperties, Zenon
  <2>4. DecodedTo(p + 8)'
    <3>. SUFFICES ASSUME NEW s, BeginsRead(s)'
                  PROVE  Covers(s, raw, p + 8, out, applied')
      BY Zenon DEF DecodedTo
    <3>1. /\ s \in Seq(Byte) /\ got' <= Len(s)
          /\ \A i \in 1..got' : s[i] = stream[i].b
      BY DEF BeginsRead
    <3>2. Len(s) \in Nat /\ p + 8 <= Len(s) /\ got <= Len(s)
      BY <2>2, <3>1, LenProperties, Places
    <3>3. BeginsRead(s)
      BY <3>1, <3>2, Places DEF BeginsRead
    <3>4. Covers(s, raw, p, out, applied)
      BY <3>3, Zenon DEF DecodedTo
    <3>5. MagicAt(s, p + 1)
      <4>1. ASSUME NEW j \in 1..4 PROVE s[p + 1 + j - 1] = Magic[j]
        <5>1. p + 1 + j - 1 = p + j /\ p + j \in 1..got'
          BY <2>2
        <5>2. s[p + j] = stream[p + j].b
          BY <3>1, <5>1, Zenon
        <5>3. stream[p + j].b = Magic[j]
          BY DEF Matched
        <5>. QED BY <5>1, <5>2, <5>3, Zenon
      <4>2. p + 1 + 3 <= Len(s)
        BY <3>2
      <4>. QED BY <4>1, <4>2, Zenon DEF MagicAt
    <3>6. size = SubSeq(s, p + 5, p + 8)
      <4>1. /\ p + 4 \in Nat /\ 4 \in Nat /\ (p + 4) + 4 <= Len(s)
            /\ (p + 4) + 1 = p + 5 /\ (p + 4) + 4 = p + 8
        BY <3>2
      <4>2. ASSUME NEW i \in 1..4 PROVE size[i] = s[(p + 4) + i]
        <5>1. (p + 4) + i \in 1..got'
          BY <2>2
        <5>2. s[(p + 4) + i] = stream[(p + 4) + i].b
          BY <3>1, <5>1, Zenon
        <5>3. stream[(p + 4) + i].b = size[i]
          BY <1>1
        <5>. QED BY <5>2, <5>3, Zenon
      <4>3. SubSeq(s, (p + 4) + 1, (p + 4) + 4) = size
        BY <1>1, <3>1, <4>1, <4>2, StretchIs
      <4>. QED BY <4>1, <4>3, Zenon
    <3>7. applied \in Seq([1..4 -> Byte])
      BY Kinds
    <3>8. Covers(s, raw, p + 8, out, Append(applied, size))
      BY <2>3, <3>1, <3>2, <3>4, <3>5, <3>6, <3>7, CoversSize, Zenon
    <3>. QED BY <2>1, <3>8, Zenon
  <2>5. matchLen' = 0 /\ \A n : Matched(n, 0)'
    BY DEF Matched
  <2>6. guest' # "dims" /\ guest' # "done"
    BY <2>1
  <2>. QED BY <2>2, <2>4, <2>5, <2>6, Zenon DEF DecodedSoFar, ReadsDoNotMatter
<1>2. CASE Len(size) # 4
  <2>1. applied' = applied /\ dims' = size /\ guest' = "dims"
    BY <1>2, Zenon DEF Fill
  <2>2. at' - (Len(dims') + 4) = p
    BY <1>0, <2>1
  <2>3. DecodedTo(p)'
    BY <2>1, StaysDecoded, Zenon
  <2>4. Matched(p, 4)'
    BY Zenon DEF Matched
  <2>5. guest' # "copy" /\ guest' # "done"
    BY <2>1
  <2>6. \A j \in 1..Len(dims') : stream'[p + 4 + j].b = dims'[j]
    BY <2>1, Zenon
  <2>. QED BY <2>2, <2>3, <2>4, <2>5, <2>6, Zenon
           DEF DecodedSoFar, ReadsDoNotMatter
<1>. QED BY <1>1, <1>2

LEMMA HandshakeDecodes ==
  ASSUME TypeOK, Quiet, NEW k \in 0..Len(stream), Handshake(k)
  PROVE  DecodedSoFar'
<1>1. /\ guest' = "copy" /\ raw' = k /\ got' = k /\ at' = k
      /\ out' = Bytes(SubSeq(stream, 1, k)) /\ stream' = stream
      /\ matchLen' = matchLen /\ applied' = applied
  BY DEF Handshake, hostVars
<1>2. matchLen = 0 /\ applied = <<>>
  BY DEF Quiet, Handshake
<1>3. k \in Nat /\ k <= Len(stream) /\ k - 0 = k /\ k + 0 = k
  BY Places
<1>4. DecodedTo(k)'
  <2>. SUFFICES ASSUME NEW s, BeginsRead(s)' PROVE Covers(s, k, k, out', applied')
    BY <1>1, Zenon DEF DecodedTo
  <2>1. s \in Seq(Byte) /\ k <= Len(s) /\ \A i \in 1..k : s[i] = stream[i].b
    BY <1>1 DEF BeginsRead
  <2>2. Len(s) \in Nat
    BY <2>1, LenProperties
  <2>3. PICK v : v = SubSeq(s, 1, k)
    OBVIOUS
  <2>4. v \in Seq(Byte) /\ Len(v) = k /\ \A i \in 1..k : v[i] = s[i]
    <3>1. k \in 0..Len(s)
      BY <1>3, <2>1, <2>2
    <3>. QED BY <2>1, <2>3, <3>1, PrefixIs
  <2>5. /\ out' \in Seq(Byte) /\ Len(out') = k
        /\ \A i \in 1..k : out'[i] = stream[i].b
    BY <1>1, Kinds, FirstBytes
  <2>6. out' = v
    <3>1. \A i \in 1..k : out'[i] = v[i]
      BY <2>1, <2>4, <2>5, Zenon
    <3>. QED BY <2>4, <2>5, <3>1, SeqEqual, Zenon
  <2>7. After(s, k).sizes \in Seq([1..4 -> Byte])
    <3>1. k < Len(s) + 8
      BY <1>3, <2>1, <2>2
    <3>. QED BY <1>3, <2>1, <3>1, AfterType, Zenon
  <2>8. <<>> \o After(s, k).sizes = After(s, k).sizes
    BY <2>7, ConcatEmptySeq, Zenon
  <2>. QED BY <1>1, <1>2, <2>3, <2>6, <2>8, Zenon DEF Covers
<1>5. Matched(k, 0)'
  BY DEF Matched
<1>6. at' - matchLen' = k /\ raw' + matchLen' <= at' /\ matchLen' = 0
      /\ guest' # "dims" /\ guest' # "done"
  BY <1>1, <1>2, <1>3
<1>. QED BY <1>4, <1>5, <1>6, Zenon DEF DecodedSoFar, ReadsDoNotMatter

LEMMA ReadDecodes ==
  ASSUME TypeOK, DecodedSoFar, Read
  PROVE  DecodedSoFar'
<1>1. /\ guest = "copy" /\ guest' = guest /\ raw' = raw /\ at' = at
      /\ matchLen' = matchLen /\ out' = out /\ applied' = applied
      /\ stream' = stream /\ got' \in Nat /\ got <= got'
  BY Places DEF Read, hostVars
<1>2. PICK p : p = at - matchLen
  OBVIOUS
<1>3. /\ raw + matchLen <= at /\ Matched(p, matchLen) /\ DecodedTo(p)
  BY <1>1, <1>2, Zenon DEF DecodedSoFar
<1>4. p \in Nat
  BY <1>2, <1>3, Places
<1>5. DecodedTo(p)'
  BY <1>1, <1>3, <1>4, StaysDecoded, Zenon
<1>6. Matched(p, matchLen)'
  BY <1>1, <1>3, Zenon DEF Matched
<1>7. guest' # "dims" /\ guest' # "done"
  BY <1>1
<1>. QED BY <1>1, <1>2, <1>3, <1>5, <1>6, <1>7, Zenon
         DEF DecodedSoFar, ReadsDoNotMatter

LEMMA MatchDecodes ==
  ASSUME TypeOK, DecodedSoFar, Match
  PROVE  DecodedSoFar'
<1>1. /\ guest = "copy" /\ guest' = guest /\ raw' = raw /\ at' = at + 1
      /\ matchLen' = matchLen + 1 /\ out' = out /\ applied' = applied
      /\ stream' = stream /\ got' = got
  BY DEF Match, hostVars
<1>0. stream[at + 1].b = Magic[matchLen + 1]
  BY DEF Match, Here
<1>2. PICK p : p = at - matchLen
  OBVIOUS
<1>3. /\ raw + matchLen <= at /\ Matched(p, matchLen) /\ DecodedTo(p)
  BY <1>1, <1>2, Zenon DEF DecodedSoFar
<1>4. /\ p \in Nat /\ at' - matchLen' = p /\ raw' + matchLen' <= at'
      /\ p + (matchLen + 1) = at + 1 /\ got' \in Nat /\ got <= got'
  <2>1. at' = at + 1 /\ raw' = raw /\ matchLen' = matchLen + 1 /\ got' = got
    BY <1>1
  <2>2. raw + matchLen <= at
    BY <1>3
  <2>. QED BY <1>2, <2>1, <2>2, Places
<1>5. DecodedTo(p)'
  BY <1>1, <1>3, <1>4, StaysDecoded, Zenon
<1>6. Matched(p, matchLen)'
  <2>. SUFFICES ASSUME NEW j \in 1..(matchLen + 1)
                PROVE  stream[p + j].b = Magic[j]
    BY <1>1 DEF Matched
  <2>1. CASE j = matchLen + 1
    BY <1>0, <1>4, <2>1, Zenon
  <2>2. CASE j # matchLen + 1
    <3>1. j \in 1..matchLen
      BY <2>2, Places
    <3>. QED BY <1>3, <3>1, Zenon DEF Matched
  <2>. QED BY <2>1, <2>2
<1>7. guest' # "dims" /\ guest' # "done"
  BY <1>1
<1>. QED BY <1>4, <1>5, <1>6, <1>7, Zenon DEF DecodedSoFar, ReadsDoNotMatter

LEMMA MatchLastDecodes ==
  ASSUME TypeOK, DecodedSoFar, MatchLast
  PROVE  DecodedSoFar'
<1>. DEFINE last == Min({at + 5, got})
<1>1. /\ guest = "copy" /\ at < got /\ matchLen = 3
      /\ matchLen' = 0 /\ at' = last /\ Fill(Size)
      /\ raw' = raw /\ got' = got /\ out' = out /\ stream' = stream
  BY DEF MatchLast, hostVars, Size
<1>0. stream[at + 1].b = "B"
  BY DEF MatchLast, Here
<1>2. /\ last \in (at + 1)..got /\ last <= at + 5
      /\ Len(Size) = last - (at + 1)
  BY <1>1, LastByte, Zenon
<1>8. /\ Size \in Seq(Byte)
      /\ \A i \in 1..Len(Size) : Size[i] = stream[at + 1 + i].b
  BY <1>1, LastByte, Zenon
<1>. HIDE DEF last
<1>3. PICK p : p = at - matchLen
  OBVIOUS
<1>4. /\ raw + matchLen <= at /\ Matched(p, matchLen) /\ DecodedTo(p)
  BY <1>1, <1>3, Zenon DEF DecodedSoFar
<1>5. /\ p \in Nat /\ raw <= p /\ p + 4 = at + 1 /\ Len(Size) <= 4
      /\ at' = p + 4 + Len(Size) /\ at' <= got' /\ got' \in Nat /\ got <= got'
  <2>1. at' = last /\ got' = got /\ matchLen = 3
    BY <1>1
  <2>2. raw + matchLen <= at
    BY <1>4
  <2>3. PICK n : n = Len(Size)
    OBVIOUS
  <2>4. n = last - (at + 1) /\ last \in (at + 1)..got /\ last <= at + 5
    BY <1>2, <2>3, Zenon
  <2>5. p \in Nat /\ raw <= p /\ p + 4 = at + 1 /\ n <= 4
    BY <1>3, <2>1, <2>2, <2>4, Places
  <2>6. at' = p + 4 + n
    BY <1>3, <2>1, <2>2, <2>4, Places
  <2>7. at' <= got' /\ got' \in Nat /\ got <= got'
    BY <2>1, <2>4, Places
  <2>. QED BY <2>3, <2>5, <2>6, <2>7, Zenon
<1>6. Matched(p, 4)
  <2>. SUFFICES ASSUME NEW j \in 1..4 PROVE stream[p + j].b = Magic[j]
    BY DEF Matched
  <2>1. CASE j = 4
    BY <1>0, <1>5, <2>1, MagicBytes, Zenon
  <2>2. CASE j # 4
    <3>1. j \in 1..matchLen
      BY <1>1, <2>2
    <3>. QED BY <1>4, <3>1, Zenon DEF Matched
  <2>. QED BY <2>1, <2>2
<1>7. \A j \in 1..Len(Size) : stream[p + 4 + j].b = Size[j]
  BY <1>5, <1>8, Zenon
<1>. QED BY <1>1, <1>8, <1>4, <1>5, <1>6, <1>7, FillDecodes, Zenon

LEMMA ReadDimsDecodes ==
  ASSUME TypeOK, Quiet, DecodedSoFar,
         NEW k \in 1..Min({4, Len(stream) - got}), ReadDims(k)
  PROVE  DecodedSoFar'
<1>1. /\ guest = "dims" /\ k <= 4 - Len(dims)
      /\ got' = got + k /\ at' = at + k /\ Fill(dims \o Ahead(k))
      /\ raw' = raw /\ matchLen' = matchLen /\ out' = out /\ stream' = stream
  BY DEF ReadDims, hostVars
<1>2. at = got /\ matchLen = 0
  BY <1>1 DEF Quiet
<1>3. k \in Nat /\ at + k <= Len(stream)
  <2>1. Len(stream) - got \in Nat /\ 4 \in Nat /\ Len(stream) \in Nat
    BY Places, Sizings
  <2>2. Min({4, Len(stream) - got})
          = IF 4 <= Len(stream) - got THEN 4 ELSE Len(stream) - got
    BY <2>1, MinOfTwo, Zenon
  <2>. QED BY <1>2, <2>1, <2>2, Places
<1>4. PICK p : p = at - (Len(dims) + 4)
  OBVIOUS
<1>5. /\ raw <= p /\ Matched(p, 4) /\ DecodedTo(p)
      /\ \A j \in 1..Len(dims) : stream[p + 4 + j].b = dims[j]
  BY <1>1, <1>4, Zenon DEF DecodedSoFar
<1>6. PICK a : a = Ahead(k)
  OBVIOUS
<1>7. a \in Seq(Byte) /\ Len(a) = k /\ \A i \in 1..k : a[i] = stream[at + i].b
  BY <1>3, <1>6, AheadIs, Places, Kinds, Zenon
<1>8. PICK size : size = dims \o a
  OBVIOUS
<1>9. /\ size \in Seq(Byte) /\ Len(size) = Len(dims) + k
      /\ \A i \in 1..(Len(dims) + k) :
           size[i] = IF i <= Len(dims) THEN dims[i] ELSE a[i - Len(dims)]
  BY <1>7, <1>8, ConcatProperties, Kinds
<1>10. /\ p \in Nat /\ Len(size) <= 4 /\ at = p + 4 + Len(dims)
       /\ at' = p + 4 + Len(size) /\ at' <= got' /\ got' \in Nat /\ got <= got'
       /\ Len(dims) \in Nat
  <2>1. PICK d : d = Len(dims)
    OBVIOUS
  <2>2. d \in Nat /\ k \in Nat /\ k <= 4 - d
    BY <1>1, <1>3, <2>1, Sizings
  <2>3. /\ p = at - (d + 4) /\ raw <= p /\ at' = at + k
        /\ got' = got + k
    BY <1>1, <1>4, <1>5, <2>1, Zenon
  <2>7. Len(size) = d + k
    BY <1>9, <2>1, Zenon
  <2>8. at \in Nat /\ raw \in Nat
    BY Places
  <2>9. p \in Nat
    BY <2>2, <2>3, <2>8
  <2>10. d + k <= 4
    BY <2>2
  <2>4. p \in Nat /\ d + k <= 4 /\ at = p + 4 + d
    BY <2>2, <2>3, <2>8, <2>9, <2>10
  <2>5. at' = p + 4 + (d + k)
    BY <2>2, <2>3, <2>4
  <2>6. at' <= got' /\ got' \in Nat /\ got <= got'
    BY <2>2, <2>3, Places
  <2>. QED BY <2>1, <2>2, <2>3, <2>4, <2>5, <2>6, <2>7, Zenon
<1>11. ASSUME NEW j \in 1..Len(size) PROVE stream[p + 4 + j].b = size[j]
  <2>1. CASE j <= Len(dims)
    <3>1. j \in 1..Len(dims) /\ j \in 1..(Len(dims) + k)
      BY <1>3, <1>10, <2>1
    <3>. QED BY <1>5, <1>9, <2>1, <3>1, Zenon
  <2>2. CASE ~(j <= Len(dims))
    <3>1. /\ j \in 1..(Len(dims) + k) /\ j - Len(dims) \in 1..k
          /\ at + (j - Len(dims)) = p + 4 + j
      BY <1>3, <1>9, <1>10, <2>2
    <3>2. size[j] = a[j - Len(dims)]
      BY <1>9, <2>2, <3>1, Zenon
    <3>. QED BY <1>7, <3>1, <3>2, Zenon
  <2>. QED BY <2>1, <2>2
<1>12. matchLen' = 0 /\ Fill(size)
  BY <1>1, <1>2, <1>6, <1>8, Zenon
<1>. QED BY <1>1, <1>5, <1>9, <1>10, <1>11, <1>12, FillDecodes, Zenon

LEMMA FlushDecodes ==
  ASSUME TypeOK, DecodedSoFar, Flush
  PROVE  DecodedSoFar'
<1>1. /\ guest = "copy" /\ guest' = guest /\ raw' = raw /\ at' = at
      /\ matchLen' = 0 /\ applied' = applied
      /\ stream' = stream /\ got' = got
  BY DEF Flush, hostVars
<1>2. /\ at < got /\ matchLen > 0
      /\ stream[at + 1].b # Magic[matchLen + 1]
      /\ out' = out \o SubSeq(Magic, 1, matchLen)
  BY DEF Flush, Here
<1>3. PICK p, n, u : p = at - matchLen /\ n = matchLen /\ u = SubSeq(Magic, 1, n)
  OBVIOUS
<1>4. raw + matchLen <= at /\ Matched(p, n) /\ DecodedTo(p)
  BY <1>1, <1>3, Zenon DEF DecodedSoFar
<1>5. n \in 1..3 /\ n \in Nat /\ n \in 0..4
  BY <1>2, <1>3, Places
<1>6. p \in Nat /\ p + n = at /\ p + (n + 1) = at + 1 /\ p + n <= got
  <2>1. raw + matchLen <= at
    BY <1>4
  <2>. QED BY <1>3, <1>5, <2>1, Places
<1>7. ASSUME NEW s, BeginsRead(s), NEW k \in 1..n PROVE ~MagicAt(s, p + k)
  <2>1. \A i \in 1..got : s[i] = stream[i].b
    BY <1>7 DEF BeginsRead
  <2>2. \A j \in 1..n : s[p + j] = Magic[j]
    <3>1. ASSUME NEW j \in 1..n PROVE p + j \in 1..got
      BY <1>5, <1>6, Places
    <3>. QED BY <1>4, <2>1, <3>1, Zenon DEF Matched
  <2>3. s[p + (n + 1)] # Magic[n + 1]
    <3>1. at + 1 \in 1..got
      BY <1>2, Places
    <3>. QED BY <1>2, <1>3, <1>6, <2>1, <3>1, Zenon
  <2>. QED BY <1>5, <1>6, <1>7, <2>2, <2>3, NoneWithin, Zenon
<1>8. u \in Seq(Byte) /\ Len(u) = n /\ \A i \in 1..n : u[i] = Magic[i]
  BY <1>3, <1>5, MagicPart
<1>9. \A i \in 1..n : u[i] = stream[p + i].b
  BY <1>4, <1>8, Zenon DEF Matched
<1>10. \A s : BeginsRead(s) => Covers(s, raw, p + n, out \o u, applied)
  BY <1>4, <1>5, <1>6, <1>7, <1>8, <1>9, TextDecodes, Zenon
<1>11. DecodedTo(at)'
  <2>. SUFFICES ASSUME NEW s, BeginsRead(s)' PROVE Covers(s, raw, at, out', applied)
    BY <1>1, Zenon DEF DecodedTo
  <2>1. BeginsRead(s)
    BY <1>1, Zenon DEF BeginsRead
  <2>. QED BY <1>2, <1>3, <1>6, <1>10, <2>1, Zenon
<1>12. at' - matchLen' = at /\ raw' + matchLen' <= at' /\ matchLen' = 0
       /\ guest' # "dims" /\ guest' # "done"
  BY <1>1, Places
<1>13. Matched(at, 0)'
  BY DEF Matched
<1>. QED BY <1>1, <1>11, <1>12, <1>13, Zenon DEF DecodedSoFar, ReadsDoNotMatter

LEMMA CopyDecodes ==
  ASSUME TypeOK, DecodedSoFar, Copy
  PROVE  DecodedSoFar'
<1>1. /\ guest = "copy" /\ guest' = guest /\ raw' = raw
      /\ matchLen = 0 /\ matchLen' = matchLen /\ applied' = applied
      /\ stream' = stream /\ got' = got
  BY DEF Copy, hostVars
<1>2. PICK n \in 1..(got - at) : /\ \A i \in 1..n : stream[at + i].b # "A"
                                 /\ out' = out \o Ahead(n) /\ at' = at + n
  BY DEF Copy
<1>3. n \in Nat /\ at - matchLen = at /\ at + n <= got /\ at + n <= Len(stream)
      /\ at \in Nat
  <2>1. n \in Nat /\ at - matchLen = at /\ at + n <= got /\ at \in Nat
    BY <1>1, Places
  <2>. QED BY <2>1, Places, Sizings
<1>4. DecodedTo(at)
  BY <1>1, <1>3, Zenon DEF DecodedSoFar
<1>5. PICK u : u = Ahead(n)
  OBVIOUS
<1>6. u \in Seq(Byte) /\ Len(u) = n /\ \A i \in 1..n : u[i] = stream[at + i].b
  BY <1>3, <1>5, AheadIs, Kinds, Zenon
<1>7. ASSUME NEW s, BeginsRead(s), NEW k \in 1..n PROVE ~MagicAt(s, at + k)
  <2>. SUFFICES ASSUME MagicAt(s, at + k) PROVE FALSE
    OBVIOUS
  <2>1. at + k \in 1..got /\ at + k + 1 - 1 = at + k
    BY <1>3, Places
  <2>2. s[at + k + 1 - 1] = Magic[1]
    BY DEF MagicAt
  <2>3. s[at + k] = stream[at + k].b
    BY <1>7, <2>1 DEF BeginsRead
  <2>4. stream[at + k].b # "A"
    BY <1>2
  <2>. QED BY <2>1, <2>2, <2>3, <2>4, MagicBytes, Zenon
<1>8. \A s : BeginsRead(s) => Covers(s, raw, at + n, out \o u, applied)
  BY <1>3, <1>4, <1>6, <1>7, TextDecodes, Zenon
<1>9. PICK q : q = at + n
  OBVIOUS
<1>10. DecodedTo(q)'
  <2>. SUFFICES ASSUME NEW s, BeginsRead(s)' PROVE Covers(s, raw, q, out', applied)
    BY <1>1, Zenon DEF DecodedTo
  <2>1. BeginsRead(s)
    BY <1>1, Zenon DEF BeginsRead
  <2>. QED BY <1>2, <1>5, <1>8, <1>9, <2>1, Zenon
<1>11. at' - matchLen' = q /\ raw' + matchLen' <= at' /\ matchLen' = 0
       /\ guest' # "dims" /\ guest' # "done"
  BY <1>1, <1>2, <1>3, <1>9, Places
<1>12. Matched(q, 0)'
  BY DEF Matched
<1>. QED BY <1>10, <1>11, <1>12, Zenon DEF DecodedSoFar, ReadsDoNotMatter

(* At the end everything that was written has been read.                   *)
LEMMA EndDecodes ==
  ASSUME TypeOK, Quiet, DecodedSoFar, EndOfInput
  PROVE  DecodedSoFar'
<1>1. /\ guest' = "done" /\ raw' = raw /\ applied' = applied
      /\ stream' = stream /\ out' = out \o SubSeq(Magic, 1, matchLen)
      /\ guest \in {"copy", "dims"} /\ at = got /\ got = Len(stream)
  BY DEF EndOfInput, AtEOF, hostVars
<1>2. PICK s : s = Bytes(stream)
  OBVIOUS
<1>3. /\ s \in Seq(Byte) /\ Len(s) = got
      /\ \A i \in 1..got : s[i] = stream[i].b
  <2>1. SubSeq(stream, 1, Len(stream)) = stream
    BY Kinds, SubSeqFull, Zenon
  <2>2. Len(stream) \in 0..Len(stream)
    BY Places
  <2>. QED BY <1>1, <1>2, <2>1, <2>2, Kinds, FirstBytes
<1>4. BeginsRead(s) /\ got \in Nat
  BY <1>3, Places DEF BeginsRead
<1>5. PICK u, n : n = matchLen /\ u = SubSeq(Magic, 1, n)
  OBVIOUS
<1>6. n \in 0..3 /\ n \in 0..4 /\ n \in Nat
  BY <1>5, Places
<1>7. u \in Seq(Byte) /\ Len(u) = n /\ \A i \in 1..n : u[i] = Magic[i]
  BY <1>5, <1>6, MagicPart
<1>8. PICK o : o = out'
  OBVIOUS
<1>9. o = out \o u /\ o \in Seq(Byte)
  <2>1. out \o u \in Seq(Byte)
    BY <1>7, Kinds, ConcatProperties, Zenon
  <2>. QED BY <1>1, <1>5, <1>8, <2>1, Zenon
<1>10. PICK q : q \in Nat /\ q < got + 8 /\ Covers(s, raw, q, o, applied)
                /\ After(s, q).text = <<>> /\ After(s, q).sizes = <<>>
  <2>1. CASE guest = "copy"
    <3>1. PICK p : p = at - n
      OBVIOUS
    <3>2. raw + n <= at /\ Matched(p, n) /\ DecodedTo(p)
      BY <1>5, <2>1, <3>1, Zenon DEF DecodedSoFar
    <3>3. p \in Nat /\ p + n = got
      <4>1. raw + n <= at
        BY <3>2
      <4>. QED BY <1>1, <1>6, <3>1, <4>1, Places
    <3>4. ASSUME NEW w, BeginsRead(w), w = s, NEW k \in 1..n
          PROVE  ~MagicAt(w, p + k)
      <4>1. ~(p + k + 3 <= Len(s))
        BY <1>3, <1>4, <1>6, <3>3
      <4>. QED BY <3>4, <4>1, Zenon DEF MagicAt
    <3>5. \A i \in 1..n : u[i] = stream[p + i].b
      BY <1>7, <3>2, Zenon DEF Matched
    <3>6. Covers(s, raw, p, out, applied)
      BY <1>4, <3>2, Zenon DEF DecodedTo
    <3>7. SubSeq(s, p + 1, p + n) = u
      <4>1. p + n <= Len(s)
        BY <1>3, <1>4, <3>3
      <4>2. \A i \in 1..n : p + i \in 1..got
        BY <1>4, <1>6, <3>3
      <4>3. \A i \in 1..n : u[i] = s[p + i]
        BY <1>3, <3>5, <4>2, Zenon
      <4>4. s \in Seq(Byte) /\ u \in Seq(Byte) /\ Len(u) = n
        BY <1>3, <1>7, Zenon
      <4>. QED BY <1>6, <3>3, <4>1, <4>3, <4>4, StretchIs, Zenon
    <3>8. Covers(s, raw, p + n, out \o SubSeq(s, p + 1, p + n), applied)
      <4>1. p + n <= Len(s) /\ out \in Seq(Byte)
        BY <1>3, <1>4, <3>3, Kinds
      <4>. QED BY <1>3, <1>4, <1>6, <3>3, <3>4, <3>6, <4>1, CoversText, Zenon
    <3>9. Len(s) <= got /\ got < Len(s) + 8 /\ got < got + 8
      BY <1>3, <1>4
    <3>10. After(s, got).text = <<>> /\ After(s, got).sizes = <<>>
      BY <1>3, <1>4, <3>9, AfterAll, Zenon
    <3>. QED BY <1>4, <1>9, <3>3, <3>7, <3>8, <3>9, <3>10, Zenon
  <2>2. CASE guest = "dims"
    <3>1. PICK p : p = at - (Len(dims) + 4)
      OBVIOUS
    <3>2. raw <= p /\ Matched(p, 4) /\ DecodedTo(p)
      BY <2>2, <3>1, Zenon DEF DecodedSoFar
    <3>3. /\ p \in Nat /\ p + 4 <= got /\ got < p + 8 /\ p + 8 < got + 8
          /\ p + 8 \in Nat
      <4>1. raw <= p
        BY <3>2
      <4>2. PICK d : d = Len(dims)
        OBVIOUS
      <4>3. d \in Nat /\ d < 4 /\ p = at - (d + 4) /\ at = got
        BY <1>1, <3>1, <4>2, Sizings
      <4>. QED BY <4>1, <4>3, Places
    <3>4. Covers(s, raw, p, out, applied)
      BY <1>4, <3>2, Zenon DEF DecodedTo
    <3>5. MagicAt(s, p + 1)
      <4>1. ASSUME NEW j \in 1..4 PROVE s[p + 1 + j - 1] = Magic[j]
        <5>1. p + 1 + j - 1 = p + j /\ p + j \in 1..got
          BY <1>4, <3>3
        <5>2. stream[p + j].b = Magic[j]
          BY <3>2 DEF Matched
        <5>. QED BY <1>3, <5>1, <5>2, Zenon
      <4>2. p + 1 + 3 <= Len(s)
        BY <1>3, <1>4, <3>3
      <4>. QED BY <4>1, <4>2, Zenon DEF MagicAt
    <3>6. After(s, p + 8).text = <<>> /\ After(s, p + 8).sizes = <<>>
      <4>1. Len(s) <= p + 8 /\ p + 8 < Len(s) + 8
        BY <1>3, <1>4, <3>3
      <4>. QED BY <1>3, <3>3, <4>1, AfterAll, Zenon
    <3>7. SizeAfter(s, p + 1) = <<>>
      <4>1. ~(p + 1 + 7 <= Len(s))
        BY <1>3, <1>4, <3>3
      <4>. QED BY <4>1, Zenon DEF SizeAfter
    <3>8. /\ After(s, p).text = After(s, p + 8).text
          /\ After(s, p).sizes = <<>> \o After(s, p + 8).sizes
      BY <1>3, <3>3, <3>5, <3>7, AfterMagic, Zenon
    <3>9. After(s, p).sizes = <<>>
      BY <3>6, <3>8
    <3>10. out \o u = out
      <4>1. n = 0
        BY <1>5, <2>2 DEF Quiet
      <4>2. u = <<>>
        BY <1>7, <4>1, EmptySeq
      <4>. QED BY <4>2, Kinds, ConcatEmptySeq, Zenon
    <3>11. p < got + 8
      BY <1>4, <3>3
    <3>12. After(s, p).text = <<>>
      BY <3>6, <3>8, Zenon
    <3>. QED BY <1>9, <3>3, <3>4, <3>9, <3>10, <3>11, <3>12, Zenon
  <2>. QED BY <1>1, <2>1, <2>2
<1>11. /\ o = SubSeq(s, 1, raw) \o After(s, raw).text
       /\ applied = After(s, raw).sizes
  <2>1. o \o <<>> = o /\ applied \o <<>> = applied
    BY <1>9, Kinds, ConcatEmptySeq, Zenon
  <2>. QED BY <1>10, <2>1, Zenon DEF Covers
<1>12. guest' # "copy" /\ guest' # "dims"
  BY <1>1
<1>. QED BY <1>1, <1>2, <1>8, <1>11, <1>12, Zenon
         DEF DecodedSoFar, ReadsDoNotMatter, After

LEMMA DecodesStep ==
  ASSUME TypeOK, Quiet, DecodedSoFar, [Next]_vars
  PROVE  DecodedSoFar'
<1>1. CASE UNCHANGED vars
  BY <1>1, Zenon
     DEF vars, hostVars, guestVars, DecodedSoFar, Matched, DecodedTo,
         BeginsRead, ReadsDoNotMatter
<1>2. CASE HostActs
  BY <1>2, HostDecodes
<1>3. CASE GuestActs
  BY <1>3, HandshakeDecodes, ReadDecodes, MatchDecodes, MatchLastDecodes,
     FlushDecodes, CopyDecodes, ReadDimsDecodes, EndDecodes, Zenon
     DEF GuestActs
<1>. QED BY <1>1, <1>2, <1>3, Actors

LEMMA InitDecodes == Init => DecodedSoFar
BY DEF Init, DecodedSoFar, ReadsDoNotMatter

(* Whatever is typed, the magic prefix included, and however the stream is *)
(* cut into reads, the PTY gets at the end what the whole of it means, but *)
(* for what came along with the handshake line (resize.go:54-107, 109-115; *)
(* main.go:316-324).                                                       *)
THEOREM ReadsIrrelevant == Spec => []ReadsDoNotMatter
<1>1. DecodedSoFar => ReadsDoNotMatter
  BY Zenon DEF DecodedSoFar
<1>2. IInv /\ DecodedSoFar /\ [Next]_vars => DecodedSoFar'
  BY DecodesStep DEF IInv
<1>. QED BY <1>1, <1>2, InitDecodes, Inductive, PTL DEF Spec

=============================================================================
