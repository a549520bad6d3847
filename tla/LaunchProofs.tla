----------------------------- MODULE LaunchProofs -----------------------------
(***************************************************************************)
(* For any images, flags, requests and command lines: what the user asked  *)
(* for is what runs in the guest, whichever hand-over fails on the way.    *)
(***************************************************************************)
EXTENDS Launch, SequenceTheorems, WellFoundedInduction, TLAPS

(* What the client asked for, and what becomes of it on the way.           *)
Asked == IF client.kind = "run" THEN Request(client) ELSE client.config

Created ==
  [Asked EXCEPT !.vcpus = Default(@, 0, 1),
                !.memory = Default(@, MiB(0), MiB(256)), !.rootfs = Clone]

Configured == [Created EXCEPT !.vcpus = Uint8(@), !.memory = Uint32(@)]

ClientIs == client \in KrunRuns \cup [kind : {"api"}, config : Requests]

ConfigFollows ==
  /\ stage = "posted" => config = Asked
  /\ stage = "created" => config = Created
  /\ stage \in {"configuring", "entered"} \cup Started => config = Configured

Call ==
  Volumes \cup
  {"open", "set_log_level", "create_ctx", "set_vm_config", "set_root",
   "set_exec", "set_workdir", "set_console_output", "add_net_unixgram",
   "add_vsock_port2 10000", "add_vsock_port2 10001", "failed"}

(* Only the second call may have failed.                                   *)
CallsFollow ==
  /\ calls \in Seq(Call)
  /\ \A i \in 1..Len(calls) : calls[i] = "failed" => i = 2

CallsDone ==
  stage \in {"entered"} \cup Started => Len(calls) = Len(Calls(config))

ProcessFollows ==
  /\ stage \in {"entered"} \cup Started => config.path # ""
  /\ stage \in {"entered", "running"} => process = SetExec(config)
  /\ stage = "running" => config.path # Vminit
  /\ stage \in {"serving", "session"} =>
       /\ process = [SetExec(config) EXCEPT !.argv = Tail(@)]
       /\ config.path = Vminit /\ CStringArray(config.args) # <<>>

LineFollows ==
  stage = "session" =>
    \E user \in Users, args \in ExecArgs :
      line = [sent |-> [user |-> user, args |-> args],
              got |-> ParseHandshake(Handshake(user, "120", "40", args))]

IInv ==
  /\ ClientIs
  /\ ConfigFollows
  /\ CallsFollow
  /\ CallsDone
  /\ ProcessFollows
  /\ LineFollows

-----------------------------------------------------------------------------
(* What is at hand                                                         *)

LEMMA Smallest ==
  ASSUME NEW I, I \subseteq Nat, I # {}
  PROVE  Min(I) \in I /\ \A j \in I : Min(I) <= j
<1>1. \E i \in I : \A j \in I : ~(<<j, i>> \in OpToRel(<, Nat))
  BY NatLessThanWellFounded, WFMin
<1>2. ASSUME NEW i \in I, NEW j \in I, ~(<<j, i>> \in OpToRel(<, Nat))
      PROVE  i <= j
  BY <1>2 DEF OpToRel
<1>3. \E i \in I : \A j \in I : i <= j
  BY <1>1, <1>2
<1>. QED BY <1>3, Zenon DEF Min

(* Induction with a set for what is claimed; there is none with an         *)
(* operator here.                                                          *)
LEMMA SetInduction ==
  ASSUME NEW S, 0 \in S, \A n \in Nat : n \in S => n + 1 \in S
  PROVE  \A n \in Nat : n \in S
<1>. SUFFICES ASSUME NEW n \in Nat, n \notin S PROVE FALSE
  OBVIOUS
<1>1. PICK T : T = Nat \ S
  OBVIOUS
<1>2. T \subseteq Nat /\ T # {}
  BY <1>1
<1>3. PICK m : m = Min(T)
  OBVIOUS
<1>4. m \in T /\ \A j \in T : m <= j
  BY <1>2, <1>3, Smallest, Zenon
<1>5. m \in Nat /\ m \notin S /\ m # 0
  BY <1>1, <1>4
<1>6. m - 1 \in Nat /\ (m - 1) + 1 = m /\ ~(m <= m - 1)
  BY <1>5
<1>7. m - 1 \in S
  BY <1>1, <1>4, <1>6
<1>. QED BY <1>5, <1>6, <1>7, Zenon

(* What is joined of the first n of some sequences.                        *)
Joins(s, f, n) ==
  f = [i \in 1..n |-> IF i = 1 THEN s[i] ELSE f[i - 1] \o s[i]]

(* Sequences of words, joined, are a sequence of words.                    *)
LEMMA FlattenIs ==
  ASSUME NEW S, NEW s \in Seq(Seq(S))
  PROVE  FlattenSeq(s) \in Seq(S)
<1>1. PICK Q : Q = Seq(S)
  OBVIOUS
<1>2. s \in Seq(Q) /\ <<>> \in Q
  BY <1>1, EmptySeq, Zenon
<1>3. \A x, y \in Q : x \o y \in Q
  BY <1>1, ConcatProperties, Zenon
<1>. PICK n : n = Len(s)
  OBVIOUS
<1>4. n \in Nat
  BY <1>2, LenProperties
<1>5. \A i \in 1..n : s[i] \in Q
  BY <1>2, ElementOfSeq, Zenon
<1>6. CASE n = 0
  <2>1. s = <<>>
    BY <1>2, <1>6, EmptySeq
  <2>2. FlattenSeq(s) = s
    BY <1>6, Zenon DEF FlattenSeq
  <2>. QED BY <1>1, <1>2, <2>1, <2>2, Zenon
<1>7. CASE n # 0
  <2>1. \A m \in Nat : \E f : Joins(s, f, m)
    <3>. DEFINE T == {m \in Nat : \E f : Joins(s, f, m)}
    <3>1. 0 \in T
      <4>1. PICK f : f = [i \in 1..0 |-> s]
        OBVIOUS
      <4>2. f = [i \in 1..0 |-> IF i = 1 THEN s[i] ELSE f[i - 1] \o s[i]]
        BY <4>1
      <4>3. \E g : Joins(s, g, 0)
        BY <4>2, Zenon DEF Joins
      <4>. QED BY <4>3
    <3>2. ASSUME NEW m \in Nat, m \in T PROVE m + 1 \in T
      <4>1. PICK f : Joins(s, f, m)
        BY <3>2
      <4>2. PICK v : v = IF m + 1 = 1 THEN s[m + 1] ELSE f[m] \o s[m + 1]
        OBVIOUS
      <4>3. PICK g : g = [i \in 1..(m + 1) |-> IF i = m + 1 THEN v ELSE f[i]]
        OBVIOUS
      <4>4. \A i \in 1..m : g[i] = f[i]
        BY <4>3
      <4>5. \A i \in 1..m : f[i] = IF i = 1 THEN s[i] ELSE f[i - 1] \o s[i]
        BY <4>1, Zenon DEF Joins
      <4>6. ASSUME NEW i \in 1..(m + 1)
            PROVE  g[i] = IF i = 1 THEN s[i] ELSE g[i - 1] \o s[i]
        <5>1. CASE i = m + 1
          <6>1. g[i] = v
            BY <4>3, <5>1
          <6>2. CASE i = 1
            BY <4>2, <5>1, <6>1, <6>2, Zenon
          <6>3. CASE i # 1
            <7>1. i - 1 = m /\ i - 1 \in 1..m
              BY <5>1, <6>3
            <7>2. g[i - 1] = f[m]
              BY <4>4, <7>1, Zenon
            <7>. QED BY <4>2, <5>1, <6>1, <6>3, <7>2, Zenon
          <6>. QED BY <6>2, <6>3, Zenon
        <5>2. CASE i # m + 1
          <6>1. i \in 1..m
            BY <5>2
          <6>2. i # 1 => i - 1 \in 1..m
            BY <6>1
          <6>3. CASE i = 1
            BY <4>4, <4>5, <6>1, <6>3, Zenon
          <6>4. CASE i # 1
            <7>1. g[i - 1] = f[i - 1]
              BY <4>4, <6>2, <6>4, Zenon
            <7>. QED BY <4>4, <4>5, <6>1, <6>4, <7>1, Zenon
          <6>. QED BY <6>3, <6>4, Zenon
        <5>. QED BY <5>1, <5>2, Zenon
      <4>7. g = [i \in 1..(m + 1) |-> g[i]]
        BY <4>3, Zenon
      <4>8. Joins(s, g, m + 1)
        BY <4>6, <4>7, Zenon DEF Joins
      <4>. QED BY <4>8
    <3>3. \A m \in Nat : m \in T
      <4>. HIDE DEF T
      <4>. QED BY <3>1, <3>2, SetInduction, Zenon
    <3>. QED BY <3>3
  <2>2. PICK f : f = CHOOSE g : Joins(s, g, n)
    OBVIOUS
  <2>3. Joins(s, f, n)
    BY <1>4, <2>1, <2>2, Zenon
  <2>4. FlattenSeq(s) = f[n]
    BY <1>7, <2>2, Zenon DEF FlattenSeq, Joins
  <2>5. \A i \in 1..n : f[i] = IF i = 1 THEN s[i] ELSE f[i - 1] \o s[i]
    BY <2>3, Zenon DEF Joins
  <2>6. \A m \in Nat : m + 1 <= n => f[m + 1] \in Q
    <3>. DEFINE T == {m \in Nat : m + 1 <= n => f[m + 1] \in Q}
    <3>1. 0 \in T
      <4>. SUFFICES ASSUME 0 + 1 <= n PROVE f[0 + 1] \in Q
        OBVIOUS
      <4>1. 0 + 1 = 1 /\ 1 \in 1..n
        BY <1>4
      <4>. QED BY <1>5, <2>5, <4>1, Zenon
    <3>2. ASSUME NEW m \in Nat, m \in T PROVE m + 1 \in T
      <4>. SUFFICES ASSUME (m + 1) + 1 <= n PROVE f[(m + 1) + 1] \in Q
        OBVIOUS
      <4>1. /\ (m + 1) + 1 \in 1..n /\ (m + 1) + 1 # 1 /\ m + 1 <= n
            /\ ((m + 1) + 1) - 1 = m + 1
        BY <1>4
      <4>2. f[m + 1] \in Q
        BY <3>2, <4>1
      <4>3. s[(m + 1) + 1] \in Q
        BY <1>5, <4>1, Zenon
      <4>4. f[(m + 1) + 1] = f[m + 1] \o s[(m + 1) + 1]
        BY <2>5, <4>1, Zenon
      <4>. QED BY <1>3, <4>2, <4>3, <4>4, Zenon
    <3>3. \A m \in Nat : m \in T
      <4>. HIDE DEF T
      <4>. QED BY <3>1, <3>2, SetInduction, Zenon
    <3>. QED BY <3>3
  <2>7. n - 1 \in Nat /\ (n - 1) + 1 = n /\ (n - 1) + 1 <= n
    BY <1>4, <1>7
  <2>. QED BY <1>1, <2>4, <2>6, <2>7, Zenon
<1>. QED BY <1>6, <1>7

LEMMA OnlyMin == ASSUME NEW i \in Nat PROVE Min({i}) = i
BY DEF Min

LEMMA Largest ==
  ASSUME NEW I, I \subseteq Nat, NEW i \in I, \A j \in I : j <= i
  PROVE  Max(I) = i
<1>1. PICK m : m = Max(I)
  OBVIOUS
<1>2. m \in I /\ \A j \in I : m >= j
  BY <1>1 DEF Max
<1>. QED BY <1>1, <1>2

(* A prefix and what follows it.                                           *)
LEMMA PrefixIs ==
  ASSUME NEW S, NEW s \in Seq(S), NEW a \in 0..Len(s)
  PROVE  /\ SubSeq(s, 1, a) \in Seq(S) /\ Len(SubSeq(s, 1, a)) = a
         /\ \A i \in 1..a : SubSeq(s, 1, a)[i] = s[i]
<1>1. \A i \in 1..a : s[i] \in S
  BY LenProperties
<1>. QED BY <1>1, LenProperties, SubSeqProperties

(* t is what s has in front of the first w, all of it if there is none.    *)
Cut(t, s, w) ==
  \E n \in 0..Len(s) :
    /\ t = SubSeq(s, 1, n)
    /\ \A i \in 1..n : s[i] # w
    /\ n < Len(s) => s[n + 1] = w

LEMMA CutIs ==
  ASSUME NEW S, NEW s \in Seq(S), NEW w, NEW t, Cut(t, s, w)
  PROVE  /\ t \in Seq(S) /\ IsPrefix(t, s) /\ w \notin ToSet(t)
         /\ Len(t) < Len(s) => s[Len(t) + 1] = w
<1>1. PICK n \in 0..Len(s) : /\ t = SubSeq(s, 1, n)
                             /\ \A i \in 1..n : s[i] # w
                             /\ n < Len(s) => s[n + 1] = w
  BY Zenon DEF Cut
<1>2. t \in Seq(S) /\ Len(t) = n /\ \A i \in 1..n : t[i] = s[i]
  BY <1>1, PrefixIs, Zenon
<1>3. n <= Len(s) /\ SubSeq(t, 1, n) = t
  <2>1. n <= Len(s)
    BY LenProperties
  <2>. QED BY <1>2, <2>1, SubSeqFull, Zenon
<1>4. IsPrefix(t, s)
  BY <1>1, <1>2, <1>3, Zenon DEF IsPrefix
<1>5. w \notin ToSet(t)
  <2>1. DOMAIN t = 1..n
    BY <1>2, LenProperties
  <2>. QED BY <1>1, <1>2, <2>1, Zenon DEF ToSet
<1>. QED BY <1>1, <1>2, <1>4, <1>5, Zenon

LEMMA Joined ==
  ASSUME NEW S, NEW s \in Seq(S), NEW u \in Seq(S), NEW t, t = s \o u
  PROVE  /\ t \in Seq(S) /\ Len(t) = Len(s) + Len(u)
         /\ \A i \in 1..Len(s) : t[i] = s[i]
         /\ \A i \in 1..Len(u) : t[Len(s) + i] = u[i]
<1>1. /\ s \o u \in Seq(S) /\ Len(s \o u) = Len(s) + Len(u)
      /\ \A i \in 1..Len(s) + Len(u) :
           (s \o u)[i] = IF i <= Len(s) THEN s[i] ELSE u[i - Len(s)]
  BY ConcatProperties, Zenon
<1>2. Len(s) \in Nat /\ Len(u) \in Nat
  BY LenProperties
<1>3. ASSUME NEW i \in 1..Len(s) PROVE (s \o u)[i] = s[i]
  <2>1. i \in 1..Len(s) + Len(u) /\ i <= Len(s)
    BY <1>2
  <2>. QED BY <1>1, <2>1, Zenon
<1>4. ASSUME NEW i \in 1..Len(u) PROVE (s \o u)[Len(s) + i] = u[i]
  <2>1. /\ Len(s) + i \in 1..Len(s) + Len(u) /\ ~(Len(s) + i <= Len(s))
        /\ (Len(s) + i) - Len(s) = i
    BY <1>2
  <2>. QED BY <1>1, <2>1, Zenon
<1>. QED BY <1>1, <1>3, <1>4, Zenon

LEMMA OneElement ==
  ASSUME NEW S, NEW e \in S
  PROVE  <<e>> \in Seq(S) /\ Len(<<e>>) = 1 /\ <<e>>[1] = e
OBVIOUS

LEMMA TwoElements ==
  ASSUME NEW S, NEW d \in S, NEW e \in S
  PROVE  Append(<<d>>, e) = <<d, e>>
<1>1. PICK s, t : s = Append(<<d>>, e) /\ t = <<d, e>>
  OBVIOUS
<1>2. <<d>> \in Seq(S) /\ Len(<<d>>) = 1 /\ <<d>>[1] = d
  OBVIOUS
<1>3. t \in Seq(S) /\ Len(t) = 2 /\ t[1] = d /\ t[2] = e
  BY <1>1
<1>4. s \in Seq(S) /\ Len(s) = 2 /\ s[1] = d /\  s[2] = e
  BY <1>1, <1>2, AppendProperties
<1>5. \A i \in 1..Len(s) : s[i] = t[i]
  BY <1>3, <1>4
<1>. QED BY <1>1, <1>3, <1>4, <1>5, SeqEqual, Zenon

(* What goes in front of a sequence goes in front of its prefixes.         *)
LEMMA InFront ==
  ASSUME NEW S, NEW e \in S, NEW s \in Seq(S), NEW a \in 0..Len(s)
  PROVE  <<e>> \o SubSeq(s, 1, a) = SubSeq(<<e>> \o s, 1, a + 1)
<1>1. PICK v, w, t, x :
        /\ v = SubSeq(s, 1, a) /\ w = <<e>> \o v
        /\ t = <<e>> \o s /\ x = SubSeq(t, 1, a + 1)
  OBVIOUS
<1>2. v \in Seq(S) /\ Len(v) = a /\ \A i \in 1..a : v[i] = s[i]
  BY <1>1, PrefixIs, Zenon
<1>3. PICK o : o = <<e>>
  OBVIOUS
<1>4. o \in Seq(S) /\ Len(o) = 1
  BY <1>3, OneElement
<1>5. /\ w \in Seq(S) /\ Len(w) = Len(o) + Len(v)
      /\ \A i \in 1..Len(o) : w[i] = o[i]
      /\ \A i \in 1..Len(v) : w[Len(o) + i] = v[i]
  <2>1. w = o \o v
    BY <1>1, <1>3
  <2>2. v \in Seq(S) /\ o \in Seq(S)
    BY <1>2, <1>4
  <2>. QED BY <2>1, <2>2, Joined
<1>6. /\ t \in Seq(S) /\ Len(t) = Len(o) + Len(s)
      /\ \A i \in 1..Len(o) : t[i] = o[i]
      /\ \A i \in 1..Len(s) : t[Len(o) + i] = s[i]
  <2>1. t = o \o s
    BY <1>1, <1>3
  <2>2. o \in Seq(S)
    BY <1>4
  <2>. QED BY <2>1, <2>2, Joined
<1>7. Len(s) \in Nat
  BY LenProperties
<1>8. a + 1 \in 0..Len(t)
  BY <1>4, <1>6, <1>7
<1>9. x \in Seq(S) /\ Len(x) = a + 1 /\ \A i \in 1..(a + 1) : x[i] = t[i]
  BY <1>1, <1>6, <1>8, PrefixIs, Zenon
<1>10. Len(w) = Len(x) /\ Len(w) = a + 1
  BY <1>2, <1>4, <1>5, <1>9
<1>11. ASSUME NEW i \in 1..Len(w) PROVE w[i] = x[i]
  <2>1. x[i] = t[i]
    BY <1>9, <1>10
  <2>2. CASE i = 1
    BY <1>4, <1>5, <1>6, <2>1, <2>2
  <2>3. CASE i # 1
    <3>1. i - 1 \in 1..a /\ i - 1 \in 1..Len(s) /\ 1 + (i - 1) = i
      BY <1>7, <1>10, <2>3
    <3>2. w[1 + (i - 1)] = v[i - 1] /\ t[1 + (i - 1)] = s[i - 1]
      BY <1>2, <1>4, <1>5, <1>6, <3>1
    <3>3. v[i - 1] = s[i - 1]
      BY <1>2, <3>1, Zenon
    <3>. QED BY <2>1, <3>1, <3>2, <3>3
  <2>. QED BY <2>2, <2>3
<1>12. w = x
  BY <1>5, <1>9, <1>10, <1>11, SeqEqual, Zenon
<1>. QED BY <1>1, <1>12, Zenon

LEMMA CutInFront ==
  ASSUME NEW S, NEW e \in S, NEW s \in Seq(S), NEW w, NEW t, e # w, Cut(t, s, w)
  PROVE  Cut(<<e>> \o t, <<e>> \o s, w)
<1>1. PICK n \in 0..Len(s) : /\ t = SubSeq(s, 1, n)
                             /\ \A i \in 1..n : s[i] # w
                             /\ n < Len(s) => s[n + 1] = w
  BY Zenon DEF Cut
<1>2. PICK o, f : o = <<e>> /\ f = o \o s
  OBVIOUS
<1>3. o \in Seq(S) /\ Len(o) = 1 /\ o[1] = e
  BY <1>2, OneElement
<1>4. /\ f \in Seq(S) /\ Len(f) = Len(o) + Len(s)
      /\ \A i \in 1..Len(o) : f[i] = o[i]
      /\ \A i \in 1..Len(s) : f[Len(o) + i] = s[i]
  <2>1. o \in Seq(S)
    BY <1>3
  <2>. QED BY <1>2, <2>1, Joined
<1>5. Len(s) \in Nat
  BY LenProperties
<1>6. <<e>> \o t = SubSeq(f, 1, n + 1)
  BY <1>1, <1>2, InFront, Zenon
<1>7. n + 1 \in 0..Len(f)
  BY <1>3, <1>4, <1>5
<1>8. ASSUME NEW i \in 1..(n + 1) PROVE f[i] # w
  <2>1. CASE i = 1
    BY <1>3, <1>4, <2>1
  <2>2. CASE i # 1
    <3>1. i - 1 \in 1..n /\ i - 1 \in 1..Len(s) /\ 1 + (i - 1) = i
      BY <1>5, <2>2
    <3>2. f[1 + (i - 1)] = s[i - 1]
      BY <1>3, <1>4, <3>1
    <3>. QED BY <1>1, <3>1, <3>2
  <2>. QED BY <2>1, <2>2
<1>9. ASSUME n + 1 < Len(f) PROVE f[(n + 1) + 1] = w
  <2>1. n < Len(s) /\ n + 1 \in 1..Len(s) /\ (n + 1) + 1 = 1 + (n + 1)
    BY <1>3, <1>4, <1>5, <1>9
  <2>2. f[1 + (n + 1)] = s[n + 1]
    BY <1>3, <1>4, <2>1
  <2>. QED BY <1>1, <2>1, <2>2
<1>. QED BY <1>2, <1>6, <1>7, <1>8, <1>9, Zenon DEF Cut

LEMMA HeadIs ==
  ASSUME NEW S, NEW s \in Seq(S), s # <<>>
  PROVE  Head(s) = s[1]
<1>1. Len(s) \in Nat \ {0}
  BY EmptySeq, Zenon
<1>2. 1 \in 1..Len(s) /\ Len(s) \in 1..Len(s)
  BY <1>1
<1>3. Head(SubSeq(s, 1, Len(s))) = s[1]
  BY <1>2, HeadTailOfSubSeq, Zenon
<1>. QED BY <1>3, SubSeqFull, Zenon

(* Putting a word in front, and taking it off again.                       *)
LEMMA FrontIs ==
  ASSUME NEW S, NEW e \in S, NEW s \in Seq(S)
  PROVE  /\ <<e>> \o s \in Seq(S) /\ <<e>> \o s # <<>>
         /\ Head(<<e>> \o s) = e
         /\ s # <<>> => Tail(<<e>> \o s) = s
         /\ \A x : x \in ToSet(<<e>> \o s) <=> x = e \/ x \in ToSet(s)
<1>1. PICK o, t : o = <<e>> /\ t = o \o s
  OBVIOUS
<1>2. o \in Seq(S) /\ Len(o) = 1 /\ o[1] = e
  BY <1>1, OneElement
<1>3. /\ t \in Seq(S) /\ Len(t) = Len(o) + Len(s)
      /\ \A i \in 1..Len(o) : t[i] = o[i]
      /\ \A i \in 1..Len(s) : t[Len(o) + i] = s[i]
  <2>1. o \in Seq(S)
    BY <1>2
  <2>. QED BY <1>1, <2>1, Joined
<1>4. /\ Len(s) \in Nat /\ DOMAIN s = 1..Len(s)
      /\ DOMAIN t = 1..Len(t) /\ Len(t) = Len(s) + 1
  BY <1>2, <1>3, LenProperties
<1>5. t[1] = e /\ \A i \in 1..Len(s) : t[i + 1] = s[i]
  <2>1. t[1] = e
    BY <1>2, <1>3
  <2>2. ASSUME NEW i \in 1..Len(s) PROVE t[i + 1] = s[i]
    BY <1>2, <1>3, <1>4
  <2>. QED BY <2>1, <2>2
<1>6. t # <<>>
  <2>1. Len(t) # 0
    BY <1>4
  <2>. QED BY <2>1, EmptySeq, Zenon
<1>7. Head(t) = e
  BY <1>3, <1>5, <1>6, HeadIs, Zenon
<1>8. ASSUME s # <<>> PROVE Tail(t) = s
  <2>1. PICK u : u = Tail(t)
    OBVIOUS
  <2>2. u \in Seq(S) /\ Len(u) = Len(t) - 1 /\ \A i \in 1..Len(u) : u[i] = t[i + 1]
    BY <1>3, <1>6, <2>1, HeadTailProperties, Zenon
  <2>3. Len(u) = Len(s)
    BY <1>4, <2>2
  <2>4. \A i \in 1..Len(u) : u[i] = s[i]
    BY <1>5, <2>2, <2>3, Zenon
  <2>. QED BY <2>1, <2>2, <2>3, <2>4, SeqEqual, Zenon
<1>9. \A x : x \in ToSet(t) <=> x = e \/ x \in ToSet(s)
  <2>1. ASSUME NEW x \in ToSet(t) PROVE x = e \/ x \in ToSet(s)
    <3>1. PICK i \in 1..Len(t) : x = t[i]
      BY <1>4 DEF ToSet
    <3>2. CASE i = 1
      BY <1>5, <3>1, <3>2
    <3>3. CASE i # 1
      <4>1. i - 1 \in 1..Len(s) /\ (i - 1) + 1 = i
        BY <1>4, <3>3
      <4>2. x = s[i - 1]
        BY <1>5, <3>1, <4>1, Zenon
      <4>. QED BY <1>4, <4>1, <4>2, Zenon DEF ToSet
    <3>. QED BY <3>2, <3>3
  <2>2. e \in ToSet(t)
    <3>1. 1 \in DOMAIN t
      BY <1>4
    <3>. QED BY <1>5, <3>1, Zenon DEF ToSet
  <2>3. ASSUME NEW x \in ToSet(s) PROVE x \in ToSet(t)
    <3>1. PICK i \in 1..Len(s) : x = s[i]
      BY <1>4 DEF ToSet
    <3>2. i + 1 \in DOMAIN t /\ x = t[i + 1]
      BY <1>4, <1>5, <3>1
    <3>. QED BY <3>2, Zenon DEF ToSet
  <2>. QED BY <2>1, <2>2, <2>3, Zenon
<1>. QED BY <1>1, <1>3, <1>6, <1>7, <1>8, <1>9, Zenon

LEMMA HeadAndTail ==
  ASSUME NEW S, NEW s \in Seq(S), s # <<>>
  PROVE  <<Head(s)>> \o Tail(s) = s
<1>1. Len(s) \in Nat \ {0}
  BY EmptySeq, Zenon
<1>2. 1 \in 1..Len(s) /\ Len(s) \in 1..Len(s) /\ 1 + 1 = 2
  BY <1>1
<1>3. SubSeq(s, 1, Len(s)) = <<s[1]>> \o SubSeq(s, 1 + 1, Len(s))
  BY <1>2, SubSeqRecursiveFirst, Zenon
<1>4. Tail(s) = SubSeq(s, 2, Len(s)) /\ SubSeq(s, 1, Len(s)) = s
  BY TailIsSubSeq, SubSeqFull, Zenon
<1>5. Head(s) = s[1]
  BY HeadIs, Zenon
<1>. QED BY <1>2, <1>3, <1>4, <1>5, Zenon

-----------------------------------------------------------------------------
(* What the conversions do                                                 *)

(* The place of the first of a kind, 0 if there is none: what SelectInSeq  *)
(* gives.                                                                  *)
FirstOf(s, w) ==
  LET I == {i \in 1..Len(s) : s[i] = w} IN IF I # {} THEN Min(I) ELSE 0

LEMMA FirstIs ==
  ASSUME NEW S, NEW s \in Seq(S), NEW w, NEW n, n = FirstOf(s, w)
  PROVE  \/ n = 0 /\ \A i \in 1..Len(s) : s[i] # w
         \/ n \in 1..Len(s) /\ s[n] = w /\ \A i \in 1..(n - 1) : s[i] # w
<1>. DEFINE I == {i \in 1..Len(s) : s[i] = w}
<1>1. n = IF I # {} THEN Min(I) ELSE 0
  BY Zenon DEF FirstOf
<1>2. CASE I = {}
  BY <1>1, <1>2
<1>3. CASE I # {}
  <2>1. Len(s) \in Nat
    BY LenProperties
  <2>2. I \subseteq Nat
    <3>1. 1..Len(s) \subseteq Nat
      BY <2>1
    <3>. QED BY <3>1, Zenon
  <2>3. n \in I /\ \A i \in I : n <= i
    BY <1>1, <1>3, <2>2, Smallest, Zenon
  <2>4. n \in 1..Len(s) /\ s[n] = w
    BY <2>3, Zenon
  <2>5. ASSUME NEW i \in 1..(n - 1) PROVE s[i] # w
    <3>1. i \in 1..Len(s) /\ ~(n <= i)
      BY <2>1, <2>4
    <3>. QED BY <2>3, <3>1, Zenon
  <2>. QED BY <2>4, <2>5
<1>. QED BY <1>2, <1>3

(* A C array has the words in front of the first empty one.                *)
LEMMA CStrings ==
  ASSUME NEW s \in Seq(Words)
  PROVE  Cut(CStringArray(s), s, "")
<1>1. PICK n : n = FirstOf(s, "")
  OBVIOUS
<1>2. CStringArray(s) = IF n = 0 THEN s ELSE SubSeq(s, 1, n - 1)
  BY <1>1, Zenon DEF CStringArray, Truncate, SelectInSeq, FirstOf
<1>3. \/ n = 0 /\ \A i \in 1..Len(s) : s[i] # ""
      \/ n \in 1..Len(s) /\ s[n] = "" /\ \A i \in 1..(n - 1) : s[i] # ""
  BY <1>1, FirstIs, Zenon
<1>4. Len(s) \in Nat /\ SubSeq(s, 1, Len(s)) = s
  BY LenProperties, SubSeqFull, Zenon
<1>5. CASE n = 0
  <2>1. Len(s) \in 0..Len(s) /\ ~(Len(s) < Len(s)) /\ 0 \notin 1..Len(s)
    BY LenProperties
  <2>2. CStringArray(s) = SubSeq(s, 1, Len(s)) /\ \A i \in 1..Len(s) : s[i] # ""
    BY <1>2, <1>3, <1>4, <1>5, <2>1, Zenon
  <2>. QED BY <2>1, <2>2, Zenon DEF Cut
<1>6. CASE n \in 1..Len(s)
  <2>0. n # 0 /\ n - 1 \in 0..Len(s) /\ (n - 1) + 1 = n
    BY <1>6, LenProperties
  <2>1. s[n] = "" /\ \A i \in 1..(n - 1) : s[i] # ""
    BY <1>3, <2>0, Zenon
  <2>2. CStringArray(s) = SubSeq(s, 1, n - 1)
    BY <1>2, <2>0, Zenon
  <2>3. s[(n - 1) + 1] = ""
    BY <2>0, <2>1, Zenon
  <2>. QED BY <2>0, <2>1, <2>2, <2>3, Zenon DEF Cut
<1>. QED BY <1>3, <1>5, <1>6, Zenon

LEMMA Regrouped ==
  ASSUME NEW x \in Seq(Words), NEW y \in Seq(Words), NEW z \in Seq(Words)
  PROVE  (x \o y) \o z = x \o (y \o z)
<1>. PICK S : S = Words
  OBVIOUS
<1>1. x \in Seq(S) /\ y \in Seq(S) /\ z \in Seq(S)
  OBVIOUS
<1>. QED BY <1>1, ConcatAssociative

(* Path and arguments are the image's command.                             *)
LEMMA CommandIs ==
  ASSUME NEW i \in Images
  PROVE  /\ ExecPath(i) \in Words /\ ImageArgs(i) \in Seq(Words)
         /\ <<ExecPath(i)>> \o ImageArgs(i) = DockerCommand(i)
<1>0. Shell \in Words /\ "-l" \in Words
  BY WordsAssumption
<1>1. PICK en, cm : en = i.entrypoint /\ cm = i.cmd
  OBVIOUS
<1>2. en \in Seq(Words) /\ cm \in Seq(Words)
  BY <1>1, ImagesAssumption
<1>3. /\ DockerCommand(i) = IF en \o cm = <<>> THEN <<Shell, "-l">> ELSE en \o cm
      /\ en \o cm = <<>> <=> en = <<>> /\ cm = <<>>
      /\ <<>> \o cm = cm
  <2>1. DockerCommand(i) = IF en \o cm = <<>> THEN <<Shell, "-l">> ELSE en \o cm
    BY <1>1, Zenon DEF DockerCommand
  <2>2. en \o cm = <<>> <=> en = <<>> /\ cm = <<>>
    BY <1>2, ConcatEqualIffEmpty
  <2>3. <<>> \o cm = cm
    BY <1>2, ConcatEmptySeq, Zenon
  <2>. QED BY <2>1, <2>2, <2>3, Zenon
<1>4. CASE en # <<>>
  <2>1. ExecPath(i) = Head(en) /\ ImageArgs(i) = Tail(en) \o cm
    BY <1>1, <1>4 DEF ExecPath, ImageArgs
  <2>2. Head(en) \in Words /\ Tail(en) \in Seq(Words)
    BY <1>2, <1>4, HeadTailProperties, Zenon
  <2>3. Tail(en) \o cm \in Seq(Words)
    BY <1>2, <2>2, ConcatProperties, Zenon
  <2>4. PICK o, tl : o = <<Head(en)>> /\ tl = Tail(en)
    OBVIOUS
  <2>5. o \in Seq(Words) /\ tl \in Seq(Words)
    BY <2>2, <2>4, OneElement
  <2>6. (o \o tl) \o cm = o \o (tl \o cm)
    BY <1>2, <2>5, Regrouped
  <2>7. o \o tl = en
    BY <1>2, <1>4, <2>4, HeadAndTail, Zenon
  <2>. QED BY <1>3, <1>4, <2>1, <2>2, <2>3, <2>4, <2>6, <2>7, Zenon
<1>5. CASE en = <<>> /\ cm # <<>>
  <2>1. ExecPath(i) = Head(cm) /\ ImageArgs(i) = Tail(cm)
    BY <1>1, <1>5 DEF ExecPath, ImageArgs
  <2>2. /\ Head(cm) \in Words /\ Tail(cm) \in Seq(Words)
        /\ <<Head(cm)>> \o Tail(cm) = cm
    BY <1>2, <1>5, HeadTailProperties, HeadAndTail, Zenon
  <2>. QED BY <1>3, <1>5, <2>1, <2>2, Zenon
<1>6. CASE en = <<>> /\ cm = <<>>
  <2>1. ExecPath(i) = Shell /\ ImageArgs(i) = <<"-l">>
    BY <1>1, <1>6 DEF ExecPath, ImageArgs
  <2>2. <<Shell>> \o <<"-l">> = <<Shell, "-l">>
    <3>1. <<Shell>> \in Seq(Words)
      BY <1>0, OneElement
    <3>2. Append(<<Shell>>, "-l") = <<Shell>> \o <<"-l">>
      BY <1>0, <3>1, AppendIsConcat
    <3>3. Append(<<Shell>>, "-l") = <<Shell, "-l">>
      BY <1>0, TwoElements
    <3>. QED BY <3>2, <3>3, Zenon
  <2>3. <<"-l">> \in Seq(Words)
    BY <1>0, OneElement
  <2>. QED BY <1>0, <1>3, <1>6, <2>1, <2>2, <2>3, Zenon
<1>. QED BY <1>4, <1>5, <1>6, Zenon

(* The last pair of a key is the one that counts.                          *)
LEMMA EnvMapIs ==
  ASSUME NEW pairs \in Seq(Words \X Words)
  PROVE  /\ DOMAIN EnvMap(pairs) = {p[1] : p \in ToSet(pairs)}
         /\ pairs = <<>> => EnvMap(pairs) = <<>>
         /\ pairs # <<>> => EnvMap(pairs) # <<>>
         /\ \A i \in DOMAIN pairs :
              (\A j \in i + 1 .. Len(pairs) : pairs[j][1] # pairs[i][1])
                => EnvMap(pairs)[pairs[i][1]] = pairs[i][2]
<1>1. DOMAIN EnvMap(pairs) = {p[1] : p \in ToSet(pairs)}
  BY DEF EnvMap
<1>2. DOMAIN pairs = 1..Len(pairs) /\ Len(pairs) \in Nat
  BY LenProperties
<1>3. pairs = <<>> => EnvMap(pairs) = <<>>
  BY DEF EnvMap, ToSet, SelectLastInSeq
<1>4. ASSUME pairs # <<>> PROVE EnvMap(pairs) # <<>>
  <2>1. Len(pairs) # 0
    BY <1>4, EmptySeq, Zenon
  <2>2. 1 \in DOMAIN pairs
    BY <1>2, <2>1
  <2>3. pairs[1][1] \in DOMAIN EnvMap(pairs)
    BY <1>1, <2>2, Zenon DEF ToSet
  <2>4. DOMAIN <<>> = {}
    OBVIOUS
  <2>. QED BY <2>3, <2>4, Zenon
<1>5. ASSUME NEW i \in DOMAIN pairs,
             \A j \in i + 1 .. Len(pairs) : pairs[j][1] # pairs[i][1]
      PROVE  EnvMap(pairs)[pairs[i][1]] = pairs[i][2]
  <2>. DEFINE I == {j \in 1..Len(pairs) : pairs[j][1] = pairs[i][1]}
  <2>1. EnvMap(pairs)[pairs[i][1]] =
          pairs[IF I # {} THEN Max(I) ELSE 0][2]
    <3>1. pairs[i][1] \in {p[1] : p \in ToSet(pairs)}
      BY Zenon DEF ToSet
    <3>. QED BY <3>1 DEF EnvMap, SelectLastInSeq
  <2>2. i \in I
    BY <1>2
  <2>3. \A j \in I : j <= i
    BY <1>2, <1>5
  <2>4. I \subseteq Nat
    <3>1. 1..Len(pairs) \subseteq Nat
      BY <1>2
    <3>. QED BY <3>1, Zenon
  <2>5. Max(I) = i
    <3>. HIDE DEF I
    <3>. QED BY <2>2, <2>3, <2>4, Largest
  <2>. QED BY <2>1, <2>2, <2>5, Zenon
<1>. QED BY <1>1, <1>3, <1>4, <1>5, Zenon

(* A line of a user, a size and words is taken apart as it was made, as    *)
(* far as the first line break goes.                                       *)
LEMMA LineIsParsed ==
  ASSUME NEW user \in Seq(Words), NEW args \in ExecArgs, Len(user) = 1,
         user[1] # Newline, NEW got,
         got = ParseHandshake(Handshake(user, "120", "40", args))
  PROVE  /\ got = [user |-> user[1], cols |-> 120, rows |-> 40, cmd |-> got.cmd]
         /\ Cut(got.cmd, FlattenSeq(args), Newline)
<1>1. PICK u, fl, c, r, w : /\ u = user /\ fl = FlattenSeq(args)
                            /\ c = "120" /\ r = "40" /\ w = Newline
  OBVIOUS
<1>2. PICK size, a, b, o, words :
        /\ size = <<c, r>> /\ a = u \o size /\ b = a \o fl /\ o = <<w>>
        /\ words = b \o o
  OBVIOUS
<1>3. Handshake(user, "120", "40", args) = words
  BY <1>1, <1>2, Zenon DEF Handshake
<1>4. /\ u \in Seq(Words) /\ fl \in Seq(Words) /\ w \in Words
      /\ c \in Words /\ r \in Words /\ w # c /\ w # r /\ Len(u) = 1
      /\ u[1] # w
  <2>1. fl \in Seq(Words)
    BY <1>1, FlattenIs, WordsAssumption
  <2>. QED BY <1>1, <2>1, WordsAssumption
<1>5. size \in Seq(Words) /\ Len(size) = 2 /\ size[1] = c /\ size[2] = r
  BY <1>2, <1>4
<1>6. o \in Seq(Words) /\ Len(o) = 1 /\ o[1] = w
  BY <1>2, <1>4, OneElement
<1>7. /\ a \in Seq(Words) /\ Len(a) = Len(u) + Len(size)
      /\ \A i \in 1..Len(u) : a[i] = u[i]
      /\ \A i \in 1..Len(size) : a[Len(u) + i] = size[i]
  <2>1. u \in Seq(Words) /\ size \in Seq(Words) /\ a = u \o size
    BY <1>2, <1>4, <1>5
  <2>. QED BY <2>1, Joined
<1>8. /\ b \in Seq(Words) /\ Len(b) = Len(a) + Len(fl)
      /\ \A i \in 1..Len(a) : b[i] = a[i]
      /\ \A i \in 1..Len(fl) : b[Len(a) + i] = fl[i]
  <2>1. a \in Seq(Words) /\ fl \in Seq(Words) /\ b = a \o fl
    BY <1>2, <1>4, <1>7
  <2>. QED BY <2>1, Joined
<1>9. /\ words \in Seq(Words) /\ Len(words) = Len(b) + Len(o)
      /\ \A i \in 1..Len(b) : words[i] = b[i]
      /\ \A i \in 1..Len(o) : words[Len(b) + i] = o[i]
  <2>1. b \in Seq(Words) /\ o \in Seq(Words) /\ words = b \o o
    BY <1>2, <1>6, <1>8
  <2>. QED BY <2>1, Joined
<1>10. /\ Len(fl) \in Nat /\ Len(b) = 3 + Len(fl) /\ Len(words) = 4 + Len(fl)
       /\ words[4 + Len(fl)] = w
  <2>1. Len(fl) \in Nat /\ Len(b) = 3 + Len(fl)
    BY <1>4, <1>5, <1>7, <1>8, LenProperties
  <2>2. Len(words) = 4 + Len(fl) /\ words[Len(b) + 1] = w
    BY <1>6, <1>9, <2>1
  <2>. QED BY <2>1, <2>2
<1>11. Len(a) = 3 /\ a[1] = u[1] /\ a[2] = c /\ a[3] = r
  <2>1. Len(a) = 3 /\ a[1] = u[1]
    BY <1>4, <1>5, <1>7
  <2>2. a[1 + 1] = c /\ a[1 + 2] = r
    BY <1>4, <1>5, <1>7
  <2>. QED BY <2>1, <2>2
<1>12. words[1] = u[1] /\ words[2] = c /\ words[3] = r
  <2>1. b[1] = u[1] /\ b[2] = c /\ b[3] = r
    BY <1>8, <1>11
  <2>2. {1, 2, 3} \subseteq 1..Len(b)
    BY <1>10
  <2>. QED BY <1>9, <2>1, <2>2
<1>13. ASSUME NEW i \in 1..Len(fl) PROVE words[3 + i] = fl[i]
  <2>1. b[3 + i] = fl[i] /\ 3 + i \in 1..Len(b)
    BY <1>8, <1>10, <1>11
  <2>. QED BY <1>9, <2>1
<1>14. PICK m : m = FirstOf(words, w)
  OBVIOUS
<1>15. m \in 1..Len(words) /\ words[m] = w /\ \A i \in 1..(m - 1) : words[i] # w
  <2>1. \/ m = 0 /\ \A i \in 1..Len(words) : words[i] # w
        \/ m \in 1..Len(words) /\ words[m] = w
           /\ \A i \in 1..(m - 1) : words[i] # w
    <3>1. words \in Seq(Words)
      BY <1>9
    <3>. QED BY <1>14, <3>1, FirstIs
  <2>2. 4 + Len(fl) \in 1..Len(words)
    BY <1>10
  <2>. QED BY <1>10, <2>1, <2>2
<1>16. PICK n \in 0..Len(fl) : m = n + 4
  <2>1. m # 1 /\ m # 2 /\ m # 3
    BY <1>4, <1>12, <1>15
  <2>2. m - 4 \in 0..Len(fl) /\ m = (m - 4) + 4
    BY <1>10, <1>15, <2>1
  <2>. QED BY <2>2
<1>17. PICK f : f = SubSeq(words, 1, n + 3)
  OBVIOUS
<1>18. UpToNewline(words) = f
  <2>1. m - 1 = n + 3
    BY <1>16
  <2>2. m = SelectInSeq(words, LAMBDA x : x = Newline)
    BY <1>1, <1>14, Zenon DEF SelectInSeq, FirstOf
  <2>. QED BY <1>17, <2>1, <2>2, Zenon DEF UpToNewline, Truncate
<1>19. f \in Seq(Words) /\ Len(f) = n + 3 /\ \A i \in 1..(n + 3) : f[i] = words[i]
  <2>1. words \in Seq(Words) /\ n + 3 \in 0..Len(words)
    BY <1>9, <1>10, <1>16
  <2>. QED BY <1>17, <2>1, PrefixIs, Zenon
<1>20. f[1] = u[1] /\ f[2] = c /\ f[3] = r
  <2>1. {1, 2, 3} \subseteq 1..(n + 3)
    OBVIOUS
  <2>. QED BY <1>12, <1>19, <2>1
<1>21. PICK cmd, v : cmd = SubSeq(f, 4, n + 3) /\ v = SubSeq(fl, 1, n)
  OBVIOUS
<1>22. v \in Seq(Words) /\ Len(v) = n /\ \A i \in 1..n : v[i] = fl[i]
  <2>1. fl \in Seq(Words)
    BY <1>4
  <2>. QED BY <1>21, <2>1, PrefixIs, Zenon
<1>23. /\ cmd \in Seq(Words) /\ Len(cmd) = n
       /\ \A i \in 1..n : cmd[i] = f[3 + i]
  <2>1. \A i \in 4..(n + 3) : f[i] \in Words
    BY <1>19, LenProperties
  <2>2. /\ SubSeq(f, 4, n + 3) \in Seq(Words)
        /\ Len(SubSeq(f, 4, n + 3)) =
             IF 4 <= n + 3 THEN (n + 3) - 4 + 1 ELSE 0
        /\ \A i \in 1..((n + 3) - 4 + 1) :
             SubSeq(f, 4, n + 3)[i] = f[4 + i - 1]
    <3>1. 4 \in Int /\ n + 3 \in Int
      OBVIOUS
    <3>. QED BY <2>1, <3>1, SubSeqProperties
  <2>3. Len(cmd) = n
    BY <1>21, <2>2
  <2>4. ASSUME NEW i \in 1..n PROVE cmd[i] = f[3 + i]
    <3>1. i \in 1..((n + 3) - 4 + 1) /\ 4 + i - 1 = 3 + i
      OBVIOUS
    <3>2. SubSeq(f, 4, n + 3)[i] = f[4 + i - 1]
      BY <2>2, <3>1, Zenon
    <3>. QED BY <1>21, <3>1, <3>2
  <2>. QED BY <1>21, <2>2, <2>3, <2>4, Zenon
<1>24. cmd = v
  <2>1. ASSUME NEW i \in 1..n PROVE cmd[i] = v[i]
    <3>1. 3 + i \in 1..(n + 3) /\ i \in 1..Len(fl)
      BY <1>10
    <3>2. f[3 + i] = words[3 + i] /\ words[3 + i] = fl[i]
      BY <1>13, <1>19, <3>1, Zenon
    <3>. QED BY <1>22, <1>23, <3>2, Zenon
  <2>. QED BY <1>22, <1>23, <2>1, SeqEqual, Zenon
<1>25. Cut(cmd, fl, w)
  <2>1. ASSUME NEW i \in 1..n PROVE fl[i] # w
    <3>1. 3 + i \in 1..(m - 1) /\ i \in 1..Len(fl)
      BY <1>10, <1>16
    <3>. QED BY <1>13, <1>15, <3>1, Zenon
  <2>2. ASSUME n < Len(fl) PROVE fl[n + 1] = w
    <3>1. n + 1 \in 1..Len(fl) /\ 3 + (n + 1) = m
      BY <1>10, <1>16, <2>2
    <3>2. words[3 + (n + 1)] = fl[n + 1]
      BY <1>13, <3>1, Zenon
    <3>. QED BY <1>15, <3>1, <3>2
  <2>. QED BY <1>21, <1>24, <2>1, <2>2, Zenon DEF Cut
<1>26. Uint16(c, 80) = 120 /\ Uint16(r, 24) = 40
  BY <1>1, NumberAssumption DEF Uint16, Bits16
<1>27. got = [user |-> f[1], cols |-> Uint16(f[2], 80),
              rows |-> Uint16(f[3], 24), cmd |-> SubSeq(f, 4, Len(f))]
  <2>1. ~(Len(f) < 3)
    BY <1>19
  <2>. QED BY <1>3, <1>18, <2>1, Zenon DEF ParseHandshake
<1>28. got = [user |-> u[1], cols |-> 120, rows |-> 40, cmd |-> cmd]
  BY <1>19, <1>20, <1>21, <1>26, <1>27, Zenon
<1>29. got.cmd = cmd
  BY <1>28
<1>. QED BY <1>1, <1>25, <1>28, <1>29, Zenon

-----------------------------------------------------------------------------
(* The calls krun-vmm makes                                                *)

Strict == Call \ {"failed", "set_log_level"}

OneMayFail(s) ==
  /\ s \in Seq(Call)
  /\ \A i \in 1..Len(s) : s[i] # "failed" /\ (s[i] = "set_log_level" => i = 2)

LEMMA MoreCalls ==
  ASSUME NEW s, OneMayFail(s), NEW u \in Seq(Strict)
  PROVE  OneMayFail(s \o u)
<1>1. PICK t : t = s \o u
  OBVIOUS
<1>2. s \in Seq(Call) /\ u \in Seq(Call)
  BY SeqMonotonic DEF OneMayFail, Strict
<1>3. /\ t \in Seq(Call) /\ Len(t) = Len(s) + Len(u)
      /\ \A i \in 1..Len(s) : t[i] = s[i]
      /\ \A i \in 1..Len(u) : t[Len(s) + i] = u[i]
  BY <1>1, <1>2, Joined
<1>4. Len(s) \in Nat /\ Len(u) \in Nat
  BY <1>2, LenProperties
<1>5. ASSUME NEW i \in 1..Len(t)
      PROVE  t[i] # "failed" /\ (t[i] = "set_log_level" => i = 2)
  <2>1. CASE i <= Len(s)
    BY <1>3, <1>4, <2>1 DEF OneMayFail
  <2>2. CASE i > Len(s)
    <3>1. i - Len(s) \in 1..Len(u) /\ Len(s) + (i - Len(s)) = i
      BY <1>3, <1>4, <2>2
    <3>2. t[i] = u[i - Len(s)]
      BY <1>3, <3>1, Zenon
    <3>3. u[i - Len(s)] \in Strict
      BY <3>1, ElementOfSeq, Zenon
    <3>. QED BY <3>2, <3>3, Zenon DEF Strict
  <2>. QED BY <1>3, <1>4, <2>1, <2>2
<1>. QED BY <1>1, <1>3, <1>5, Zenon DEF OneMayFail

LEMMA WhenIs ==
  ASSUME NEW b \in BOOLEAN, NEW e \in Strict
  PROVE  When(b, e) \in Seq(Strict)
<1>1. <<e>> \in Seq(Strict) /\ <<>> \in Seq(Strict)
  BY OneElement, EmptySeq
<1>. QED BY <1>1, Zenon DEF When

(* Whatever is configured, none of the calls but the second may fail.      *)
LEMMA CallsAre ==
  ASSUME NEW c, c.volumes \in Seq(Volumes)
  PROVE  OneMayFail(Calls(c))
<1>. DEFINE first == <<"open", "set_log_level", "create_ctx", "set_vm_config">>
            root == When(c.rootfs # "", "set_root")
            exec == When(c.path # "", "set_exec")
            dir == When(c.workdir # "", "set_workdir")
            console == <<"set_console_output", "add_net_unixgram">>
            volumes == [i \in 1..Len(c.volumes) |-> c.volumes[i]]
            vsock == <<"add_vsock_port2 10000", "add_vsock_port2 10001">>
<1>1. OneMayFail(first)
  <2>1. first \in Seq(Call) /\ Len(first) = 4
    BY DEF Call
  <2>2. ASSUME NEW i \in 1..4
        PROVE  first[i] # "failed" /\ (first[i] = "set_log_level" => i = 2)
    <3>1. i \in {1, 2, 3, 4}
      OBVIOUS
    <3>. QED BY <3>1
  <2>. QED BY <2>1, <2>2 DEF OneMayFail
<1>2. root \in Seq(Strict) /\ exec \in Seq(Strict) /\ dir \in Seq(Strict)
  <2>1. /\ "set_root" \in Strict /\ "set_exec" \in Strict
        /\ "set_workdir" \in Strict
    BY DEF Call, Strict
  <2>2. (c.rootfs # "") \in BOOLEAN /\ (c.path # "") \in BOOLEAN
        /\ (c.workdir # "") \in BOOLEAN
    OBVIOUS
  <2>. QED BY <2>1, <2>2, WhenIs, Zenon
<1>3. console \in Seq(Strict) /\ vsock \in Seq(Strict)
  BY DEF Call, Strict
<1>4. volumes \in Seq(Strict)
  <2>1. PICK v : v = c.volumes
    OBVIOUS
  <2>2. Volumes \subseteq Strict
    BY RequestsAssumption DEF Call, Strict
  <2>3. v \in Seq(Strict)
    BY <2>1, <2>2, SeqMonotonic
  <2>4. Len(v) \in Nat /\ \A i \in 1..Len(v) : v[i] \in Strict
    BY <2>3, LenProperties, ElementOfSeq
  <2>5. [i \in 1..Len(v) |-> v[i]] \in Seq(Strict)
    BY <2>4
  <2>. QED BY <2>1, <2>5, Zenon
<1>5. Calls(c) = first \o root \o exec \o dir \o console \o volumes \o vsock
  BY Zenon DEF Calls
<1>. HIDE DEF first, root, exec, dir, console, volumes, vsock
<1>6. OneMayFail(first \o root)
  BY <1>1, <1>2, MoreCalls
<1>7. OneMayFail(first \o root \o exec)
  BY <1>2, <1>6, MoreCalls
<1>8. OneMayFail(first \o root \o exec \o dir)
  BY <1>2, <1>7, MoreCalls
<1>9. OneMayFail(first \o root \o exec \o dir \o console)
  BY <1>3, <1>8, MoreCalls
<1>10. OneMayFail(first \o root \o exec \o dir \o console \o volumes)
  BY <1>4, <1>9, MoreCalls
<1>. QED BY <1>3, <1>5, <1>10, MoreCalls

-----------------------------------------------------------------------------
(* The configuration                                                       *)

Fields == {"vcpus", "memory", "rootfs", "path", "args", "env", "workdir",
           "volumes"}

LEMMA AskedIs ==
  ASSUME ClientIs
  PROVE  /\ DOMAIN Asked = Fields
         /\ Asked.vcpus \in Int /\ Asked.memory \in Sizes
         /\ Asked.path \in Words /\ Asked.args \in Seq(Words)
         /\ Asked.volumes \in Seq(Volumes)
<1>1. CASE client \in KrunRuns
  <2>1. /\ client.kind = "run" /\ client.image \in Images
        /\ client.cpus \in Int /\ client.memory \in Sizes
        /\ client.init \in BOOLEAN
    BY <1>1, NumbersAssumption DEF KrunRuns
  <2>2. PICK path, args : /\ path = ExecPath(client.image)
                          /\ args = ImageArgs(client.image)
    OBVIOUS
  <2>3. path \in Words /\ args \in Seq(Words)
    BY <2>1, <2>2, CommandIs, Zenon
  <2>4. <<path>> \o args \in Seq(Words)
    BY <2>3, FrontIs, Zenon
  <2>5. Vminit \in Words /\ <<>> \in Seq(Volumes)
    BY WordsAssumption, EmptySeq
  <2>6. Asked = Request(client)
    BY <2>1, Zenon DEF Asked
  <2>7. /\ DOMAIN Request(client) = Fields
        /\ Request(client).vcpus = client.cpus
        /\ Request(client).memory = client.memory
        /\ Request(client).path = IF client.init THEN Vminit ELSE path
        /\ Request(client).args = IF client.init THEN <<path>> \o args ELSE args
        /\ Request(client).volumes = <<>>
    BY <2>2 DEF Request, Fields
  <2>. QED BY <2>1, <2>3, <2>4, <2>5, <2>6, <2>7, Zenon
<1>2. CASE client \in [kind : {"api"}, config : Requests]
  <2>1. client.kind = "api" /\ client.config \in Requests
    BY <1>2
  <2>2. Asked = client.config
    BY <2>1 DEF Asked
  <2>. QED BY <2>1, <2>2, RequestsAssumption, Zenon DEF Fields
<1>. QED BY <1>1, <1>2, Zenon DEF ClientIs

(* What the server and the C interface make of it.                         *)
LEMMA ConfiguredIs ==
  ASSUME ClientIs
  PROVE  /\ Configured.vcpus = Uint8(Default(Asked.vcpus, 0, 1))
         /\ Configured.memory = Uint32(Default(Asked.memory, MiB(0), MiB(256)))
         /\ Configured.path = Asked.path /\ Configured.args = Asked.args
         /\ Configured.env = Asked.env
         /\ Configured.volumes = Asked.volumes
<1>1. DOMAIN Asked = Fields
  BY AskedIs
<1>2. /\ DOMAIN Created = Fields
      /\ Created.vcpus = Default(Asked.vcpus, 0, 1)
      /\ Created.memory = Default(Asked.memory, MiB(0), MiB(256))
      /\ Created.path = Asked.path /\ Created.args = Asked.args
      /\ Created.env = Asked.env /\ Created.volumes = Asked.volumes
  BY <1>1 DEF Created, Fields
<1>3. /\ Configured.vcpus = Uint8(Created.vcpus)
      /\ Configured.memory = Uint32(Created.memory)
      /\ Configured.path = Created.path /\ Configured.args = Created.args
      /\ Configured.env = Created.env /\ Configured.volumes = Created.volumes
  BY <1>2 DEF Configured, Fields
<1>. QED BY <1>2, <1>3, Zenon

-----------------------------------------------------------------------------
(* The inductive invariant                                                 *)

LEMMA InitInv == Init => IInv
<1>. SUFFICES ASSUME Init PROVE IInv
  OBVIOUS
<1>1. /\ client \in KrunRuns \cup [kind : {"api"}, config : Requests]
      /\ stage = "client" /\ calls = <<>>
  BY DEF Init
<1>2. calls \in Seq(Call) /\ Len(calls) = 0
  BY <1>1, EmptySeq
<1>. QED BY <1>1, <1>2 DEF IInv, ClientIs, ConfigFollows, CallsFollow,
                           CallsDone, ProcessFollows, LineFollows, Started

LEMMA ClientStays ==
  ASSUME IInv, Next
  PROVE  client' = client /\ ClientIs'
<1>1. client' = client
  BY Zenon DEF Next, Post, InspectFails, Refuse, RejectRootfs, CreateFails,
     CreateMachine, StartMachine, CallLib, CallFails, StartEnter,
     StartEnterFails, Runs, InitRuns, InitFails, Exec
<1>. QED BY <1>1 DEF IInv, ClientIs, KrunRuns

LEMMA ConfigStep ==
  ASSUME IInv, Next
  PROVE  ConfigFollows'
<1>1. client' = client
  BY ClientStays
<1>2. Asked' = Asked
  BY <1>1, Zenon DEF Asked
<1>3. Created' = Created
  BY <1>2, Zenon DEF Created
<1>4. Configured' = Configured
  BY <1>3, Zenon DEF Configured
<1>5. ConfigFollows
  BY DEF IInv
<1>6. CASE Post
  <2>1. config' = Asked /\ stage' = "posted"
    BY <1>6, Zenon DEF Post, Asked
  <2>. QED BY <1>2, <2>1 DEF ConfigFollows, Started
<1>7. CASE CreateMachine
  <2>1. config' = Created /\ stage' = "created"
    BY <1>5, <1>7 DEF CreateMachine, ConfigFollows, Created
  <2>. QED BY <1>3, <2>1 DEF ConfigFollows, Started
<1>8. CASE StartMachine
  <2>1. config' = Configured /\ stage' = "configuring"
    BY <1>5, <1>8 DEF StartMachine, ConfigFollows, Configured
  <2>. QED BY <1>4, <2>1 DEF ConfigFollows, Started
<1>9. CASE InspectFails \/ RejectRootfs \/ CreateFails \/ StartEnterFails
           \/ InitFails
  <2>1. stage' \in {"refused", "exited"}
    BY <1>9 DEF InspectFails, Refuse, RejectRootfs, CreateFails,
                StartEnterFails, InitFails
  <2>. QED BY <2>1 DEF ConfigFollows, Started
<1>10. CASE CallLib \/ CallFails \/ StartEnter \/ Runs \/ InitRuns
            \/ \E user \in Users, args \in ExecArgs : Exec(user, args)
  <2>1. /\ config' = config
        /\ stage \in {"configuring", "entered"} \cup Started
        /\ stage' \in {"exited", "configuring", "entered"} \cup Started
    BY <1>10 DEF CallLib, CallFails, StartEnter, Runs, InitRuns, Exec, Started
  <2>2. config = Configured
    BY <1>5, <2>1, Zenon DEF ConfigFollows
  <2>. QED BY <1>4, <2>1, <2>2 DEF ConfigFollows, Started
<1>. QED BY <1>6, <1>7, <1>8, <1>9, <1>10 DEF Next

LEMMA CallsStep ==
  ASSUME IInv, Next
  PROVE  CallsFollow'
<1>1. CASE calls' = calls
  BY <1>1 DEF IInv, CallsFollow
<1>2. CASE CallLib \/ (CallFails /\ calls' # calls)
  <2>1. PICK all, n : all = Calls(config) /\ n = Len(calls) + 1
    OBVIOUS
  <2>2. Len(calls) \in Nat /\ calls \in Seq(Call)
    BY LenProperties DEF IInv, CallsFollow
  <2>3. OneMayFail(all)
    <3>1. config = Configured /\ ClientIs
      BY <1>2 DEF IInv, ConfigFollows, CallLib, CallFails
    <3>2. config.volumes \in Seq(Volumes)
      BY <3>1, ConfiguredIs, AskedIs, Zenon
    <3>. QED BY <2>1, <3>2, CallsAre
  <2>4. n \in 1..Len(all)
    <3>1. Len(calls) < Len(all)
      BY <1>2, <2>1, Zenon DEF CallLib, CallFails
    <3>2. Len(all) \in Nat
      BY <2>3, LenProperties DEF OneMayFail
    <3>. QED BY <2>1, <2>2, <3>1, <3>2
  <2>5. /\ all[n] \in Call /\ all[n] # "failed"
        /\ all[n] = "set_log_level" => n = 2
    BY <2>3, <2>4, ElementOfSeq, Zenon DEF OneMayFail
  <2>6. PICK e \in Call : calls' = Append(calls, e) /\ (e = "failed" => n = 2)
    <3>1. NextCall = all[n]
      BY <2>1, Zenon DEF NextCall
    <3>2. CASE CallLib
      BY <2>5, <3>1, <3>2, Zenon DEF CallLib
    <3>3. CASE CallFails /\ calls' # calls
      <4>1. calls' = Append(calls, "failed") /\ all[n] = "set_log_level"
        BY <3>1, <3>3, Zenon DEF CallFails
      <4>2. "failed" \in Call
        BY DEF Call
      <4>. QED BY <2>5, <4>1, <4>2, Zenon
    <3>. QED BY <1>2, <3>2, <3>3
  <2>7. /\ calls' \in Seq(Call) /\ Len(calls') = n
        /\ calls'[n] = e /\ \A i \in 1..Len(calls) : calls'[i] = calls[i]
    BY <2>1, <2>2, <2>6, AppendProperties
  <2>8. ASSUME NEW i \in 1..Len(calls'), calls'[i] = "failed" PROVE i = 2
    <3>1. CASE i = n
      BY <2>6, <2>7, <2>8, <3>1, Zenon
    <3>2. CASE i # n
      <4>1. i \in 1..Len(calls)
        BY <2>1, <2>2, <2>7, <3>2
      <4>. QED BY <2>7, <2>8, <4>1, Zenon DEF IInv, CallsFollow
    <3>. QED BY <3>1, <3>2
  <2>. QED BY <2>7, <2>8, Zenon DEF CallsFollow
<1>3. \/ calls' = calls \/ CallLib \/ (CallFails /\ calls' # calls)
  BY Zenon DEF Next, Post, InspectFails, Refuse, RejectRootfs, CreateFails,
     CreateMachine, StartMachine, StartEnter, StartEnterFails, Runs, InitRuns,
     InitFails, Exec
<1>. QED BY <1>1, <1>2, <1>3

LEMMA DoneStep ==
  ASSUME IInv, Next
  PROVE  CallsDone'
<1>1. CASE StartEnter
  BY <1>1, Zenon DEF StartEnter, CallsDone
<1>2. CASE Runs \/ InitRuns \/ \E user \in Users, args \in ExecArgs : Exec(user, args)
  <2>1. /\ stage \in {"entered"} \cup Started
        /\ config' = config /\ calls' = calls
    BY <1>2 DEF Runs, InitRuns, Exec, Started
  <2>2. Calls(config') = Calls(config)
    BY <2>1, Zenon
  <2>. QED BY <2>1, <2>2, Zenon DEF IInv, CallsDone
<1>3. CASE stage' \notin {"entered"} \cup Started
  BY <1>3, Zenon DEF CallsDone, Started
<1>4. \/ stage' \notin {"entered"} \cup Started
      \/ StartEnter \/ Runs \/ InitRuns
      \/ \E user \in Users, args \in ExecArgs : Exec(user, args)
  BY DEF Next, Post, InspectFails, Refuse, RejectRootfs, CreateFails,
     CreateMachine, StartMachine, CallLib, CallFails, StartEnterFails,
     InitFails, Started
<1>. QED BY <1>1, <1>2, <1>3, <1>4

(* What set_exec is given.                                                 *)
LEMMA ExecIs ==
  ASSUME IInv, stage \in {"configuring", "entered"} \cup Started
  PROVE  /\ config = Configured
         /\ config.path \in Words /\ config.args \in Seq(Words)
         /\ CStringArray(config.args) \in Seq(Words)
         /\ SetExec(config).argv # <<>>
         /\ Head(SetExec(config).argv) = config.path
         /\ CStringArray(config.args) # <<>> =>
              Tail(SetExec(config).argv) = CStringArray(config.args)
<1>1. ClientIs /\ config = Configured
  BY Zenon DEF IInv, ConfigFollows
<1>2. config.path \in Words /\ config.args \in Seq(Words)
  BY <1>1, ConfiguredIs, AskedIs, Zenon
<1>3. CStringArray(config.args) \in Seq(Words)
  BY <1>2, CStrings, CutIs, Zenon
<1>4. SetExec(config).argv = <<config.path>> \o CStringArray(config.args)
  BY DEF SetExec
<1>5. PICK p, a, v : /\ p = config.path /\ a = CStringArray(config.args)
                     /\ v = <<p>> \o a
  OBVIOUS
<1>6. p \in Words /\ a \in Seq(Words)
  BY <1>2, <1>3, <1>5, Zenon
<1>7. v # <<>> /\ Head(v) = p /\ (a # <<>> => Tail(v) = a)
  <2>1. /\ <<p>> \o a # <<>> /\ Head(<<p>> \o a) = p
        /\ a # <<>> => Tail(<<p>> \o a) = a
    BY <1>6, FrontIs, Zenon
  <2>. QED BY <1>5, <2>1, Zenon
<1>8. SetExec(config).argv = v
  BY <1>4, <1>5, Zenon
<1>. QED BY <1>1, <1>2, <1>3, <1>5, <1>7, <1>8, Zenon

LEMMA ProcessStep ==
  ASSUME IInv, Next
  PROVE  ProcessFollows'
<1>1. ProcessFollows
  BY DEF IInv
<1>2. CASE StartEnter
  <2>1. /\ config' = config /\ config.path # ""
        /\ process' = SetExec(config) /\ stage' = "entered"
    BY <1>2, Zenon DEF StartEnter
  <2>. QED BY <2>1 DEF ProcessFollows, Started
<1>3. CASE Runs
  <2>1. /\ stage = "entered" /\ stage' = "running"
        /\ config' = config /\ process' = process
        /\ Head(process.argv) # Vminit
    BY <1>3, Zenon DEF Runs
  <2>2. process = SetExec(config) /\ config.path # ""
    BY <1>1, <2>1 DEF ProcessFollows, Started
  <2>3. config.path # Vminit
    BY <2>1, <2>2, ExecIs
  <2>. QED BY <2>1, <2>2, <2>3 DEF ProcessFollows, Started
<1>4. CASE InitRuns
  <2>1. /\ stage = "entered" /\ stage' = "serving" /\ config' = config
        /\ process' = [process EXCEPT !.argv = Tail(@)]
        /\ Head(process.argv) = Vminit /\ Len(process.argv) > 1
    BY <1>4, Zenon DEF InitRuns
  <2>2. process = SetExec(config) /\ config.path # ""
    BY <1>1, <2>1 DEF ProcessFollows, Started
  <2>3. config.path = Vminit
    BY <2>1, <2>2, ExecIs
  <2>4. CStringArray(config.args) # <<>>
    <3>1. SUFFICES ASSUME CStringArray(config.args) = <<>> PROVE FALSE
      OBVIOUS
    <3>2. process.argv = <<config.path>> \o <<>>
      BY <2>2, <3>1 DEF SetExec
    <3>3. <<config.path>> \in Seq(Words) /\ Len(<<config.path>>) = 1
      BY <2>1, ExecIs, OneElement
    <3>4. <<config.path>> \o <<>> = <<config.path>>
      BY <3>3, ConcatEmptySeq, Zenon
    <3>. QED BY <2>1, <3>2, <3>3, <3>4
  <2>. QED BY <2>1, <2>2, <2>3, <2>4 DEF ProcessFollows, Started
<1>5. CASE \E user \in Users, args \in ExecArgs : Exec(user, args)
  <2>1. /\ stage = "serving" /\ stage' = "session"
        /\ config' = config /\ process' = process
    BY <1>5, Zenon DEF Exec
  <2>. QED BY <1>1, <2>1 DEF ProcessFollows, Started
<1>6. CASE Post \/ InspectFails \/ RejectRootfs \/ CreateFails \/ CreateMachine
           \/ StartMachine \/ CallLib \/ CallFails \/ StartEnterFails
           \/ InitFails
  <2>1. stage' \notin {"entered"} \cup Started
    BY <1>6 DEF Post, InspectFails, Refuse, RejectRootfs, CreateFails,
                CreateMachine, StartMachine, CallLib, CallFails,
                StartEnterFails, InitFails, Started
  <2>. QED BY <2>1 DEF ProcessFollows, Started
<1>. QED BY <1>2, <1>3, <1>4, <1>5, <1>6 DEF Next

LEMMA LineStep ==
  ASSUME IInv, Next
  PROVE  LineFollows'
<1>1. CASE \E user \in Users, args \in ExecArgs : Exec(user, args)
  BY <1>1, Zenon DEF Exec, LineFollows
<1>2. CASE stage' # "session"
  BY <1>2, Zenon DEF LineFollows
<1>3. \/ stage' # "session"
      \/ \E user \in Users, args \in ExecArgs : Exec(user, args)
  BY DEF Next, Post, InspectFails, Refuse, RejectRootfs, CreateFails,
     CreateMachine, StartMachine, CallLib, CallFails, StartEnter,
     StartEnterFails, Runs, InitRuns, InitFails
<1>. QED BY <1>1, <1>2, <1>3

LEMMA InvStep == IInv /\ [Next]_vars => IInv'
<1>. SUFFICES ASSUME IInv, [Next]_vars PROVE IInv'
  OBVIOUS
<1>1. CASE Next
  BY <1>1, ClientStays, ConfigStep, CallsStep, DoneStep, ProcessStep,
     LineStep, Zenon
     DEF IInv
<1>2. CASE UNCHANGED vars
  <2>1. /\ client' = client /\ stage' = stage /\ config' = config
        /\ calls' = calls /\ process' = process /\ line' = line
    BY <1>2 DEF vars
  <2>2. Asked' = Asked
    BY <2>1, Zenon DEF Asked
  <2>3. Configured' = Configured /\ Created' = Created
    BY <2>2, Zenon DEF Configured, Created
  <2>4. ClientIs' /\ ConfigFollows'
    BY <2>1, <2>2, <2>3 DEF IInv, ClientIs, ConfigFollows, KrunRuns
  <2>5. CallsFollow' /\ CallsDone' /\ ProcessFollows' /\ LineFollows'
    BY <2>1, Zenon DEF IInv, CallsFollow, CallsDone, ProcessFollows, LineFollows
  <2>. QED BY <2>4, <2>5 DEF IInv
<1>. QED BY <1>1, <1>2

LEMMA Inductive == Spec => []IInv
BY InitInv, InvStep, PTL DEF Spec

-----------------------------------------------------------------------------
(* What it says                                                            *)

(* Fewer bits are the same number, or differ by those that are lost.       *)
LEMMA BitsAre ==
  ASSUME NEW n \in Int
  PROVE  /\ n % Bits8 \in 0..(Bits8 - 1) /\ (n - (n % Bits8)) % Bits8 = 0
         /\ n % Bits16 \in 0..(Bits16 - 1) /\ (n - (n % Bits16)) % Bits16 = 0
<1>0. PICK k, j : k = Bits8 /\ j = Bits16
  OBVIOUS
<1>1. k = 256 /\ j = 65536
  BY <1>0 DEF Bits8, Bits16
<1>2. \A m \in Int : m > 0 => n % m \in 0..(m - 1)
  OBVIOUS
<1>3. k \in Int /\ k > 0 /\ j \in Int /\ j > 0
  BY <1>1
<1>4. n - (n % k) = k * (n \div k) /\ n - (n % j) = j * (n \div j)
  BY <1>1
<1>5. \A q \in Int : (k * q) % k = 0 /\ (j * q) % j = 0
  BY <1>1
<1>6. n \div k \in Int /\ n \div j \in Int
  BY <1>3
<1>. QED BY <1>0, <1>2, <1>3, <1>4, <1>5, <1>6, Zenon

(* What is asked for, what is had, and how they agree.                     *)
LEMMA CpusAre ==
  ASSUME NEW n \in Int, NEW has, has = Uint8(Default(n, 0, 1))
  PROVE  /\ has \in 0..(Bits8 - 1)
         /\ IF n = 0 THEN has = 1 ELSE (n - has) % Bits8 = 0
<1>1. CASE n = 0
  BY <1>1 DEF Default, Uint8, Bits8
<1>2. CASE n # 0
  <2>1. has = n % Bits8
    BY <1>2, Zenon DEF Default, Uint8
  <2>2. n % Bits8 \in 0..(Bits8 - 1) /\ (n - (n % Bits8)) % Bits8 = 0
    BY BitsAre, Zenon
  <2>. QED BY <1>2, <2>1, <2>2, Zenon
<1>. QED BY <1>1, <1>2, Zenon

LEMMA MemoryIs ==
  ASSUME NEW m \in Sizes, NEW has,
         has = Uint32(Default(m, MiB(0), MiB(256)))
  PROVE  /\ has.high \in 0..(Bits16 - 1)
         /\ IF m = MiB(0)
              THEN has = MiB(256)
              ELSE has.low = m.low /\ (m.high - has.high) % Bits16 = 0
<1>1. CASE m = MiB(0)
  <2>1. PICK d : d = MiB(256)
    OBVIOUS
  <2>2. has = Uint32(d)
    BY <1>1, <2>1, Zenon DEF Default
  <2>3. d = [high |-> 0, low |-> 256]
    <3>1. 256 \div Bits16 = 0 /\ 256 % Bits16 = 256
      BY DEF Bits16
    <3>. QED BY <2>1, <3>1 DEF MiB
  <2>4. has = d
    <3>1. 0 % Bits16 = 0
      BY DEF Bits16
    <3>. QED BY <2>2, <2>3, <3>1 DEF Uint32
  <2>5. has.high \in 0..(Bits16 - 1)
    <3>1. has.high = 0
      BY <2>3, <2>4
    <3>2. 0 \in 0..(Bits16 - 1)
      BY DEF Bits16
    <3>. QED BY <3>1, <3>2, Zenon
  <2>. QED BY <1>1, <2>1, <2>4, <2>5, Zenon
<1>2. CASE m # MiB(0)
  <2>1. has = Uint32(m)
    BY <1>2, Zenon DEF Default
  <2>2. PICK high, low : high = m.high /\ low = m.low
    OBVIOUS
  <2>3. high \in Int /\ m = [high |-> high, low |-> low]
    <3>1. PICK lows : lows = 0..(Bits16 - 1)
      OBVIOUS
    <3>2. m \in [high : Int, low : lows]
      BY <3>1, Zenon DEF Sizes
    <3>. QED BY <2>2, <3>2
  <2>4. has.high = high % Bits16 /\ has.low = low
    BY <2>1, <2>3 DEF Uint32
  <2>5. high % Bits16 \in 0..(Bits16 - 1) /\ (high - (high % Bits16)) % Bits16 = 0
    BY <2>3, BitsAre, Zenon
  <2>6. has.high \in 0..(Bits16 - 1) /\ has.low = m.low
    BY <2>2, <2>4, <2>5
  <2>7. (m.high - has.high) % Bits16 = 0
    BY <2>2, <2>4, <2>5
  <2>. QED BY <1>2, <2>6, <2>7, Zenon
<1>. QED BY <1>1, <1>2, Zenon

LEMMA InvVM == IInv => VMHasWhatWasAsked
<1>. SUFFICES ASSUME IInv, stage \in {"entered"} \cup Started
              PROVE
       LET cpus ==
             IF client.kind = "run" THEN client.cpus ELSE client.config.vcpus
           memory ==
             IF client.kind = "run" THEN client.memory ELSE client.config.memory
           has == config.memory
       IN /\ config.vcpus \in 0..(Bits8 - 1) /\ has.high \in 0..(Bits16 - 1)
          /\ IF cpus = 0 THEN config.vcpus = 1
                         ELSE (cpus - config.vcpus) % Bits8 = 0
          /\ IF memory = MiB(0)
               THEN has = MiB(256)
               ELSE /\ has.low = memory.low
                    /\ (memory.high - has.high) % Bits16 = 0
          /\ Len(calls) = Len(Calls(config))
          /\ \A i \in 1..Len(calls) : calls[i] = "failed" => i = 2
  BY Zenon DEF VMHasWhatWasAsked
<1>1. ClientIs /\ config = Configured
  BY ExecIs DEF IInv
<1>2. PICK cpus, memory :
        /\ cpus = IF client.kind = "run" THEN client.cpus ELSE client.config.vcpus
        /\ memory = IF client.kind = "run"
                      THEN client.memory ELSE client.config.memory
  OBVIOUS
<1>3. Asked.vcpus = cpus /\ Asked.memory = memory
  <2>1. CASE client.kind = "run"
    BY <1>2, <2>1 DEF Asked, Request
  <2>2. CASE client.kind # "run"
    BY <1>2, <2>2 DEF Asked
  <2>. QED BY <2>1, <2>2
<1>4. cpus \in Int /\ memory \in Sizes
  BY <1>1, <1>3, AskedIs
<1>5. /\ config.vcpus = Uint8(Default(cpus, 0, 1))
      /\ config.memory = Uint32(Default(memory, MiB(0), MiB(256)))
  BY <1>1, <1>3, ConfiguredIs, Zenon
<1>6. /\ config.vcpus \in 0..(Bits8 - 1)
      /\ IF cpus = 0 THEN config.vcpus = 1
                     ELSE (cpus - config.vcpus) % Bits8 = 0
  BY <1>4, <1>5, CpusAre, Zenon
<1>7. /\ config.memory.high \in 0..(Bits16 - 1)
      /\ IF memory = MiB(0)
           THEN config.memory = MiB(256)
           ELSE /\ config.memory.low = memory.low
                /\ (memory.high - config.memory.high) % Bits16 = 0
  BY <1>4, <1>5, MemoryIs, Zenon
<1>8. /\ Len(calls) = Len(Calls(config))
      /\ \A i \in 1..Len(calls) : calls[i] = "failed" => i = 2
  BY Zenon DEF IInv, CallsFollow, CallsDone
<1>. QED BY <1>2, <1>6, <1>7, <1>8, Zenon

LEMMA InvSession == IInv => SessionRunsItsCommand
<1>. SUFFICES ASSUME IInv, stage = "session",
                     Len(line.sent.user) = 1, line.sent.user[1] # Newline
              PROVE
       LET user == line.sent.user
           words == FlattenSeq(line.sent.args)
           cmd == line.got.cmd
           n == Len(cmd)
       IN /\ line.got =
               [user |-> user[1], cols |-> 120, rows |-> 40, cmd |-> cmd]
          /\ IsPrefix(cmd, words) /\ Newline \notin ToSet(cmd)
          /\ n < Len(words) => words[n + 1] = Newline
  BY Zenon DEF SessionRunsItsCommand
<1>1. PICK user \in Users, args \in ExecArgs :
        line = [sent |-> [user |-> user, args |-> args],
                got |-> ParseHandshake(Handshake(user, "120", "40", args))]
  BY Zenon DEF IInv, LineFollows
<1>2. /\ line.sent.user = user /\ line.sent.args = args
      /\ line.got = ParseHandshake(Handshake(user, "120", "40", args))
  BY <1>1
<1>3. user \in Seq(Words) /\ FlattenSeq(args) \in Seq(Words)
  BY WordsAssumption, FlattenIs
<1>4. PICK got, cmd, words :
        got = line.got /\ cmd = got.cmd /\ words = FlattenSeq(args)
  OBVIOUS
<1>5. /\ got = [user |-> user[1], cols |-> 120, rows |-> 40, cmd |-> cmd]
      /\ Cut(cmd, words, Newline)
  <2>1. /\ Len(user) = 1 /\ user[1] # Newline
        /\ got = ParseHandshake(Handshake(user, "120", "40", args))
    BY <1>2, <1>4, Zenon
  <2>2. /\ got = [user |-> user[1], cols |-> 120, rows |-> 40, cmd |-> got.cmd]
        /\ Cut(got.cmd, FlattenSeq(args), Newline)
    BY <1>3, <2>1, LineIsParsed
  <2>. QED BY <1>4, <2>2, Zenon
<1>6. /\ IsPrefix(cmd, words) /\ Newline \notin ToSet(cmd)
      /\ Len(cmd) < Len(words) => words[Len(cmd) + 1] = Newline
  <2>1. words \in Seq(Words)
    BY <1>3, <1>4, Zenon
  <2>. QED BY <1>5, <2>1, CutIs, Zenon
<1>. QED BY <1>2, <1>4, <1>5, <1>6, Zenon

(* Which command, and with vminit or without.                              *)
LEMMA KrunRunIs ==
  ASSUME IInv, stage \in Started, client.kind = "run"
  PROVE  /\ client.image \in Images /\ client.init \in BOOLEAN
         /\ config.path = IF client.init THEN Vminit ELSE ExecPath(client.image)
         /\ config.args = IF client.init
                          THEN DockerCommand(client.image)
                          ELSE ImageArgs(client.image)
         /\ config.env = IF client.init
                         THEN Over(InitEnv, EnvMap(client.image.env))
                         ELSE EnvMap(client.image.env)
         /\ client.init <=> stage \in {"serving", "session"}
<1>1. ClientIs /\ config = Configured
  BY ExecIs DEF IInv
<1>2. client.image \in Images /\ client.init \in BOOLEAN
  BY <1>1 DEF ClientIs, KrunRuns
<1>3. /\ config.path = Request(client).path /\ config.args = Request(client).args
      /\ config.env = Request(client).env
  <2>1. Asked = Request(client)
    BY DEF Asked
  <2>. QED BY <1>1, <2>1, ConfiguredIs, Zenon
<1>4. PICK path, args, env :
        /\ path = ExecPath(client.image) /\ args = ImageArgs(client.image)
        /\ env = EnvMap(client.image.env)
  OBVIOUS
<1>5. /\ config.path = IF client.init THEN Vminit ELSE path
      /\ config.args = IF client.init THEN <<path>> \o args ELSE args
      /\ config.env = IF client.init THEN Over(InitEnv, env) ELSE env
  BY <1>3, <1>4 DEF Request
<1>6. <<path>> \o args = DockerCommand(client.image) /\ path # Vminit
  BY <1>2, <1>4, CommandIs, VminitAssumption, Zenon
<1>7. client.init <=> stage \in {"serving", "session"}
  <2>1. ProcessFollows
    BY DEF IInv
  <2>2. CASE stage = "running"
    BY <1>2, <1>5, <2>1, <2>2 DEF ProcessFollows
  <2>3. CASE stage \in {"serving", "session"}
    BY <1>5, <1>6, <2>1, <2>3 DEF ProcessFollows
  <2>. QED BY <2>2, <2>3 DEF Started
<1>. QED BY <1>2, <1>4, <1>5, <1>6, <1>7, Zenon

LEMMA InvCommand == IInv => GuestRunsTheImage
<1>. SUFFICES ASSUME IInv, stage \in Started, client.kind = "run"
              PROVE  GuestRunsTheImage
  BY Zenon DEF GuestRunsTheImage
<1>1. PICK path, args, asked, c, argv :
        /\ path = ExecPath(client.image) /\ args = ImageArgs(client.image)
        /\ asked = DockerCommand(client.image) /\ c = CStringArray(config.args)
        /\ argv = process.argv
  OBVIOUS
<1>2. /\ path \in Words /\ args \in Seq(Words) /\ asked = <<path>> \o args
      /\ asked \in Seq(Words)
  <2>1. path \in Words /\ args \in Seq(Words) /\ asked = <<path>> \o args
    BY <1>1, KrunRunIs, CommandIs, Zenon
  <2>. QED BY <2>1, FrontIs, Zenon
<1>3. ASSUME client.init PROVE Cut(argv, asked, "")
  <2>1. config.args = asked /\ stage \in {"serving", "session"}
    BY <1>1, <1>3, KrunRunIs, Zenon
  <2>2. process = [SetExec(config) EXCEPT !.argv = Tail(@)] /\ c # <<>>
    BY <1>1, <2>1 DEF IInv, ProcessFollows
  <2>3. process.argv = Tail(SetExec(config).argv)
    BY <2>2 DEF SetExec
  <2>4. argv = c
    BY <1>1, <2>2, <2>3, ExecIs, Zenon
  <2>5. Cut(CStringArray(asked), asked, "")
    BY <1>2, CStrings, Zenon
  <2>. QED BY <1>1, <2>1, <2>4, <2>5, Zenon
<1>4. ASSUME ~client.init PROVE Cut(argv, asked, "")
  <2>1. /\ config.args = args /\ config.path = path /\ path # ""
        /\ stage = "running"
    <3>1. config.args = args /\ config.path = path
      BY <1>1, <1>4, KrunRunIs, Zenon
    <3>2. stage = "running"
      BY <1>4, KrunRunIs DEF Started
    <3>3. config.path # ""
      BY DEF IInv, ProcessFollows
    <3>. QED BY <3>1, <3>2, <3>3, Zenon
  <2>2. process = SetExec(config)
    BY <2>1 DEF IInv, ProcessFollows
  <2>3. argv = <<path>> \o c
    BY <1>1, <2>1, <2>2 DEF SetExec
  <2>4. Cut(c, args, "")
    <3>1. Cut(CStringArray(args), args, "")
      BY <1>2, CStrings, Zenon
    <3>. QED BY <1>1, <2>1, <3>1, Zenon
  <2>5. Cut(<<path>> \o c, <<path>> \o args, "")
    BY <1>2, <2>1, <2>4, CutInFront, Zenon
  <2>. QED BY <1>2, <2>3, <2>5, Zenon
<1>5. Cut(argv, asked, "")
  BY <1>3, <1>4, KrunRunIs, Zenon
<1>6. /\ IsPrefix(argv, asked) /\ "" \notin ToSet(argv)
      /\ Len(argv) < Len(asked) => asked[Len(argv) + 1] = ""
  BY <1>2, <1>5, CutIs, Zenon
<1>. QED BY <1>1, <1>6, Zenon DEF GuestRunsTheImage

LEMMA InvEnvironment == IInv => GuestHasItsEnvironment
<1>. SUFFICES ASSUME IInv, stage \in Started, client.kind = "run"
              PROVE
       LET asked == client.image.env
           own == IF client.init THEN DOMAIN InitEnv ELSE {}
           last(i) == \A j \in i + 1 .. Len(asked) : asked[j][1] # asked[i][1]
       IN IF asked = <<>> /\ ~client.init
            THEN process.env = HostEnv
            ELSE /\ DOMAIN process.env = {p[1] : p \in ToSet(asked)} \cup own
                 /\ \A i \in DOMAIN asked :
                      last(i) /\ asked[i][1] \notin own =>
                        process.env[asked[i][1]] = asked[i][2]
                 /\ \A k \in own : process.env[k] = InitEnv[k]
  BY Zenon DEF GuestHasItsEnvironment
<1>1. PICK asked, map, keys, init :
        /\ asked = client.image.env /\ map = EnvMap(asked)
        /\ keys = {p[1] : p \in ToSet(asked)} /\ init = InitEnv
  OBVIOUS
<1>2. asked \in Seq(Words \X Words)
  BY <1>1, KrunRunIs, ImagesAssumption
<1>3. /\ DOMAIN map = keys
      /\ asked = <<>> => map = <<>>
      /\ asked # <<>> => map # <<>>
      /\ \A i \in DOMAIN asked :
           (\A j \in i + 1 .. Len(asked) : asked[j][1] # asked[i][1])
             => map[asked[i][1]] = asked[i][2]
  BY <1>1, <1>2, EnvMapIs, Zenon
<1>4. process.env = Environment(config.env)
  <2>1. \/ process = SetExec(config)
        \/ process = [SetExec(config) EXCEPT !.argv = Tail(@)]
    BY DEF IInv, ProcessFollows, Started
  <2>. QED BY <2>1 DEF SetExec
<1>5. config.env = IF client.init THEN Over(init, map) ELSE map
  BY <1>1, KrunRunIs, Zenon
<1>6. \A i \in DOMAIN asked : asked[i][1] \in keys
  BY <1>1, Zenon DEF ToSet
<1>7. CASE client.init
  <2>1. /\ DOMAIN Over(init, map) = DOMAIN init \cup keys
        /\ \A k \in DOMAIN init : Over(init, map)[k] = init[k]
        /\ \A k \in keys \ DOMAIN init : Over(init, map)[k] = map[k]
    BY <1>3 DEF Over
  <2>2. Over(init, map) # <<>>
    <3>1. "KRUN_INIT_PID1" \in DOMAIN init
      BY <1>1 DEF InitEnv
    <3>2. DOMAIN <<>> = {}
      OBVIOUS
    <3>. QED BY <2>1, <3>1, <3>2, Zenon
  <2>3. process.env = Over(init, map)
    BY <1>4, <1>5, <1>7, <2>2, Zenon DEF Environment
  <2>4. DOMAIN process.env = keys \cup DOMAIN init
    BY <2>1, <2>3
  <2>5. \A k \in DOMAIN init : process.env[k] = init[k]
    BY <2>1, <2>3, Zenon
  <2>6. ASSUME NEW i \in DOMAIN asked, asked[i][1] \notin DOMAIN init,
               \A j \in i + 1 .. Len(asked) : asked[j][1] # asked[i][1]
        PROVE  process.env[asked[i][1]] = asked[i][2]
    BY <1>3, <1>6, <2>1, <2>3, <2>6, Zenon
  <2>. QED BY <1>1, <1>7, <2>4, <2>5, <2>6, Zenon
<1>8. CASE ~client.init /\ asked = <<>>
  <2>1. config.env = <<>>
    BY <1>3, <1>5, <1>8, Zenon
  <2>. QED BY <1>1, <1>4, <1>8, <2>1, Zenon DEF Environment
<1>9. CASE ~client.init /\ asked # <<>>
  <2>1. process.env = map
    BY <1>3, <1>4, <1>5, <1>9, Zenon DEF Environment
  <2>2. DOMAIN process.env = keys \cup {}
    BY <1>3, <2>1
  <2>. QED BY <1>1, <1>3, <1>9, <2>1, <2>2, Zenon
<1>. QED BY <1>7, <1>8, <1>9, Zenon

(* A VM that is entered has the CPUs and the memory that were asked for,   *)
(* but for the bits beyond eight and 32, and nothing of it was left out    *)
(* (krun-vmm main.go:45-114, handler.go:40-45, manager.go:166-167).        *)
THEOREM VMAsAsked == Spec => []VMHasWhatWasAsked
BY Inductive, InvVM, PTL

(* Whatever image krun-run is given, its command runs, argument for        *)
(* argument up to the first empty one (image.go:13-40, lib.go:965-980).    *)
THEOREM CommandRuns == Spec => []GuestRunsTheImage
BY Inductive, InvCommand, PTL

(* Its process has the image's environment, a key's last value counting,   *)
(* with vminit's own over it (image.go:43-50, lib.go:786-792).             *)
THEOREM EnvironmentKept == Spec => []GuestHasItsEnvironment
BY Inductive, InvEnvironment, PTL

(* A session runs what krun-exec was given, of any words and any number,   *)
(* up to the first line break (krun-exec main.go:101-104,                  *)
(* resize.go:21-38).                                                       *)
THEOREM SessionAsAsked == Spec => []SessionRunsItsCommand
BY Inductive, InvSession, PTL

=============================================================================
