---------------------------- MODULE ResizeStream ----------------------------
(***************************************************************************)
(* Terminal input on its way to a shell in the guest: krun-exec mixes what *)
(* is typed with 8-byte resize messages into one stream, vminit tells them *)
(* apart again however the stream is cut into reads.  A byte is "A" (0x01),*)
(* "B" (0x80), which the magic prefix is made of, or "x", any other.       *)
(***************************************************************************)
EXTENDS Naturals, Sequences, SequencesExt, FiniteSetsExt

CONSTANTS
  Sizes,       \* terminal sizes, columns and rows as the four bytes sent
  MaxTyped,    \* bound on the bytes typed
  MaxChanges   \* bound on the changes of the terminal's size

Byte == {"A", "B", "x"}
MarkedByte == [b : Byte, text : Nat, msg : Nat, part : 0..8]

ASSUME SizesAssumption == Sizes \subseteq [1..4 -> Byte]
ASSUME BoundsAssumption == MaxTyped \in Nat /\ MaxChanges \in Nat

VARIABLES
  window,    \* size of the user's terminal
  changes,   \* number of times it changed
  winch,     \* is there a signal in winchCh, which has room for one?
  host,      \* where krun-exec is
  stream,    \* what it wrote after the handshake line, bytes with marks that
             \* only the properties look at: how much was typed, how many
             \* messages were begun, and the byte's part in its own, 0 for text
  typed,     \* what was typed of it
  sent,      \* sizes in its messages
  broken,    \* was the connection lost?
  guest,     \* where handleExecSession is with its input
  raw,       \* number of bytes it took along with the handshake line
  got,       \* number of bytes read
  at,        \* number of bytes dealt with
  matchLen,  \* number of bytes of the magic prefix matched
  dims,      \* dimBuf[:dimFilled]
  out,       \* bytes written to the PTY
  applied    \* sizes the PTY was given

hostVars == <<window, changes, winch, host, stream, typed, sent, broken>>
guestVars == <<guest, raw, got, at, matchLen, dims, out, applied>>
vars == <<hostVars, guestVars>>

Magic == <<"A", "B", "A", "B">>

Bytes(s) == [i \in DOMAIN s |-> s[i].b]

Message(size) ==
  [i \in 1..8 |-> [b |-> (Magic \o size)[i], text |-> Len(typed),
                   msg |-> Len(sent) + 1, part |-> i]]

-----------------------------------------------------------------------------
(* krun-exec                                                               *)

(* The window changes.  Before signal.Notify nobody hears of it; a signal  *)
(* that finds winchCh full is dropped.                                     *)
Resize(s) ==
  /\ changes < MaxChanges
  /\ s # window
  /\ window' = s
  /\ changes' = changes + 1
  /\ winch' = (winch \/ host \notin {"start", "notify"})
  /\ UNCHANGED <<host, stream, typed, sent, broken, guestVars>>

HostAt(from, to) == host = from /\ host' = to

(* term.GetSize, and the handshake line with its result.                   *)
SendHandshake ==
  /\ HostAt("start", "notify")
  /\ UNCHANGED <<window, changes, winch, stream, typed, sent, broken,
                 guestVars>>

Notify ==
  /\ HostAt("notify", "poll")
  /\ UNCHANGED <<window, changes, winch, stream, typed, sent, broken,
                 guestVars>>

PollWinch ==
  /\ HostAt("poll", IF winch THEN "winch" ELSE "read")
  /\ winch' = FALSE
  /\ UNCHANGED <<window, changes, stream, typed, sent, broken, guestVars>>

(* The size is that of the moment, not that of the signal.                 *)
SendResize ==
  /\ HostAt("winch", "read")
  /\ stream' = stream \o Message(window)
  /\ sent' = Append(sent, window)
  /\ UNCHANGED <<window, changes, winch, typed, broken, guestVars>>

(* A read of stdin and its copy; of a longer one, the next byte at once.   *)
Type(b) ==
  /\ HostAt("read", "poll")
  /\ Len(typed) < MaxTyped
  /\ typed' = Append(typed, b)
  /\ stream' = Append(stream, [b |-> b, text |-> Len(typed) + 1,
                               msg |-> Len(sent), part |-> 0])
  /\ UNCHANGED <<window, changes, winch, sent, broken, guestVars>>

(* 100 ms, where stdin takes a deadline.                                   *)
ReadTimeout ==
  /\ HostAt("read", "poll")
  /\ UNCHANGED <<window, changes, winch, stream, typed, sent, broken,
                 guestVars>>

StdinEnds ==
  /\ HostAt("read", "ended")
  /\ UNCHANGED <<window, changes, winch, stream, typed, sent, broken,
                 guestVars>>

(* The connection is lost with what the guest has not read.                *)
Break ==
  /\ host \notin {"start", "ended"}
  /\ host' = "ended"
  /\ broken' = TRUE
  /\ stream' = SubSeq(stream, 1, got)
  /\ UNCHANGED <<window, changes, winch, typed, sent, guestVars>>

-----------------------------------------------------------------------------
(* vminit: the handshake, then copyWithResize                              *)

Here == stream[at + 1].b
Ahead(n) == Bytes(SubSeq(stream, at + 1, at + n))

(* bufio's reader returns the line and keeps the k bytes that came with    *)
(* it; they go to the PTY as they are.                                     *)
Handshake(k) ==
  /\ guest = "handshake" /\ host # "start"
  /\ guest' = "copy"
  /\ raw' = k /\ got' = k /\ at' = k
  /\ out' = Bytes(SubSeq(stream, 1, k))
  /\ UNCHANGED <<hostVars, matchLen, dims, applied>>

Read ==
  /\ guest = "copy" /\ at = got
  /\ got' \in (got + 1)..Len(stream)
  /\ UNCHANGED <<hostVars, guest, raw, at, matchLen, dims, out, applied>>

Match ==
  /\ guest = "copy" /\ at < got
  /\ matchLen < 3
  /\ Here = Magic[matchLen + 1]
  /\ matchLen' = matchLen + 1
  /\ at' = at + 1
  /\ UNCHANGED <<hostVars, guest, raw, got, dims, out, applied>>

(* All four bytes of the size, or what the buffer has of them.             *)
Fill(size) ==
  IF Len(size) = 4
  THEN applied' = Append(applied, size) /\ dims' = <<>> /\ guest' = "copy"
  ELSE dims' = size /\ guest' = "dims" /\ UNCHANGED applied

(* matchLen keeps its value.                                               *)
MatchWithoutReset ==
  /\ guest = "copy" /\ at < got
  /\ matchLen = 3 /\ Here = "B"
  /\ matchLen' = 4
  /\ LET last == Min({at + 5, got})
     IN  at' = last /\ Fill(Bytes(SubSeq(stream, at + 2, last)))
  /\ UNCHANGED <<hostVars, raw, got, out>>

MatchLast ==
  /\ guest = "copy" /\ at < got
  /\ matchLen = 3 /\ Here = "B"
  /\ matchLen' = 0
  /\ LET last == Min({at + 5, got})
     IN  at' = last /\ Fill(Bytes(SubSeq(stream, at + 2, last)))
  /\ UNCHANGED <<hostVars, raw, got, out>>

(* A size in two reads that is not applied.                                *)
ReadDimsOnly(k) ==
  /\ guest = "dims"
  /\ got' = got + k /\ at' = at + k
  /\ IF Len(dims) + k = 4 THEN dims' = <<>> /\ guest' = "copy"
                          ELSE dims' = dims \o Ahead(k) /\ UNCHANGED guest
  /\ UNCHANGED <<hostVars, raw, matchLen, out, applied>>

ReadDims(k) ==
  /\ guest = "dims"
  /\ k <= 4 - Len(dims)
  /\ got' = got + k /\ at' = at + k
  /\ Fill(dims \o Ahead(k))
  /\ UNCHANGED <<hostVars, raw, matchLen, out>>

(* What was matched is text after all; the byte that told is next.         *)
FlushAndSkip ==
  /\ guest = "copy" /\ at < got
  /\ matchLen > 0 /\ Here # Magic[matchLen + 1]
  /\ out' = out \o SubSeq(Magic, 1, matchLen) \o <<Here>>
  /\ matchLen' = 0
  /\ at' = at + 1
  /\ UNCHANGED <<hostVars, guest, raw, got, dims, applied>>

Flush ==
  /\ guest = "copy" /\ at < got
  /\ matchLen > 0 /\ Here # Magic[matchLen + 1]
  /\ out' = out \o SubSeq(Magic, 1, matchLen)
  /\ matchLen' = 0
  /\ UNCHANGED <<hostVars, guest, raw, got, at, dims, applied>>

(* Everything up to where a prefix may begin.                              *)
Copy ==
  /\ guest = "copy" /\ at < got
  /\ matchLen = 0
  /\ \E n \in 1..(got - at) :
       /\ \A i \in 1..n : stream[at + i].b # "A"
       /\ at + n < got => stream[at + n + 1].b = "A"
       /\ out' = out \o Ahead(n) /\ at' = at + n
  /\ UNCHANGED <<hostVars, guest, raw, got, matchLen, dims, applied>>

AtEOF == host = "ended" /\ at = got /\ got = Len(stream)

(* The end of input without the flush.                                     *)
EndWithoutFlush ==
  /\ AtEOF
  /\ guest \in {"copy", "dims"}
  /\ guest' = "done"
  /\ UNCHANGED <<hostVars, raw, got, at, matchLen, dims, out, applied>>

(* A partial prefix is text; a partial size is dropped.                    *)
EndOfInput ==
  /\ AtEOF
  /\ guest \in {"copy", "dims"}
  /\ guest' = "done"
  /\ out' = out \o SubSeq(Magic, 1, matchLen)
  /\ UNCHANGED <<hostVars, raw, got, at, matchLen, dims, applied>>

-----------------------------------------------------------------------------

Init ==
  /\ window \in Sizes
  /\ changes = 0 /\ winch = FALSE
  /\ host = "start"
  /\ stream = <<>> /\ typed = <<>> /\ sent = <<>> /\ broken = FALSE
  /\ guest = "handshake"
  /\ raw = 0 /\ got = 0 /\ at = 0 /\ matchLen = 0
  /\ dims = <<>> /\ out = <<>> /\ applied = <<>>

Next ==
  \/ \E s \in Sizes : Resize(s)
  \/ SendHandshake \/ Notify \/ PollWinch \/ SendResize
  \/ \E b \in Byte : Type(b)
  \/ ReadTimeout \/ StdinEnds \/ Break
  \/ \E k \in 0..Len(stream) : Handshake(k)
  \/ Read \/ Match \/ MatchLast \/ Flush \/ Copy
  \/ \E k \in 1..Min({4, Len(stream) - got}) : ReadDims(k)
  \/ EndOfInput

Spec == Init /\ [][Next]_vars

-----------------------------------------------------------------------------

(* The places in the stream and the partial matches stay in their ranges:  *)
(* resizeMagic[matchLen] is never out of bounds.                           *)
TypeOK ==
  /\ window \in Sizes /\ changes \in 0..MaxChanges /\ winch \in BOOLEAN
  /\ host \in {"start", "notify", "poll", "winch", "read", "ended"}
  /\ stream \in Seq(MarkedByte)
  /\ typed \in Seq(Byte) /\ Len(typed) <= MaxTyped
  /\ sent \in Seq(Sizes)
  /\ broken \in BOOLEAN
  /\ guest \in {"handshake", "copy", "dims", "done"}
  /\ got \in 0..Len(stream) /\ at \in 0..got /\ raw \in 0..at
  /\ matchLen \in 0..3
  /\ dims \in Seq(Byte) /\ Len(dims) < 4
  /\ dims # <<>> => guest \in {"dims", "done"}
  /\ out \in Seq(Byte)
  /\ applied \in Seq([1..4 -> Byte])

(* What bytes mean from the i-th on, given f for what comes after: messages *)
(* where the prefix occurs, from the left, and a size only if all of it is *)
(* there; text elsewhere.                                                  *)
MagicAt(s, i) == i + 3 <= Len(s) /\ \A j \in 1..4 : s[i + j - 1] = Magic[j]

SizeAfter(s, i) == IF i + 7 <= Len(s) THEN <<SubSeq(s, i + 4, i + 7)>> ELSE <<>>

Means(s, f, i) ==
  IF i > Len(s) THEN [text |-> <<>>, sizes |-> <<>>]
  ELSE IF MagicAt(s, i)
  THEN [text |-> f[i + 8].text, sizes |-> SizeAfter(s, i) \o f[i + 8].sizes]
  ELSE [text |-> <<s[i]>> \o f[i + 1].text, sizes |-> f[i + 1].sizes]

Decode(s) == LET f[i \in 1..(Len(s) + 8)] == Means(s, f, i) IN f

(* However the input came in pieces, the PTY got what the whole of it      *)
(* means, but for what came along with the handshake line                  *)
(* (resize.go:54-107, 109-115; main.go:316-324).                           *)
ReadsDoNotMatter ==
  guest = "done" =>
    LET all   == Bytes(stream)
        means == Decode(all)[raw + 1]
    IN  /\ out = SubSeq(all, 1, raw) \o means.text
        /\ applied = means.sizes

(* No 0x80 follows 0x01 in what is typed, as in UTF-8.                     *)
NoPrefixTyped ==
  \A i \in 1..(Len(typed) - 1) : ~(typed[i] = "A" /\ typed[i + 1] = "B")

(* No byte of a resize message came along with the handshake line.         *)
NoEarlyResize == \A i \in 1..raw : stream[i].part = 0

Undisturbed == NoPrefixTyped /\ NoEarlyResize /\ ~broken

(* The shell gets what is typed, all of it in the end, nothing else and in *)
(* order, and the PTY the sizes sent, whatever bytes they are made of; no  *)
(* more than a trailing 0x01 is kept waiting (resize.go:91-96, 110-113).   *)
TextIsUntouched ==
  Undisturbed =>
    /\ IsPrefix(out, typed) /\ IsPrefix(applied, sent)
    /\ guest = "done" => out = typed /\ applied = sent
    /\ guest = "copy" /\ at = Len(stream) =>
         /\ out \o SubSeq(Magic, 1, matchLen) = typed
         /\ matchLen <= 1

(* When all is quiet the PTY has the size of the terminal, though signals  *)
(* coalesce and the size may change between a signal and the look at it    *)
(* (krun-exec main.go:147-153, 173).                                       *)
PtyFollowsTerminal ==
  /\ Undisturbed
  /\ ~winch /\ host \in {"poll", "read"} /\ sent # <<>>
  /\ guest = "copy" /\ at = Len(stream)
  => applied # <<>> /\ Last(applied) = window

=============================================================================
