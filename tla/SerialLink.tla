----------------------------- MODULE SerialLink -----------------------------
(***************************************************************************)
(* infrastructure/core/serial_link.py: the console links a run opens one   *)
(* after the other on the same probe.  Each link has a reader thread that  *)
(* moves bytes from the tty into the link's buffer and into console.log;   *)
(* the main thread looks at the buffer, clears it and closes the link.     *)
(* The lock's two critical sections (extend and trim; copy or clear) are   *)
(* one step each, everything between them is a step of its own.            *)
(*                                                                         *)
(* A byte is its number on the wire.  The kernel may give the next link    *)
(* the descriptor number close() has just given back, and a reader that    *)
(* outlives its join still reads from that number.                         *)
(***************************************************************************)
EXTENDS Integers, Sequences

CONSTANTS
    Links,    \* bound: links opened by a run (the code: one, two with the retry)
    Bytes,    \* bound: bytes the board sends
    Chunk,    \* os.read's size (the code: 4096)
    Cap,      \* the buffer is trimmed when it is longer (the code: 2 000 000)
    Keep      \* to this length (the code: 1 000 000)

ASSUME LinkAssumption ==
    /\ Links \in Nat \ {0}
    /\ Bytes \in Nat
    /\ Chunk \in Nat \ {0}
    /\ Keep \in Nat \ {0}
    /\ Cap \in Nat
    /\ Keep <= Cap

VARIABLES
    sent,      \* bytes that have reached an open tty
    taken,     \* bytes the tty has handed out or thrown away
    gone,      \* has the device left the bus
    fd,        \* is the descriptor open
    cur,       \* the link the main thread uses, 0 before the first
    pc,        \* the main thread
    want,      \* the byte that completes the pattern wait_for looks for
    text,      \* wait_for's snapshot
    expired,   \* has its deadline passed
    reader,    \* the reader threads
    hand,      \* what each has read and not yet put anywhere
    stop,      \* each link's _stop
    buf,       \* each link's _buf
    log,       \* what each reader has appended to console.log
    opened,    \* history: `taken' when the link was opened
    fresh      \* history: bytes appended to the current buffer since it was cleared

mainVars == <<cur, pc, want, text, expired>>
readerVars == <<reader, hand, buf, log, fresh>>
vars == <<sent, taken, gone, fd, mainVars, readerVars, stop, opened>>

Link == 1 .. Links
Waiting == {"look", "test"}

\* Bytes a+1 to b of the wire.
Wire(a, b) == [i \in 1 .. (b - a) |-> a + i]

Init ==
    /\ sent = 0
    /\ taken = 0
    /\ gone = FALSE
    /\ fd = FALSE
    /\ cur = 0
    /\ pc = "closed"
    /\ want = 0
    /\ text = <<>>
    /\ expired = FALSE
    /\ reader = [g \in Link |-> "none"]
    /\ hand = [g \in Link |-> <<>>]
    /\ stop = [g \in Link |-> FALSE]
    /\ buf = [g \in Link |-> <<>>]
    /\ log = [g \in Link |-> <<>>]
    /\ opened = [g \in Link |-> 0]
    /\ fresh = 0

----------------------------------------------------------------------------
(* The device and its tty *)

Emit ==
    /\ fd
    /\ ~gone
    /\ sent < Bytes
    /\ sent' = sent + 1
    /\ UNCHANGED <<taken, gone, fd, mainVars, readerVars, stop, opened>>

\* The device leaves the bus: what the tty had is lost.
Vanish ==
    /\ fd
    /\ ~gone
    /\ gone' = TRUE
    /\ sent' = taken
    /\ UNCHANGED <<taken, fd, mainVars, readerVars, stop, opened>>

----------------------------------------------------------------------------
(* The reader thread of link g *)

CheckStop(g) ==
    /\ reader[g] = "check"
    /\ reader' = [reader EXCEPT ![g] = IF stop[g] THEN "ended" ELSE "read"]
    /\ UNCHANGED <<sent, taken, gone, fd, mainVars, hand, buf, log, fresh, stop, opened>>

\* os.read returns a chunk.
ReadChunk(g) ==
    /\ reader[g] = "read"
    /\ fd
    /\ \E n \in 1 .. Chunk :
          /\ taken + n <= sent
          /\ hand' = [hand EXCEPT ![g] = Wire(taken, taken + n)]
          /\ taken' = taken + n
    /\ reader' = [reader EXCEPT ![g] = "append"]
    /\ UNCHANGED <<sent, gone, fd, mainVars, buf, log, fresh, stop, opened>>

\* Mutant: BlockingIOError is handled like any other OSError.
ReadNothingEnds(g) ==
    /\ reader[g] = "read"
    /\ fd
    /\ taken = sent
    /\ reader' = [reader EXCEPT ![g] = "ended"]
    /\ UNCHANGED <<sent, taken, gone, fd, mainVars, hand, buf, log, fresh, stop, opened>>

\* os.read has nothing (BlockingIOError), or an end of file from a lost device.
ReadNothing(g) ==
    /\ reader[g] = "read"
    /\ fd
    /\ taken = sent
    /\ reader' = [reader EXCEPT ![g] = "check"]
    /\ UNCHANGED <<sent, taken, gone, fd, mainVars, hand, buf, log, fresh, stop, opened>>

\* os.read raises OSError: a closed descriptor, a lost device, or the number of
\* a link closed long since that the new link was not given.
ReadFails(g) ==
    /\ reader[g] = "read"
    /\ ~fd \/ gone \/ g # cur
    /\ reader' = [reader EXCEPT ![g] = "ended"]
    /\ UNCHANGED <<sent, taken, gone, fd, mainVars, hand, buf, log, fresh, stop, opened>>

\* Mutants: the trim keeps the oldest bytes; it keeps none.
TrimmedOldest(s) == IF Len(s) > Cap THEN SubSeq(s, 1, Keep) ELSE s
TrimmedAll(s) == IF Len(s) > Cap THEN <<>> ELSE s

Trimmed(s) == IF Len(s) > Cap THEN SubSeq(s, Len(s) - Keep + 1, Len(s)) ELSE s

AppendChunk(g) ==
    /\ reader[g] = "append"
    /\ buf' = [buf EXCEPT ![g] = Trimmed(@ \o hand[g])]
    /\ fresh' = IF g = cur THEN fresh + Len(hand[g]) ELSE fresh
    /\ reader' = [reader EXCEPT ![g] = "log"]
    /\ UNCHANGED <<sent, taken, gone, fd, mainVars, hand, log, stop, opened>>

\* Mutant: after the log is written the thread reads on without looking at _stop.
LogAndReadOn(g) ==
    /\ reader[g] = "log"
    /\ log' = [log EXCEPT ![g] = @ \o hand[g]]
    /\ hand' = [hand EXCEPT ![g] = <<>>]
    /\ reader' = [reader EXCEPT ![g] = "read"]
    /\ UNCHANGED <<sent, taken, gone, fd, mainVars, buf, fresh, stop, opened>>

LogChunk(g) ==
    /\ reader[g] = "log"
    /\ log' = [log EXCEPT ![g] = @ \o hand[g]]
    /\ hand' = [hand EXCEPT ![g] = <<>>]
    /\ reader' = [reader EXCEPT ![g] = "check"]
    /\ UNCHANGED <<sent, taken, gone, fd, mainVars, buf, fresh, stop, opened>>

\* The open or the write raises OSError (a full disk): no try surrounds them, so
\* the thread dies of it, with part of the chunk written or none.
LogFails(g) ==
    /\ reader[g] = "log"
    /\ \E n \in 0 .. Len(hand[g]) :
          /\ log' = [log EXCEPT ![g] = @ \o SubSeq(hand[g], 1, n)]
          /\ hand' = [hand EXCEPT ![g] = SubSeq(@, n + 1, Len(@))]
    /\ reader' = [reader EXCEPT ![g] = "died"]
    /\ UNCHANGED <<sent, taken, gone, fd, mainVars, buf, fresh, stop, opened>>

ReaderStep(g) ==
    \/ CheckStop(g) \/ ReadChunk(g) \/ ReadNothing(g) \/ ReadFails(g)
    \/ AppendChunk(g) \/ LogChunk(g) \/ LogFails(g)

----------------------------------------------------------------------------
(* The main thread *)

\* Mutant: the retry is not single.
OpenUnbounded ==
    /\ pc = "closed"
    /\ cur' = cur + 1
    /\ pc' = "idle"
    /\ fd' = TRUE
    /\ gone' = FALSE
    /\ fresh' = 0
    /\ reader' = [reader EXCEPT ![cur + 1] = "check"]
    /\ opened' = [opened EXCEPT ![cur + 1] = taken]
    /\ UNCHANGED <<sent, taken, want, text, expired, hand, buf, log, stop>>

Open ==
    /\ pc = "closed"
    /\ cur < Links
    /\ cur' = cur + 1
    /\ pc' = "idle"
    /\ fd' = TRUE
    /\ gone' = FALSE
    /\ fresh' = 0
    /\ reader' = [reader EXCEPT ![cur + 1] = "check"]
    /\ opened' = [opened EXCEPT ![cur + 1] = taken]
    /\ UNCHANGED <<sent, taken, want, text, expired, hand, buf, log, stop>>

ClearBuffer ==
    /\ pc = "idle"
    /\ buf' = [buf EXCEPT ![cur] = <<>>]
    /\ fresh' = 0
    /\ UNCHANGED <<sent, taken, gone, fd, mainVars, reader, hand, log, stop, opened>>

\* wait_for, and catch_uboot_prompt between its keypresses.
WaitFor ==
    /\ pc = "idle"
    /\ pc' = "look"
    /\ want' \in 1 .. Bytes
    /\ expired' = FALSE
    /\ UNCHANGED <<sent, taken, gone, fd, cur, text, readerVars, stop, opened>>

Look ==
    /\ pc = "look"
    /\ text' = buf[cur]
    /\ pc' = "test"
    /\ UNCHANGED <<sent, taken, gone, fd, cur, want, expired, readerVars, stop, opened>>

Matches == \E i \in DOMAIN text : text[i] = want

\* Mutant: the deadline is moved on after every look.
TestForever ==
    /\ pc = "test"
    /\ pc' = IF Matches THEN "idle" ELSE "look"
    /\ expired' = FALSE
    /\ UNCHANGED <<sent, taken, gone, fd, cur, want, text, readerVars, stop, opened>>

\* Found and SerialTimeout both give the link back to the caller.
Test ==
    /\ pc = "test"
    /\ pc' = IF Matches \/ expired THEN "idle" ELSE "look"
    /\ UNCHANGED <<sent, taken, gone, fd, cur, want, text, expired, readerVars, stop, opened>>

Expire ==
    /\ pc \in Waiting
    /\ ~expired
    /\ expired' = TRUE
    /\ UNCHANGED <<sent, taken, gone, fd, cur, pc, want, text, readerVars, stop, opened>>

SetStop ==
    /\ pc = "idle"
    /\ stop' = [stop EXCEPT ![cur] = TRUE]
    /\ pc' = "join"
    /\ UNCHANGED <<sent, taken, gone, fd, cur, want, text, expired, readerVars, opened>>

\* join(timeout=2) returns when the thread has ended, or wherever it is.
Join ==
    /\ pc = "join"
    /\ pc' = "close"
    /\ UNCHANGED <<sent, taken, gone, fd, cur, want, text, expired, readerVars, stop, opened>>

\* The last close empties the tty.
CloseFd ==
    /\ pc = "close"
    /\ fd' = FALSE
    /\ sent' = taken
    /\ pc' = "closed"
    /\ UNCHANGED <<taken, gone, cur, want, text, expired, readerVars, stop, opened>>

Main == Open \/ ClearBuffer \/ WaitFor \/ Look \/ Test \/ SetStop \/ Join \/ CloseFd

Next ==
    \/ Main \/ Expire \/ Emit \/ Vanish
    \/ \E g \in Link : ReaderStep(g)

Spec == Init /\ [][Next]_vars

\* Threads are scheduled, waits go on, and time passes.
FairSpec ==
    /\ Spec
    /\ \A g \in Link : WF_vars(ReaderStep(g))
    /\ WF_vars(Look \/ Test)
    /\ WF_vars(Expire)

----------------------------------------------------------------------------
(* Safety *)

TypeOK ==
    /\ sent \in 0 .. Bytes
    /\ taken \in 0 .. Bytes
    /\ gone \in BOOLEAN
    /\ fd \in BOOLEAN
    /\ cur \in 0 .. Links
    /\ pc \in {"closed", "idle", "look", "test", "join", "close"}
    /\ want \in 0 .. Bytes
    /\ text \in Seq(1 .. Bytes)
    /\ expired \in BOOLEAN
    /\ reader \in [Link -> {"none", "check", "read", "append", "log", "ended", "died"}]
    /\ hand \in [Link -> Seq(1 .. Bytes)]
    /\ stop \in [Link -> BOOLEAN]
    /\ buf \in [Link -> Seq(1 .. Bytes)]
    /\ log \in [Link -> Seq(1 .. Bytes)]
    /\ opened \in [Link -> 0 .. Bytes]
    /\ fresh \in 0 .. Bytes

Elements(s) == {s[i] : i \in DOMAIN s}
LastOf(s, n) == SubSeq(s, Len(s) - n + 1, Len(s))

\* What link g's reader has taken from the tty, and of that what the current
\* link was to get.
Received(g) == log[g] \o hand[g]
Has(g) == Elements(Received(g)) \cap ((opened[cur] + 1) .. taken)

\* What readers of earlier links, late at os.read, have taken from this one.
Stolen == UNION {Has(g) : g \in 1 .. (cur - 1)}

Pending(g) == IF reader[g] = "append" THEN hand[g] ELSE <<>>

\* What wait_for searches is the end of what the link's reader took, without a
\* gap and nothing out of place, whatever was trimmed or cleared while the reader
\* held a chunk: a pattern that crosses chunks is found, and none that was not sent.
BufferShowsTheWire ==
    fd => LET shown == buf[cur] \o Pending(cur)
          IN  /\ Len(shown) <= Len(Received(cur))
              /\ shown = LastOf(Received(cur), Len(shown))

\* The link's reader takes every byte the link receives, in order, and leaves them
\* in console.log but for the chunk in its hand, with one exception: a reader of
\* an earlier link that outlived its join can take a single chunk, when its
\* descriptor number is in use again; the link then misses just that chunk.
LogShowsTheWire ==
    fd => /\ \A i, j \in DOMAIN Received(cur) : i < j => Received(cur)[i] < Received(cur)[j]
          /\ Elements(Received(cur)) = ((opened[cur] + 1) .. taken) \ Stolen
          /\ \A g \in 1 .. (cur - 1) :
                \E a \in opened[cur] .. taken, n \in 0 .. Chunk : Has(g) = (a + 1) .. (a + n)

\* The trim bounds the buffer and never takes the newest Keep bytes since it
\* was last cleared.
TrimKeepsNewest ==
    cur > 0 => /\ Len(buf[cur]) <= Cap
               /\ Len(buf[cur]) >= fresh \/ Len(buf[cur]) >= Keep

----------------------------------------------------------------------------
(* Liveness *)

Closing == pc \in {"join", "close", "closed"}

\* Byte p is on the wire of the open link; it has been put into the buffer (and
\* may have been trimmed or cleared since); the link has gone blind.
Arrived(p) == ~Closing /\ p \in (opened[cur] + 1) .. sent
Shown(p) == ~Closing /\ p \in Elements(Received(cur)) \ Elements(Pending(cur))
Blind == Closing \/ gone \/ reader[cur] = "died"

\* serial_link.py: "A live buffer behind a lock has no such gap": a byte on the
\* wire gets into the buffer, unless the link is closed, the device is lost, the
\* reader died of a console.log it could not write, or a late reader took it.
ArrivedIsShown ==
    \A p \in 1 .. Bytes : Arrived(p) ~> Shown(p) \/ Blind \/ p \in Stolen

\* wait_for returns or raises, whatever the board does.
WaitEnds == pc \in Waiting ~> pc = "idle"
=============================================================================
