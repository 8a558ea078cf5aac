------------------------------ MODULE ShellSession ------------------------------
(***************************************************************************)
(* One terminal session of the host (src/cli/backend/src/shell.rs): the    *)
(* thread that reads the PTY, the thread that watches the child, the       *)
(* sockets that attach to the session, follow it and leave it, the kill    *)
(* and reap paths, and at the far end the browser tabs (Terminal.tsx) that *)
(* put the bytes on the screen and resume from their offset.               *)
(*                                                                         *)
(* The byte at position p of the PTY's output is the number p, so a run of *)
(* consecutive bytes is an interval [lo, hi) and a frame tells apart the   *)
(* offset it is labelled with from the bytes it really carries.            *)
(*                                                                         *)
(* Every lock of the session protects one field only: each action below is *)
(* what one thread or task does between two places where another may run.  *)
(***************************************************************************)
EXTENDS Integers, Sequences, FiniteSets

CONSTANTS
  Conns,     \* sockets: one element per call of handle_socket
  Tabs,      \* browser tabs
  None,      \* no subscriber, no socket
  RingCap,   \* RING_CAP
  ChanCap,   \* capacity of the subscriber channel
  MaxBytes,  \* bound: bytes the PTY produces
  MaxChunk,  \* bound: bytes of one read of the PTY
  Ends       \* bound: how the shell may end, of "exit", "kill" and "reap"

ASSUME NoneAssumption == None \notin Conns
ASSUME CapAssumption == RingCap \in Nat \ {0} /\ ChanCap \in Nat \ {0}
ASSUME BoundAssumption == MaxBytes \in Nat /\ MaxChunk \in Nat \ {0}
                          /\ Ends \subseteq {"exit", "kill", "reap"}

VARIABLES
  inMap,      \* SESSIONS still lists the session
  childAlive, \* the shell process runs
  killer,     \* progress of the kill request or of the reaper
  ring,       \* Session.ring: the bytes [lo, hi) it holds
  ringBase,   \* Session.ring_base
  offset,     \* Session.offset
  dead,       \* Session.dead
  epoch,      \* Session.epoch
  sub,        \* Session.sub
  reader,     \* the PTY reader thread: pc, claimed chunk, cloned sender
  watcher,    \* the child watcher thread
  pc,         \* where each handle_socket stands
  my,         \* my_epoch of each socket
  snap,       \* what a socket has read of the session for its replay
  chan,       \* the subscriber channel of each socket
  sent,       \* end of the bytes put on the wire of each socket
  late,       \* data frames a socket sent after it was superseded
  net,        \* frames in flight to the browser
  tab,        \* the tab that opened the socket, None before
  open,       \* the browser's end of the socket is open
  off,        \* offRef of each tab
  screen,     \* what each tab has written to its terminal
  exited      \* the tab has been told that the shell is over

sessionVars == <<ring, ringBase, offset, dead, epoch, sub>>
hostVars == <<inMap, childAlive, killer>>
connVars == <<pc, my, snap, sent, late>>
tabVars == <<off, screen, exited>>
vars == <<sessionVars, hostVars, reader, watcher, connVars, chan, net, tab,
          open, tabVars>>

----------------------------------------------------------------------------
(* Messages *)

Missed == -1      \* the "some output was missed" line of the terminal

Data(b, n) == [kind |-> "data", base |-> b, n |-> n]
Eof == [kind |-> "eof", base |-> 0, n |-> 0]
Takeover == [kind |-> "takeover", base |-> 0, n |-> 0]

\* Frames of the wire: a binary frame labelled `base` that carries the
\* bytes [lo, hi), the ready handshake, and the ways a socket ends.
Frame(b, lo, hi) == [kind |-> "data", base |-> b, lo |-> lo, hi |-> hi]
Ready(seq, behind) == [kind |-> "ready", seq |-> seq, behind |-> behind]
Exit == [kind |-> "exit"]
Superseded == [kind |-> "4000"]
Abrupt == [kind |-> "1006"]

NoSnap == [lo |-> 0, hi |-> 0, base |-> 0, from |-> 0]
NoChunk(at) == [pc |-> at, base |-> 0, n |-> 0, tx |-> None]

\* The socket owns a live receiver of its channel.
Receiving(s) == pc[s] \notin {"idle", "release", "take", "done"}

\* try_send: a full channel or a dropped receiver loses the message.
TrySend(ch, s, m) ==
  IF s # None /\ Receiving(s) /\ Len(ch[s]) < ChanCap
    THEN [ch EXCEPT ![s] = Append(@, m)] ELSE ch

\* Faulty variant: the subtraction does not saturate at zero.
OverflowUnsaturated(n) == ring.hi + n - ring.lo - RingCap

\* push_ring: append the claimed bytes, evict what exceeds RING_CAP and
\* count the evicted bytes in ring_base.
Overflow(n) ==
  LET over == ring.hi + n - ring.lo - RingCap IN IF over > 0 THEN over ELSE 0

\* Faulty variant: the evicted bytes are not counted.
PushRingUncounted(n) ==
  /\ ring' = [lo |-> ring.lo + Overflow(n), hi |-> ring.hi + n]
  /\ UNCHANGED ringBase

PushRing(n) ==
  /\ ring' = [lo |-> ring.lo + Overflow(n), hi |-> ring.hi + n]
  /\ ringBase' = ringBase + Overflow(n)

----------------------------------------------------------------------------
(* The PTY reader thread *)

\* A read returned n bytes: claim their stream offset.
ReaderClaim ==
  /\ reader.pc = "read"
  /\ \E n \in 1..MaxChunk :
       /\ offset + n <= MaxBytes
       /\ offset' = offset + n
       /\ reader' = [pc |-> "push", base |-> offset, n |-> n, tx |-> None]
  /\ UNCHANGED <<hostVars, ring, ringBase, dead, epoch, sub, watcher,
                 connVars, chan, net, tab, open, tabVars>>

\* Store the chunk in the ring, both locks held.
ReaderPush ==
  /\ reader.pc = "push"
  /\ PushRing(reader.n)
  /\ reader' = [reader EXCEPT !.pc = "take"]
  /\ UNCHANGED <<hostVars, offset, dead, epoch, sub, watcher, connVars,
                 chan, net, tab, open, tabVars>>

\* Clone the sender of whoever is attached now.
ReaderTake ==
  /\ reader.pc = "take"
  /\ reader' = IF sub = None THEN NoChunk("read")
               ELSE [reader EXCEPT !.pc = "send", !.tx = sub]
  /\ UNCHANGED <<sessionVars, hostVars, watcher, connVars, chan, net, tab,
                 open, tabVars>>

\* Faulty variant: try_send in place of blocking_send.
ReaderSendUnblocked ==
  /\ reader.pc = "send"
  /\ chan' = TrySend(chan, reader.tx, Data(reader.base, reader.n))
  /\ reader' = NoChunk("read")
  /\ UNCHANGED <<sessionVars, hostVars, watcher, connVars, net, tab, open,
                 tabVars>>

\* blocking_send: waits for room; a dropped receiver discards the chunk.
ReaderSend ==
  /\ reader.pc = "send"
  /\ Receiving(reader.tx) => Len(chan[reader.tx]) < ChanCap
  /\ chan' = TrySend(chan, reader.tx, Data(reader.base, reader.n))
  /\ reader' = NoChunk("read")
  /\ UNCHANGED <<sessionVars, hostVars, watcher, connVars, net, tab, open,
                 tabVars>>

\* End of file or read error.
ReaderEnd ==
  /\ reader.pc = "read"
  /\ ~childAlive
  /\ dead' = TRUE
  /\ reader' = [reader EXCEPT !.pc = "eof"]
  /\ UNCHANGED <<hostVars, ring, ringBase, offset, epoch, sub, watcher,
                 connVars, chan, net, tab, open, tabVars>>

ReaderEof ==
  /\ reader.pc = "eof"
  /\ chan' = TrySend(chan, sub, Eof)
  /\ reader' = [reader EXCEPT !.pc = "done"]
  /\ UNCHANGED <<sessionVars, hostVars, watcher, connVars, net, tab, open,
                 tabVars>>

Reader == ReaderClaim \/ ReaderPush \/ ReaderTake \/ ReaderSend
          \/ ReaderEnd \/ ReaderEof

----------------------------------------------------------------------------
(* The child watcher thread, polling every 200 ms *)

WatcherSee ==
  /\ watcher = "poll"
  /\ ~childAlive
  /\ dead' = TRUE
  /\ watcher' = "notify"
  /\ UNCHANGED <<hostVars, ring, ringBase, offset, epoch, sub, reader,
                 connVars, chan, net, tab, open, tabVars>>

WatcherEof ==
  /\ watcher = "notify"
  /\ chan' = TrySend(chan, sub, Eof)
  /\ watcher' = "done"
  /\ UNCHANGED <<sessionVars, hostVars, reader, connVars, net, tab, open,
                 tabVars>>

Watcher == WatcherSee \/ WatcherEof

----------------------------------------------------------------------------
(* The shell itself, DELETE /api/terms/:id and the reaper *)

ShellExits ==
  /\ "exit" \in Ends /\ childAlive
  /\ childAlive' = FALSE
  /\ UNCHANGED <<sessionVars, inMap, killer, reader, watcher, connVars,
                 chan, net, tab, open, tabVars>>

KillRemove ==
  /\ "kill" \in Ends /\ inMap
  /\ inMap' = FALSE
  /\ killer' = "notify"
  /\ UNCHANGED <<sessionVars, childAlive, reader, watcher, connVars, chan,
                 net, tab, open, tabVars>>

\* Wake the attached socket while the slot is locked.
KillNotify ==
  /\ killer = "notify"
  /\ chan' = TrySend(chan, sub, Eof)
  /\ killer' = "reap"
  /\ UNCHANGED <<sessionVars, inMap, childAlive, reader, watcher, connVars,
                 net, tab, open, tabVars>>

\* The reaper takes a session that is detached and has been idle for
\* SESSION_TTL: last_active is touched after the look-up of an attach and at
\* the very end of a release, so those two steps can be overtaken.
ReaperRemove ==
  /\ "reap" \in Ends /\ inMap
  /\ sub = None
  /\ \A s \in Conns : pc[s] \in {"idle", "got", "done"}
  /\ inMap' = FALSE
  /\ killer' = "reap"
  /\ UNCHANGED <<sessionVars, childAlive, reader, watcher, connVars, chan,
                 net, tab, open, tabVars>>

\* reap_child: kill and wait.
Reap ==
  /\ killer = "reap"
  /\ childAlive' = FALSE
  /\ killer' = "done"
  /\ UNCHANGED <<sessionVars, inMap, reader, watcher, connVars, chan, net,
                 tab, open, tabVars>>

----------------------------------------------------------------------------
(* handle_socket: attach *)

At(s, from, to) == pc[s] = from /\ pc' = [pc EXCEPT ![s] = to]

\* my_epoch := epoch.fetch_add(1) + 1
Bump(s) ==
  /\ At(s, "got", "bumped")
  /\ epoch' = epoch + 1
  /\ my' = [my EXCEPT ![s] = epoch + 1]
  /\ UNCHANGED <<hostVars, ring, ringBase, offset, dead, sub, reader,
                 watcher, snap, sent, late, chan, net, tab, open, tabVars>>

\* Replace the subscriber and boot the old one.
ReplaceSub(s) ==
  /\ At(s, "bumped", "subbed")
  /\ chan' = TrySend(chan, sub, Takeover)
  /\ sub' = s
  /\ UNCHANGED <<hostVars, ring, ringBase, offset, dead, epoch, reader,
                 watcher, my, snap, sent, late, net, tab, open, tabVars>>

\* The replay window: the ring, ring_base and the head are read one after
\* the other, each under its own lock.
SnapRing(s) ==
  /\ At(s, "subbed", "ringed")
  /\ snap' = [snap EXCEPT ![s] = [@ EXCEPT !.lo = ring.lo, !.hi = ring.hi]]
  /\ sent' = [sent EXCEPT ![s] = ring.hi]
  /\ UNCHANGED <<sessionVars, hostVars, reader, watcher, my, late, chan,
                 net, tab, open, tabVars>>

SnapBase(s) ==
  /\ At(s, "ringed", "based")
  /\ snap' = [snap EXCEPT ![s].base = ringBase]
  /\ UNCHANGED <<sessionVars, hostVars, reader, watcher, my, sent, late,
                 chan, net, tab, open, tabVars>>

\* Faulty variant: live output only, the tail is not replayed.
ReplayNothing(lo, hi, base, from) == Frame(from, hi, hi)

\* The frame to replay: the whole ring when `from` is at or behind its base,
\* nothing when `from` is at or past its end, else the tail after `from`.
ReplayFrame(lo, hi, base, from) ==
  LET skip == from - base IN
  IF from <= base THEN Frame(base, lo, hi)
  ELSE IF skip >= hi - lo THEN Frame(from, hi, hi)
  ELSE Frame(from, lo + skip, hi)

\* Put frames on the wire of s: nobody reads it when the browser has gone.
Send(s, fs) == net' = IF open[s] THEN [net EXCEPT ![s] = @ \o fs] ELSE net

\* Read the head, answer ready and replay: a `from` ahead of the head counts
\* as the head. The head is read once more for ready's `seq`; it can only
\* have grown, and the tab uses it only to pull back a larger watermark.
SendReady(s) ==
  LET from == IF snap[s].from > offset THEN offset ELSE snap[s].from
      f == ReplayFrame(snap[s].lo, snap[s].hi, snap[s].base, from)
      ready == Ready(offset, from < snap[s].base)
  IN
  /\ At(s, "based", "check")
  /\ Send(s, IF f.lo < f.hi THEN <<ready, f>> ELSE <<ready>>)
  /\ UNCHANGED <<sessionVars, hostVars, reader, watcher, my, snap, sent,
                 late, chan, tab, open, tabVars>>

\* Faulty variant: the socket waits for output without looking at `dead`.
CheckDeadSkipped(s) ==
  /\ At(s, "check", "loop")
  /\ UNCHANGED <<sessionVars, hostVars, reader, watcher, my, snap, sent,
                 late, chan, net, tab, open, tabVars>>

\* A dead shell: show the tail, announce the exit, close.
CheckDead(s) ==
  /\ IF dead THEN At(s, "check", "release") /\ Send(s, <<Exit>>)
             ELSE At(s, "check", "loop") /\ UNCHANGED net
  /\ UNCHANGED <<sessionVars, hostVars, reader, watcher, my, snap, sent,
                 late, chan, tab, open, tabVars>>

----------------------------------------------------------------------------
(* handle_socket: the send and receive tasks, and release *)

\* Faulty variant: the send loop does not compare the epoch.
LoopUnchecked(s) ==
  /\ At(s, "loop", "recv")
  /\ UNCHANGED <<sessionVars, hostVars, reader, watcher, my, snap, sent,
                 late, chan, net, tab, open, tabVars>>

\* Top of the send loop: a socket that is no longer the newest stands down.
Loop(s) ==
  /\ IF epoch # my[s] THEN At(s, "loop", "release") /\ Send(s, <<Superseded>>)
                      ELSE At(s, "loop", "recv") /\ UNCHANGED net
  /\ UNCHANGED <<sessionVars, hostVars, reader, watcher, my, snap, sent,
                 late, chan, tab, open, tabVars>>

Forward(s) ==
  LET m == Head(chan[s]) IN
  /\ chan[s] # <<>>
  /\ m.kind = "data"
  /\ At(s, "recv", "loop")
  /\ Send(s, <<Frame(m.base, m.base, m.base + m.n)>>)
  /\ chan' = [chan EXCEPT ![s] = Tail(@)]
  /\ sent' = [sent EXCEPT ![s] = m.base + m.n]
  /\ late' = [late EXCEPT ![s] = IF my[s] # epoch THEN @ + 1 ELSE @]
  /\ UNCHANGED <<sessionVars, hostVars, reader, watcher, my, snap, tab,
                 open, tabVars>>

ForwardEof(s) ==
  /\ chan[s] # <<>>
  /\ Head(chan[s]).kind = "eof"
  /\ At(s, "recv", "release")
  /\ Send(s, <<Exit>>)
  /\ chan' = [chan EXCEPT ![s] = Tail(@)]
  /\ UNCHANGED <<sessionVars, hostVars, reader, watcher, my, snap, sent,
                 late, tab, open, tabVars>>

\* Takeover, or the last sender of the channel is gone.
ForwardTakeover(s) ==
  /\ \/ chan[s] # <<>> /\ Head(chan[s]).kind = "takeover"
     \/ chan[s] = <<>> /\ sub # s /\ reader.tx # s
  /\ At(s, "recv", "release")
  /\ Send(s, <<Superseded>>)
  /\ chan' = [chan EXCEPT ![s] = <<>>]
  /\ UNCHANGED <<sessionVars, hostVars, reader, watcher, my, snap, sent,
                 late, tab, open, tabVars>>

\* The receive task ends: the browser has gone, or it sent something (a
\* ping at the latest) and the socket is no longer the newest. The send
\* task is aborted wherever it waits.
RecvEnds(s) ==
  /\ \/ At(s, "loop", "release") \/ At(s, "recv", "release")
  /\ open[s] => my[s] # epoch
  /\ Send(s, <<Abrupt>>)
  /\ UNCHANGED <<sessionVars, hostVars, reader, watcher, my, snap, sent,
                 late, chan, tab, open, tabVars>>

\* A send of the attach sequence fails because the browser has gone.
SendFails(s) ==
  /\ ~open[s]
  /\ At(s, "based", "release")
  /\ UNCHANGED <<sessionVars, hostVars, reader, watcher, my, snap, sent,
                 late, chan, net, tab, open, tabVars>>

\* release: the epoch is compared first, the slot is emptied afterwards.
\* With the release handle_socket returns: its locals and its channel go.
Return(s) ==
  /\ snap' = [snap EXCEPT ![s] = NoSnap]
  /\ chan' = [chan EXCEPT ![s] = <<>>]
  /\ sent' = [sent EXCEPT ![s] = 0]
  /\ late' = [late EXCEPT ![s] = 0]

ReleaseCheck(s) ==
  /\ IF epoch = my[s]
       THEN At(s, "release", "take") /\ UNCHANGED <<snap, chan, sent, late>>
       ELSE At(s, "release", "done") /\ Return(s)
  /\ UNCHANGED <<sessionVars, hostVars, reader, watcher, my, net, tab, open,
                 tabVars>>

ReleaseTake(s) ==
  /\ At(s, "take", "done")
  /\ sub' = None
  /\ Return(s)
  /\ UNCHANGED <<hostVars, ring, ringBase, offset, dead, epoch, reader,
                 watcher, my, net, tab, open, tabVars>>

Serve(s) ==
  \/ Bump(s) \/ ReplaceSub(s) \/ SnapRing(s) \/ SnapBase(s)
  \/ SendReady(s) \/ CheckDead(s) \/ Loop(s) \/ Forward(s)
  \/ ForwardEof(s) \/ ForwardTakeover(s) \/ ReleaseCheck(s) \/ ReleaseTake(s)

----------------------------------------------------------------------------
(* The browser tab *)

\* Open a socket with `from` = offRef; the session is looked up in SESSIONS.
Connect(t, s) ==
  /\ inMap
  /\ ~exited[t]
  /\ \A r \in Conns : tab[r] = t => ~open[r]
  /\ At(s, "idle", "got")
  /\ tab' = [tab EXCEPT ![s] = t]
  /\ open' = [open EXCEPT ![s] = TRUE]
  /\ snap' = [snap EXCEPT ![s].from = off[t]]
  /\ UNCHANGED <<sessionVars, hostVars, reader, watcher, my, sent, late,
                 chan, net, tabVars>>

\* The connection drops, or the tab closes it: what was in flight is lost.
Drop(s) ==
  /\ open[s]
  /\ open' = [open EXCEPT ![s] = FALSE]
  /\ net' = [net EXCEPT ![s] = <<>>]
  /\ UNCHANGED <<sessionVars, hostVars, reader, watcher, connVars, chan,
                 tab, tabVars>>

Take(s, kind) == open[s] /\ net[s] # <<>> /\ Head(net[s]).kind = kind

Bytes(lo, hi) == [i \in 1..(hi - lo) |-> lo + i - 1]

\* ready: a watermark ahead of the head is pulled back to it; a resume
\* point that was evicted is announced on the terminal.
OnReady(s) ==
  LET t == tab[s]
      m == Head(net[s])
  IN
  /\ Take(s, "ready")
  /\ off' = [off EXCEPT ![t] = IF @ > m.seq THEN m.seq ELSE @]
  /\ screen' = [screen EXCEPT ![t] = IF m.behind THEN Append(@, Missed) ELSE @]
  /\ net' = [net EXCEPT ![s] = Tail(@)]
  /\ UNCHANGED <<sessionVars, hostVars, reader, watcher, connVars, chan,
                 tab, open, exited>>

\* Faulty variant: frames are written whole, the overlap is not trimmed.
OnDataUntrimmed(s) ==
  LET t == tab[s]
      m == Head(net[s])
  IN
  /\ Take(s, "data")
  /\ off' = [off EXCEPT ![t] = m.base + (m.hi - m.lo)]
  /\ screen' = [screen EXCEPT ![t] = @ \o Bytes(m.lo, m.hi)]
  /\ net' = [net EXCEPT ![s] = Tail(@)]
  /\ UNCHANGED <<sessionVars, hostVars, reader, watcher, connVars, chan,
                 tab, open, exited>>

\* handleBin: trim by label what the tab has, write the rest, and advance
\* past the whole frame; a frame that is old altogether changes nothing.
OnData(s) ==
  LET t == tab[s]
      m == Head(net[s])
      skip == IF m.base < off[t] THEN off[t] - m.base ELSE 0
  IN
  /\ Take(s, "data")
  /\ IF skip > 0 /\ skip >= m.hi - m.lo
       THEN UNCHANGED <<off, screen>>
       ELSE /\ off' = [off EXCEPT ![t] = m.base + (m.hi - m.lo)]
            /\ screen' = [screen EXCEPT ![t] = @ \o Bytes(m.lo + skip, m.hi)]
  /\ net' = [net EXCEPT ![s] = Tail(@)]
  /\ UNCHANGED <<sessionVars, hostVars, reader, watcher, connVars, chan,
                 tab, open, exited>>

\* The socket ends: after an exit the tab asks for a fresh session, after
\* anything else it may come back to this one.
OnClose(s) ==
  /\ \E k \in {"exit", "4000", "1006"} : Take(s, k)
  /\ exited' = [exited EXCEPT ![tab[s]] = @ \/ Head(net[s]).kind = "exit"]
  /\ open' = [open EXCEPT ![s] = FALSE]
  /\ net' = [net EXCEPT ![s] = <<>>]
  /\ UNCHANGED <<sessionVars, hostVars, reader, watcher, connVars, chan,
                 tab, off, screen>>

Browse(s) == OnReady(s) \/ OnData(s) \/ OnClose(s)

----------------------------------------------------------------------------

Init ==
  /\ inMap = TRUE /\ childAlive = TRUE /\ killer = "idle"
  /\ ring = [lo |-> 0, hi |-> 0] /\ ringBase = 0 /\ offset = 0
  /\ dead = FALSE /\ epoch = 0 /\ sub = None
  /\ reader = NoChunk("read")
  /\ watcher = "poll"
  /\ pc = [s \in Conns |-> "idle"]
  /\ my = [s \in Conns |-> 0]
  /\ snap = [s \in Conns |-> NoSnap]
  /\ chan = [s \in Conns |-> <<>>]
  /\ sent = [s \in Conns |-> 0]
  /\ late = [s \in Conns |-> 0]
  /\ net = [s \in Conns |-> <<>>]
  /\ tab = [s \in Conns |-> None]
  /\ open = [s \in Conns |-> FALSE]
  /\ off = [t \in Tabs |-> 0]
  /\ screen = [t \in Tabs |-> <<>>]
  /\ exited = [t \in Tabs |-> FALSE]

Host == ShellExits \/ KillRemove \/ KillNotify \/ ReaperRemove \/ Reap

Next ==
  \/ Reader \/ Watcher \/ Host
  \/ \E s \in Conns : Serve(s) \/ RecvEnds(s) \/ SendFails(s)
                      \/ Drop(s) \/ Browse(s)
  \/ \E t \in Tabs, s \in Conns : Connect(t, s)

Spec == Init /\ [][Next]_vars

\* The threads and tasks of the host keep running, and the browser handles
\* what it receives; nobody has to type, exit, kill, connect or drop, and
\* the PTY need not produce.
Fairness ==
  /\ WF_vars(ReaderPush \/ ReaderTake \/ ReaderSend \/ ReaderEnd \/ ReaderEof)
  /\ WF_vars(Watcher)
  /\ WF_vars(KillNotify \/ Reap)
  /\ \A s \in Conns : WF_vars(Serve(s)) /\ WF_vars(Browse(s))
  /\ \A s \in Conns : WF_vars((~open[s] /\ RecvEnds(s)) \/ SendFails(s))

FairSpec == Spec /\ Fairness
----------------------------------------------------------------------------
(* Properties *)

Pcs == {"idle", "got", "bumped", "subbed", "ringed", "based", "check",
        "loop", "recv", "release", "take", "done"}

Message ==
  [kind : {"data", "eof", "takeover"}, base : Nat, n : Nat]

DataFrame ==
  {f \in [kind : {"data"}, base : Nat, lo : Nat, hi : Nat] : f.lo <= f.hi}
Wire ==
  DataFrame \cup [kind : {"ready"}, seq : Nat, behind : BOOLEAN]
            \cup [kind : {"exit", "4000", "1006"}]

\* What a socket has read of the ring is a run of bytes.
Snap ==
  {p \in [lo : Nat, hi : Nat, base : Nat, from : Nat] : p.lo <= p.hi}

HostTypeOK ==
  /\ inMap \in BOOLEAN /\ childAlive \in BOOLEAN
  /\ killer \in {"idle", "notify", "reap", "done"}
  /\ watcher \in {"poll", "notify", "done"}

SessionTypeOK ==
  /\ ring \in [lo : Nat, hi : Nat] /\ ringBase \in Nat /\ offset \in Nat
  /\ dead \in BOOLEAN /\ epoch \in Nat /\ sub \in Conns \cup {None}
  /\ reader \in [pc : {"read", "push", "take", "send", "eof", "done"},
                 base : Nat, n : Nat, tx : Conns \cup {None}]

ConnTypeOK ==
  /\ pc \in [Conns -> Pcs]
  /\ my \in [Conns -> Nat]
  /\ snap \in [Conns -> Snap]
  /\ sent \in [Conns -> Nat] /\ late \in [Conns -> Nat]

QueueTypeOK ==
  /\ chan \in [Conns -> Seq(Message)]
  /\ net \in [Conns -> Seq(Wire)]

TabTypeOK ==
  /\ tab \in [Conns -> Tabs \cup {None}] /\ open \in [Conns -> BOOLEAN]
  /\ off \in [Tabs -> Nat]
  /\ screen \in [Tabs -> Seq(Nat \cup {Missed})]
  /\ exited \in [Tabs -> BOOLEAN]

\* Every variable keeps its type; in particular no frame and no snapshot of
\* the ring runs backwards.
TypeOK ==
  /\ HostTypeOK /\ SessionTypeOK /\ ConnTypeOK /\ QueueTypeOK /\ TabTypeOK

\* The accounting that every label rests on (shell.rs 235-239), with the
\* bytes the reader has claimed and not yet stored taken into account:
\* ring_base counts exactly the evicted bytes, the ring ends where the
\* claimed bytes begin, and it never exceeds RING_CAP.
OffsetAccount ==
  /\ ringBase = ring.lo
  /\ ring.lo <= ring.hi /\ ring.hi - ring.lo <= RingCap
  /\ offset = ring.hi + (IF reader.pc = "push" THEN reader.n ELSE 0)

IsData(m) == m.kind = "data"
End(m) == m.base + m.n
Snapped(s) == pc[s] \in {"ringed", "based", "check", "loop", "recv"}

\* No byte falls between the replay and the live stream, or between two
\* live frames: a chunk queued for a socket starts where an earlier queued
\* chunk ends, or within what the socket has replayed or sent already.
NoHole ==
  \A s \in Conns : Snapped(s) =>
    \A j \in DOMAIN chan[s] : IsData(chan[s][j]) =>
      \/ chan[s][j].base <= sent[s]
      \/ \E i \in 1..(j - 1) :
           IsData(chan[s][i]) /\ End(chan[s][i]) = chan[s][j].base

\* A socket that has been superseded forwards at most the one frame it was
\* about to take when the newer socket arrived (the epoch check at the top
\* of the send loop), however much is queued for it.
OneLateFrame == \A s \in Conns : late[s] <= 1

\* Close code 4000 says that another socket holds the shell now (shell.rs
\* 15 and 67, Terminal.tsx 1511-1513): only a socket with a successor may
\* be sent it.  The code does not keep this (README, 3.2).
SupersededHasSuccessor ==
  \A s \in Conns : \A i \in DOMAIN net[s] :
    net[s][i] = Superseded => \E r \in Conns : my[r] > my[s]

\* A tab shows every byte once and in order, and every hole is announced
\* (shell.rs 22-27, Terminal.tsx 1319-1320).  The code does not keep this
\* (README, 3.2).
NoDuplicationOrSilentLoss ==
  \A t \in Tabs : \A j \in DOMAIN screen[t] : screen[t][j] # Missed =>
    /\ \A i \in 1..(j - 1) : screen[t][i] < screen[t][j]
    /\ j = 1 => screen[t][j] = 0
    /\ j > 1 /\ screen[t][j - 1] # Missed
         => screen[t][j] = screen[t][j - 1] + 1

\* The tabs see the stream TerminalStream promises.
Stream == INSTANCE TerminalStream WITH produced <- offset
StreamRefined == Stream!StreamSpec

\* Nobody lingers: a socket that lost a takeover goes away (shell.rs
\* 1051-1056), and once the shell is over every attached socket is told and
\* closed (shell.rs 675 and 700: "Attached sockets get EOF/exit").
Attached(s) == pc[s] \in {"loop", "recv"}
NobodyLingers ==
  \A s \in Conns :
    (Attached(s) /\ (dead \/ my[s] # epoch)) ~> ~Attached(s)

\* A tab that keeps its socket ends up showing all the output there is.
Following(t) ==
  \E s \in Conns : tab[s] = t /\ open[s]
TabCatchesUp ==
  \A t \in Tabs : <>[]Following(t) => <>[](Len(screen[t]) = offset)
=============================================================================
