------------------------- MODULE ShellSession_proofs -------------------------
(***************************************************************************)
(* Proofs about ShellSession, for any sockets, tabs and capacities: its    *)
(* types and accounting first, then the queues between the reader and the  *)
(* sockets, then the wires to the tabs and the abstract stream.            *)
(***************************************************************************)
EXTENDS ShellSession, TLAPS, SequenceTheorems

\* try_send leaves the channels well typed.
LEMMA TrySendType ==
  ASSUME QueueTypeOK, NEW s \in Conns \cup {None}, NEW m \in Message
  PROVE  TrySend(chan, s, m) \in [Conns -> Seq(Message)]
BY DEF TrySend, QueueTypeOK

\* Putting well-typed frames on a wire leaves the wires well typed.
LEMMA SendType ==
  ASSUME QueueTypeOK, NEW s \in Conns, NEW fs \in Seq(Wire), Send(s, fs)
  PROVE  net' \in [Conns -> Seq(Wire)]
BY DEF Send, QueueTypeOK

LEMMA InitOK == Init => TypeOK /\ OffsetAccount
<1> SUFFICES ASSUME Init PROVE TypeOK /\ OffsetAccount
  OBVIOUS
<1>1. HostTypeOK /\ SessionTypeOK
  BY DEF Init, HostTypeOK, SessionTypeOK, NoChunk
<1>2. ConnTypeOK
  BY DEF Init, ConnTypeOK, NoSnap, Snap, Pcs
<1>3. QueueTypeOK
  BY DEF Init, QueueTypeOK
<1>4. TabTypeOK
  BY DEF Init, TabTypeOK
<1>5. OffsetAccount
  BY CapAssumption DEF Init, OffsetAccount, NoChunk
<1> QED
  BY <1>1, <1>2, <1>3, <1>4, <1>5 DEF TypeOK

LEMMA ReaderClaimOK ==
  ASSUME TypeOK, OffsetAccount, ReaderClaim
  PROVE  TypeOK' /\ OffsetAccount'
<1>1. HostTypeOK' /\ ConnTypeOK' /\ QueueTypeOK' /\ TabTypeOK'
  BY DEF ReaderClaim, TypeOK, HostTypeOK, ConnTypeOK, QueueTypeOK,
     TabTypeOK, sessionVars, hostVars, connVars, tabVars
<1>2. SessionTypeOK'
  BY BoundAssumption DEF ReaderClaim, TypeOK, SessionTypeOK
<1>3. OffsetAccount'
  BY BoundAssumption DEF ReaderClaim, TypeOK, SessionTypeOK, OffsetAccount
<1> QED
  BY <1>1, <1>2, <1>3 DEF TypeOK

LEMMA ReaderPushOK ==
  ASSUME TypeOK, OffsetAccount, ReaderPush
  PROVE  TypeOK' /\ OffsetAccount'
<1>1. HostTypeOK' /\ ConnTypeOK' /\ QueueTypeOK' /\ TabTypeOK'
  BY DEF ReaderPush, TypeOK, HostTypeOK, ConnTypeOK, QueueTypeOK, TabTypeOK,
     sessionVars, hostVars, connVars, tabVars
<1>2. SessionTypeOK'
  BY CapAssumption DEF ReaderPush, TypeOK, SessionTypeOK, PushRing,
     Overflow, OffsetAccount
<1>3. OffsetAccount'
  BY CapAssumption DEF ReaderPush, TypeOK, SessionTypeOK, OffsetAccount,
     PushRing, Overflow
<1> QED
  BY <1>1, <1>2, <1>3 DEF TypeOK

LEMMA ReaderTakeOK ==
  ASSUME TypeOK, OffsetAccount, ReaderTake
  PROVE  TypeOK' /\ OffsetAccount'
<1>1. HostTypeOK' /\ ConnTypeOK' /\ QueueTypeOK' /\ TabTypeOK'
  BY DEF ReaderTake, TypeOK, HostTypeOK, ConnTypeOK, QueueTypeOK, TabTypeOK,
     sessionVars, hostVars, connVars, tabVars
<1>2. SessionTypeOK'
  BY DEF ReaderTake, TypeOK, SessionTypeOK, NoChunk, sessionVars
<1>3. OffsetAccount'
  BY DEF ReaderTake, TypeOK, SessionTypeOK, OffsetAccount, NoChunk,
     sessionVars
<1> QED
  BY <1>1, <1>2, <1>3 DEF TypeOK

LEMMA ReaderSendOK ==
  ASSUME TypeOK, OffsetAccount, ReaderSend
  PROVE  TypeOK' /\ OffsetAccount'
<1>1. HostTypeOK' /\ ConnTypeOK' /\ TabTypeOK'
  BY DEF ReaderSend, TypeOK, HostTypeOK, ConnTypeOK, TabTypeOK, sessionVars,
     hostVars, connVars, tabVars
<1>2. SessionTypeOK'
  BY DEF ReaderSend, TypeOK, SessionTypeOK, NoChunk, sessionVars
<1>3. QueueTypeOK'
  BY TrySendType DEF ReaderSend, TypeOK, QueueTypeOK, SessionTypeOK, Data,
     Message
<1>4. OffsetAccount'
  BY DEF ReaderSend, TypeOK, SessionTypeOK, OffsetAccount, NoChunk,
     sessionVars
<1> QED
  BY <1>1, <1>2, <1>3, <1>4 DEF TypeOK

LEMMA ReaderEndOK ==
  ASSUME TypeOK, OffsetAccount, ReaderEnd
  PROVE  TypeOK' /\ OffsetAccount'
<1>1. HostTypeOK' /\ ConnTypeOK' /\ QueueTypeOK' /\ TabTypeOK'
  BY DEF ReaderEnd, TypeOK, HostTypeOK, ConnTypeOK, QueueTypeOK, TabTypeOK,
     sessionVars, hostVars, connVars, tabVars
<1>2. SessionTypeOK'
  BY DEF ReaderEnd, TypeOK, SessionTypeOK
<1>3. OffsetAccount'
  BY DEF ReaderEnd, TypeOK, SessionTypeOK, OffsetAccount
<1> QED
  BY <1>1, <1>2, <1>3 DEF TypeOK

LEMMA ReaderEofOK ==
  ASSUME TypeOK, OffsetAccount, ReaderEof
  PROVE  TypeOK' /\ OffsetAccount'
<1>1. HostTypeOK' /\ ConnTypeOK' /\ TabTypeOK'
  BY DEF ReaderEof, TypeOK, HostTypeOK, ConnTypeOK, TabTypeOK, sessionVars,
     hostVars, connVars, tabVars
<1>2. SessionTypeOK'
  BY DEF ReaderEof, TypeOK, SessionTypeOK, sessionVars
<1>3. QueueTypeOK'
  BY TrySendType DEF ReaderEof, TypeOK, QueueTypeOK, SessionTypeOK, Eof,
     Message
<1>4. OffsetAccount'
  BY DEF ReaderEof, TypeOK, SessionTypeOK, OffsetAccount, sessionVars
<1> QED
  BY <1>1, <1>2, <1>3, <1>4 DEF TypeOK

LEMMA WatcherSeeOK ==
  ASSUME TypeOK, OffsetAccount, WatcherSee
  PROVE  TypeOK' /\ OffsetAccount'
<1>1. ConnTypeOK' /\ QueueTypeOK' /\ TabTypeOK'
  BY DEF WatcherSee, TypeOK, ConnTypeOK, QueueTypeOK, TabTypeOK,
     sessionVars, hostVars, connVars, tabVars
<1>2. HostTypeOK'
  BY DEF WatcherSee, TypeOK, HostTypeOK, hostVars
<1>3. SessionTypeOK'
  BY DEF WatcherSee, TypeOK, SessionTypeOK
<1>4. OffsetAccount'
  BY DEF WatcherSee, TypeOK, SessionTypeOK, OffsetAccount
<1> QED
  BY <1>1, <1>2, <1>3, <1>4 DEF TypeOK

LEMMA WatcherEofOK ==
  ASSUME TypeOK, OffsetAccount, WatcherEof
  PROVE  TypeOK' /\ OffsetAccount'
<1>1. SessionTypeOK' /\ ConnTypeOK' /\ TabTypeOK'
  BY DEF WatcherEof, TypeOK, SessionTypeOK, ConnTypeOK, TabTypeOK,
     sessionVars, hostVars, connVars, tabVars
<1>2. HostTypeOK'
  BY DEF WatcherEof, TypeOK, HostTypeOK, hostVars
<1>3. QueueTypeOK'
  BY TrySendType DEF WatcherEof, TypeOK, QueueTypeOK, SessionTypeOK, Eof,
     Message
<1>4. OffsetAccount'
  BY DEF WatcherEof, TypeOK, SessionTypeOK, OffsetAccount, sessionVars
<1> QED
  BY <1>1, <1>2, <1>3, <1>4 DEF TypeOK

LEMMA ShellExitsOK ==
  ASSUME TypeOK, OffsetAccount, ShellExits
  PROVE  TypeOK' /\ OffsetAccount'
<1>1. SessionTypeOK' /\ ConnTypeOK' /\ QueueTypeOK' /\ TabTypeOK'
  BY DEF ShellExits, TypeOK, SessionTypeOK, ConnTypeOK, QueueTypeOK,
     TabTypeOK, sessionVars, hostVars, connVars, tabVars
<1>2. HostTypeOK'
  BY DEF ShellExits, TypeOK, HostTypeOK
<1>3. OffsetAccount'
  BY DEF ShellExits, TypeOK, SessionTypeOK, OffsetAccount, sessionVars
<1> QED
  BY <1>1, <1>2, <1>3 DEF TypeOK

LEMMA KillRemoveOK ==
  ASSUME TypeOK, OffsetAccount, KillRemove
  PROVE  TypeOK' /\ OffsetAccount'
<1>1. SessionTypeOK' /\ ConnTypeOK' /\ QueueTypeOK' /\ TabTypeOK'
  BY DEF KillRemove, TypeOK, SessionTypeOK, ConnTypeOK, QueueTypeOK,
     TabTypeOK, sessionVars, hostVars, connVars, tabVars
<1>2. HostTypeOK'
  BY DEF KillRemove, TypeOK, HostTypeOK
<1>3. OffsetAccount'
  BY DEF KillRemove, TypeOK, SessionTypeOK, OffsetAccount, sessionVars
<1> QED
  BY <1>1, <1>2, <1>3 DEF TypeOK

LEMMA KillNotifyOK ==
  ASSUME TypeOK, OffsetAccount, KillNotify
  PROVE  TypeOK' /\ OffsetAccount'
<1>1. SessionTypeOK' /\ ConnTypeOK' /\ TabTypeOK'
  BY DEF KillNotify, TypeOK, SessionTypeOK, ConnTypeOK, TabTypeOK,
     sessionVars, hostVars, connVars, tabVars
<1>2. HostTypeOK'
  BY DEF KillNotify, TypeOK, HostTypeOK
<1>3. QueueTypeOK'
  BY TrySendType DEF KillNotify, TypeOK, QueueTypeOK, SessionTypeOK, Eof,
     Message
<1>4. OffsetAccount'
  BY DEF KillNotify, TypeOK, SessionTypeOK, OffsetAccount, sessionVars
<1> QED
  BY <1>1, <1>2, <1>3, <1>4 DEF TypeOK

LEMMA ReaperRemoveOK ==
  ASSUME TypeOK, OffsetAccount, ReaperRemove
  PROVE  TypeOK' /\ OffsetAccount'
<1>1. SessionTypeOK' /\ ConnTypeOK' /\ QueueTypeOK' /\ TabTypeOK'
  BY DEF ReaperRemove, TypeOK, SessionTypeOK, ConnTypeOK, QueueTypeOK,
     TabTypeOK, sessionVars, hostVars, connVars, tabVars
<1>2. HostTypeOK'
  BY DEF ReaperRemove, TypeOK, HostTypeOK
<1>3. OffsetAccount'
  BY DEF ReaperRemove, TypeOK, SessionTypeOK, OffsetAccount, sessionVars
<1> QED
  BY <1>1, <1>2, <1>3 DEF TypeOK

LEMMA ReapOK ==
  ASSUME TypeOK, OffsetAccount, Reap
  PROVE  TypeOK' /\ OffsetAccount'
<1>1. SessionTypeOK' /\ ConnTypeOK' /\ QueueTypeOK' /\ TabTypeOK'
  BY DEF Reap, TypeOK, SessionTypeOK, ConnTypeOK, QueueTypeOK, TabTypeOK,
     sessionVars, hostVars, connVars, tabVars
<1>2. HostTypeOK'
  BY DEF Reap, TypeOK, HostTypeOK
<1>3. OffsetAccount'
  BY DEF Reap, TypeOK, SessionTypeOK, OffsetAccount, sessionVars
<1> QED
  BY <1>1, <1>2, <1>3 DEF TypeOK

LEMMA BumpOK ==
  ASSUME TypeOK, OffsetAccount, NEW s \in Conns, Bump(s)
  PROVE  TypeOK' /\ OffsetAccount'
<1>1. HostTypeOK' /\ QueueTypeOK' /\ TabTypeOK'
  BY DEF Bump, TypeOK, HostTypeOK, QueueTypeOK, TabTypeOK, sessionVars,
     hostVars, connVars, tabVars
<1>2. SessionTypeOK'
  BY DEF Bump, TypeOK, SessionTypeOK
<1>3. ConnTypeOK'
  BY DEF Bump, TypeOK, ConnTypeOK, SessionTypeOK, At, Pcs
<1>4. OffsetAccount'
  BY DEF Bump, TypeOK, SessionTypeOK, OffsetAccount
<1> QED
  BY <1>1, <1>2, <1>3, <1>4 DEF TypeOK

LEMMA ReplaceSubOK ==
  ASSUME TypeOK, OffsetAccount, NEW s \in Conns, ReplaceSub(s)
  PROVE  TypeOK' /\ OffsetAccount'
<1>1. HostTypeOK' /\ TabTypeOK'
  BY DEF ReplaceSub, TypeOK, HostTypeOK, TabTypeOK, sessionVars, hostVars,
     connVars, tabVars
<1>2. SessionTypeOK'
  BY DEF ReplaceSub, TypeOK, SessionTypeOK
<1>3. ConnTypeOK'
  BY DEF ReplaceSub, TypeOK, ConnTypeOK, At, Pcs
<1>4. QueueTypeOK'
  BY TrySendType DEF ReplaceSub, TypeOK, QueueTypeOK, SessionTypeOK,
     Takeover, Message
<1>5. OffsetAccount'
  BY DEF ReplaceSub, TypeOK, SessionTypeOK, OffsetAccount
<1> QED
  BY <1>1, <1>2, <1>3, <1>4, <1>5 DEF TypeOK

LEMMA SnapRingOK ==
  ASSUME TypeOK, OffsetAccount, NEW s \in Conns, SnapRing(s)
  PROVE  TypeOK' /\ OffsetAccount'
<1>1. HostTypeOK' /\ SessionTypeOK' /\ QueueTypeOK' /\ TabTypeOK'
  <2>1. HostTypeOK' /\ SessionTypeOK'
    BY DEF SnapRing, TypeOK, HostTypeOK, SessionTypeOK, sessionVars, hostVars
  <2>2. QueueTypeOK' /\ TabTypeOK'
    BY DEF SnapRing, TypeOK, QueueTypeOK, TabTypeOK, tabVars
  <2> QED
    BY <2>1, <2>2
<1>2. ConnTypeOK'
  <2>1. [snap[s] EXCEPT !.lo = ring.lo, !.hi = ring.hi] \in Snap
    BY DEF TypeOK, ConnTypeOK, SessionTypeOK, OffsetAccount, Snap
  <2>2. snap' \in [Conns -> Snap]
    BY <2>1 DEF SnapRing, TypeOK, ConnTypeOK
  <2>3. pc' \in [Conns -> Pcs] /\ sent' \in [Conns -> Nat]
    BY DEF SnapRing, TypeOK, ConnTypeOK, SessionTypeOK, At, Pcs
  <2> QED
    BY <2>2, <2>3 DEF SnapRing, TypeOK, ConnTypeOK
<1>3. OffsetAccount'
  BY DEF SnapRing, TypeOK, SessionTypeOK, OffsetAccount, sessionVars
<1> QED
  BY <1>1, <1>2, <1>3 DEF TypeOK

LEMMA SnapBaseOK ==
  ASSUME TypeOK, OffsetAccount, NEW s \in Conns, SnapBase(s)
  PROVE  TypeOK' /\ OffsetAccount'
<1>1. HostTypeOK' /\ SessionTypeOK' /\ QueueTypeOK' /\ TabTypeOK'
  <2>1. HostTypeOK' /\ SessionTypeOK'
    BY DEF SnapBase, TypeOK, HostTypeOK, SessionTypeOK, sessionVars, hostVars
  <2>2. QueueTypeOK' /\ TabTypeOK'
    BY DEF SnapBase, TypeOK, QueueTypeOK, TabTypeOK, tabVars
  <2> QED
    BY <2>1, <2>2
<1>2. ConnTypeOK'
  BY DEF SnapBase, TypeOK, ConnTypeOK, SessionTypeOK, Snap, At, Pcs
<1>3. OffsetAccount'
  BY DEF SnapBase, TypeOK, SessionTypeOK, OffsetAccount, sessionVars
<1> QED
  BY <1>1, <1>2, <1>3 DEF TypeOK

\* The frames that end a socket are well typed.
LEMMA EndFrames ==
  /\ <<Exit>> \in Seq(Wire)
  /\ <<Superseded>> \in Seq(Wire)
  /\ <<Abrupt>> \in Seq(Wire)
BY DEF Exit, Superseded, Abrupt, Wire

\* A step of s that only moves its program counter keeps the types.
LEMMA AtType ==
  ASSUME ConnTypeOK, NEW s \in Conns, NEW from, NEW to \in Pcs, At(s, from, to)
  PROVE  pc' \in [Conns -> Pcs]
BY DEF At, ConnTypeOK

\* What is left of a returning socket is well typed.
LEMMA ReturnType ==
  ASSUME ConnTypeOK, QueueTypeOK, NEW s \in Conns, Return(s)
  PROVE  /\ snap' \in [Conns -> Snap] /\ chan' \in [Conns -> Seq(Message)]
         /\ sent' \in [Conns -> Nat] /\ late' \in [Conns -> Nat]
BY DEF ConnTypeOK, QueueTypeOK, Return, NoSnap, Snap

LEMMA PcsMembers ==
  /\ "release" \in Pcs /\ "loop" \in Pcs /\ "recv" \in Pcs
  /\ "done" \in Pcs /\ "take" \in Pcs /\ "check" \in Pcs
BY DEF Pcs

LEMMA CheckDeadOK ==
  ASSUME TypeOK, OffsetAccount, NEW s \in Conns, CheckDead(s)
  PROVE  TypeOK' /\ OffsetAccount'
<1>1. HostTypeOK' /\ SessionTypeOK' /\ TabTypeOK' /\ OffsetAccount'
  BY DEF CheckDead, TypeOK, HostTypeOK, SessionTypeOK, TabTypeOK,
     OffsetAccount, sessionVars, hostVars, tabVars
<1>2. CASE dead
  <2>1. ConnTypeOK'
    BY <1>2, AtType, PcsMembers DEF CheckDead, TypeOK, ConnTypeOK
  <2>2. QueueTypeOK'
    BY <1>2, SendType, EndFrames DEF CheckDead, TypeOK, QueueTypeOK
  <2> QED
    BY <1>1, <2>1, <2>2 DEF TypeOK
<1>3. CASE ~(dead)
  <2>1. ConnTypeOK'
    BY <1>3, AtType, PcsMembers DEF CheckDead, TypeOK, ConnTypeOK
  <2>2. QueueTypeOK'
    BY <1>3 DEF CheckDead, TypeOK, QueueTypeOK
  <2> QED
    BY <1>1, <2>1, <2>2 DEF TypeOK
<1> QED
  BY <1>2, <1>3

LEMMA LoopOK ==
  ASSUME TypeOK, OffsetAccount, NEW s \in Conns, Loop(s)
  PROVE  TypeOK' /\ OffsetAccount'
<1>1. HostTypeOK' /\ SessionTypeOK' /\ TabTypeOK' /\ OffsetAccount'
  BY DEF Loop, TypeOK, HostTypeOK, SessionTypeOK, TabTypeOK,
     OffsetAccount, sessionVars, hostVars, tabVars
<1>2. CASE epoch # my[s]
  <2>1. ConnTypeOK'
    BY <1>2, AtType, PcsMembers DEF Loop, TypeOK, ConnTypeOK
  <2>2. QueueTypeOK'
    BY <1>2, SendType, EndFrames DEF Loop, TypeOK, QueueTypeOK
  <2> QED
    BY <1>1, <2>1, <2>2 DEF TypeOK
<1>3. CASE ~(epoch # my[s])
  <2>1. ConnTypeOK'
    BY <1>3, AtType, PcsMembers DEF Loop, TypeOK, ConnTypeOK
  <2>2. QueueTypeOK'
    BY <1>3 DEF Loop, TypeOK, QueueTypeOK
  <2> QED
    BY <1>1, <2>1, <2>2 DEF TypeOK
<1> QED
  BY <1>2, <1>3

LEMMA ReleaseCheckOK ==
  ASSUME TypeOK, OffsetAccount, NEW s \in Conns, ReleaseCheck(s)
  PROVE  TypeOK' /\ OffsetAccount'
<1>1. HostTypeOK' /\ SessionTypeOK' /\ TabTypeOK' /\ OffsetAccount'
  BY DEF ReleaseCheck, TypeOK, HostTypeOK, SessionTypeOK, TabTypeOK,
     OffsetAccount, sessionVars, hostVars, tabVars
<1>2. CASE epoch = my[s]
  <2>1. ConnTypeOK'
    BY <1>2, AtType, PcsMembers DEF ReleaseCheck, TypeOK, ConnTypeOK
  <2>2. QueueTypeOK'
    BY <1>2 DEF ReleaseCheck, TypeOK, QueueTypeOK
  <2> QED
    BY <1>1, <2>1, <2>2 DEF TypeOK
<1>3. CASE ~(epoch = my[s])
  <2>1. ConnTypeOK'
    BY <1>3, AtType, PcsMembers, ReturnType DEF ReleaseCheck, TypeOK, ConnTypeOK
  <2>2. QueueTypeOK'
    BY <1>3, ReturnType DEF ReleaseCheck, TypeOK, QueueTypeOK
  <2> QED
    BY <1>1, <2>1, <2>2 DEF TypeOK
<1> QED
  BY <1>2, <1>3

LEMMA ForwardOK ==
  ASSUME TypeOK, OffsetAccount, NEW s \in Conns, Forward(s)
  PROVE  TypeOK' /\ OffsetAccount'
<1> DEFINE m == Head(chan[s])
           f == Frame(m.base, m.base, m.base + m.n)
<1>1. HostTypeOK' /\ SessionTypeOK' /\ TabTypeOK' /\ OffsetAccount'
  BY DEF Forward, TypeOK, HostTypeOK, SessionTypeOK, TabTypeOK,
     OffsetAccount, sessionVars, hostVars, tabVars
<1>2. m \in Message /\ Tail(chan[s]) \in Seq(Message)
  BY HeadTailProperties DEF Forward, TypeOK, QueueTypeOK
<1>3. m.base \in Nat /\ m.base + m.n \in Nat
  BY <1>2 DEF Message
<1>4. ConnTypeOK'
  <2>1. pc' \in [Conns -> Pcs]
    BY AtType, PcsMembers DEF Forward, TypeOK, ConnTypeOK
  <2>2. sent' \in [Conns -> Nat]
    BY <1>3 DEF Forward, TypeOK, ConnTypeOK
  <2>3. late' \in [Conns -> Nat]
    BY DEF Forward, TypeOK, ConnTypeOK
  <2> QED
    BY <2>1, <2>2, <2>3 DEF Forward, TypeOK, ConnTypeOK
<1>5. QueueTypeOK'
  <2>1. f \in DataFrame
    BY <1>2, <1>3 DEF Frame, DataFrame, Message
  <2>2. <<f>> \in Seq(Wire)
    BY <2>1 DEF Wire
  <2>3. net' \in [Conns -> Seq(Wire)]
    BY <2>2, SendType DEF Forward, TypeOK
  <2>4. chan' \in [Conns -> Seq(Message)]
    BY <1>2 DEF Forward, TypeOK, QueueTypeOK
  <2> QED
    BY <2>3, <2>4 DEF QueueTypeOK
<1> QED
  BY <1>1, <1>4, <1>5 DEF TypeOK

LEMMA ForwardEofOK ==
  ASSUME TypeOK, OffsetAccount, NEW s \in Conns, ForwardEof(s)
  PROVE  TypeOK' /\ OffsetAccount'
<1>1. HostTypeOK' /\ SessionTypeOK' /\ TabTypeOK'
  BY DEF ForwardEof, TypeOK, HostTypeOK, SessionTypeOK, TabTypeOK,
     sessionVars, hostVars, connVars, tabVars
<1>2. ConnTypeOK'
  BY DEF ForwardEof, TypeOK, ConnTypeOK, At, Pcs
<1>3. QueueTypeOK'
  BY SendType, EndFrames, HeadTailProperties DEF ForwardEof, TypeOK,
     QueueTypeOK
<1>4. OffsetAccount'
  BY DEF ForwardEof, TypeOK, SessionTypeOK, OffsetAccount, sessionVars
<1> QED
  BY <1>1, <1>2, <1>3, <1>4 DEF TypeOK

LEMMA ForwardTakeoverOK ==
  ASSUME TypeOK, OffsetAccount, NEW s \in Conns, ForwardTakeover(s)
  PROVE  TypeOK' /\ OffsetAccount'
<1>1. HostTypeOK' /\ SessionTypeOK' /\ TabTypeOK'
  BY DEF ForwardTakeover, TypeOK, HostTypeOK, SessionTypeOK, TabTypeOK,
     sessionVars, hostVars, connVars, tabVars
<1>2. ConnTypeOK'
  BY DEF ForwardTakeover, TypeOK, ConnTypeOK, At, Pcs
<1>3. QueueTypeOK'
  <2>1. net' \in [Conns -> Seq(Wire)]
    BY SendType, EndFrames DEF ForwardTakeover, TypeOK
  <2>2. chan' = [chan EXCEPT ![s] = <<>>]
    BY DEF ForwardTakeover
  <2>3. chan' \in [Conns -> Seq(Message)]
    BY <2>2 DEF TypeOK, QueueTypeOK
  <2> QED
    BY <2>1, <2>3 DEF QueueTypeOK
<1>4. OffsetAccount'
  BY DEF ForwardTakeover, TypeOK, SessionTypeOK, OffsetAccount, sessionVars
<1> QED
  BY <1>1, <1>2, <1>3, <1>4 DEF TypeOK

LEMMA RecvEndsOK ==
  ASSUME TypeOK, OffsetAccount, NEW s \in Conns, RecvEnds(s)
  PROVE  TypeOK' /\ OffsetAccount'
<1>1. HostTypeOK' /\ SessionTypeOK' /\ TabTypeOK'
  BY DEF RecvEnds, TypeOK, HostTypeOK, SessionTypeOK, TabTypeOK,
     sessionVars, hostVars, connVars, tabVars
<1>2. ConnTypeOK'
  BY AtType, PcsMembers DEF RecvEnds, TypeOK, ConnTypeOK
<1>3. QueueTypeOK'
  BY SendType, EndFrames DEF RecvEnds, TypeOK, QueueTypeOK
<1>4. OffsetAccount'
  BY DEF RecvEnds, TypeOK, SessionTypeOK, OffsetAccount, sessionVars
<1> QED
  BY <1>1, <1>2, <1>3, <1>4 DEF TypeOK

LEMMA ReleaseTakeOK ==
  ASSUME TypeOK, OffsetAccount, NEW s \in Conns, ReleaseTake(s)
  PROVE  TypeOK' /\ OffsetAccount'
<1>1. HostTypeOK' /\ TabTypeOK'
  BY DEF ReleaseTake, TypeOK, HostTypeOK, TabTypeOK, sessionVars, hostVars,
     connVars, tabVars
<1>2. SessionTypeOK'
  BY DEF ReleaseTake, TypeOK, SessionTypeOK
<1>3. ConnTypeOK'
  BY DEF ReleaseTake, TypeOK, ConnTypeOK, Return, NoSnap, Snap, At, Pcs
<1>4. QueueTypeOK'
  BY DEF ReleaseTake, TypeOK, QueueTypeOK, Return
<1>5. OffsetAccount'
  BY DEF ReleaseTake, TypeOK, SessionTypeOK, OffsetAccount
<1> QED
  BY <1>1, <1>2, <1>3, <1>4, <1>5 DEF TypeOK

LEMMA SendFailsOK ==
  ASSUME TypeOK, OffsetAccount, NEW s \in Conns, SendFails(s)
  PROVE  TypeOK' /\ OffsetAccount'
<1>1. HostTypeOK' /\ SessionTypeOK' /\ QueueTypeOK' /\ TabTypeOK'
  BY DEF SendFails, TypeOK, HostTypeOK, SessionTypeOK, QueueTypeOK,
     TabTypeOK, sessionVars, hostVars, connVars, tabVars
<1>2. ConnTypeOK'
  BY DEF SendFails, TypeOK, ConnTypeOK, At, Pcs
<1>3. OffsetAccount'
  BY DEF SendFails, TypeOK, SessionTypeOK, OffsetAccount, sessionVars
<1> QED
  BY <1>1, <1>2, <1>3 DEF TypeOK

LEMMA DropOK ==
  ASSUME TypeOK, OffsetAccount, NEW s \in Conns, Drop(s)
  PROVE  TypeOK' /\ OffsetAccount'
<1>1. HostTypeOK' /\ SessionTypeOK' /\ ConnTypeOK'
  BY DEF Drop, TypeOK, HostTypeOK, SessionTypeOK, ConnTypeOK, sessionVars,
     hostVars, connVars, tabVars
<1>2. QueueTypeOK'
  BY DEF Drop, TypeOK, QueueTypeOK
<1>3. TabTypeOK'
  BY DEF Drop, TypeOK, TabTypeOK, tabVars
<1>4. OffsetAccount'
  BY DEF Drop, TypeOK, SessionTypeOK, OffsetAccount, sessionVars
<1> QED
  BY <1>1, <1>2, <1>3, <1>4 DEF TypeOK

LEMMA ConnectOK ==
  ASSUME TypeOK, OffsetAccount, NEW t \in Tabs, NEW s \in Conns, Connect(t, s)
  PROVE  TypeOK' /\ OffsetAccount'
<1>1. HostTypeOK' /\ SessionTypeOK' /\ QueueTypeOK'
  BY DEF Connect, TypeOK, HostTypeOK, SessionTypeOK, QueueTypeOK,
     sessionVars, hostVars, connVars, tabVars
<1>2. ConnTypeOK'
  BY DEF Connect, TypeOK, ConnTypeOK, TabTypeOK, Snap, At, Pcs
<1>3. TabTypeOK'
  BY DEF Connect, TypeOK, TabTypeOK, tabVars
<1>4. OffsetAccount'
  BY DEF Connect, TypeOK, SessionTypeOK, OffsetAccount, sessionVars
<1> QED
  BY <1>1, <1>2, <1>3, <1>4 DEF TypeOK

\* The replayed frame carries bytes of the snapshot and never runs backwards.
LEMMA ReplayFrameType ==
  ASSUME NEW lo \in Nat, NEW hi \in Nat, NEW base \in Nat, NEW from \in Nat,
         lo <= hi
  PROVE  ReplayFrame(lo, hi, base, from) \in DataFrame
BY DEF ReplayFrame, Frame, DataFrame

\* A run of bytes is a sequence of bytes.
LEMMA BytesType ==
  ASSUME NEW lo \in Nat, NEW hi \in Nat
  PROVE  Bytes(lo, hi) \in Seq(Nat \cup {Missed})
<1>1. CASE lo <= hi
  BY <1>1 DEF Bytes
<1>2. CASE lo > hi
  <2>1. 1..(hi - lo) = 1..0
    BY <1>2
  <2> QED
    BY <2>1 DEF Bytes
<1> QED
  BY <1>1, <1>2

LEMMA SendReadyOK ==
  ASSUME TypeOK, OffsetAccount, NEW s \in Conns, SendReady(s)
  PROVE  TypeOK' /\ OffsetAccount'
<1> DEFINE from == IF snap[s].from > offset THEN offset ELSE snap[s].from
           f == ReplayFrame(snap[s].lo, snap[s].hi, snap[s].base, from)
           ready == Ready(offset, from < snap[s].base)
           fs == IF f.lo < f.hi THEN <<ready, f>> ELSE <<ready>>
<1>1. HostTypeOK' /\ SessionTypeOK' /\ TabTypeOK' /\ OffsetAccount'
  BY DEF SendReady, TypeOK, HostTypeOK, SessionTypeOK, TabTypeOK,
     OffsetAccount, sessionVars, hostVars, tabVars
<1>2. ConnTypeOK'
  BY AtType, PcsMembers DEF SendReady, TypeOK, ConnTypeOK
<1>3. f \in Wire
  BY ReplayFrameType DEF TypeOK, ConnTypeOK, SessionTypeOK, Snap, Wire
<1>4. ready \in Wire
  BY DEF Ready, Wire, TypeOK, SessionTypeOK
<1>5. fs \in Seq(Wire)
  BY <1>3, <1>4
<1>6. QueueTypeOK'
  BY <1>5, SendType DEF SendReady, TypeOK, QueueTypeOK
<1> QED
  BY <1>1, <1>2, <1>6 DEF TypeOK

\* What the browser takes from a wire is a frame, and the rest are frames.
LEMMA TakeType ==
  ASSUME QueueTypeOK, NEW s \in Conns, NEW k, Take(s, k)
  PROVE  /\ Head(net[s]) \in Wire
         /\ [net EXCEPT ![s] = Tail(@)] \in [Conns -> Seq(Wire)]
BY HeadTailProperties DEF Take, QueueTypeOK

LEMMA OnReadyOK ==
  ASSUME TypeOK, OffsetAccount, NEW s \in Conns, OnReady(s)
  PROVE  TypeOK' /\ OffsetAccount'
<1> DEFINE t == tab[s]
           m == Head(net[s])
<1>1. HostTypeOK' /\ SessionTypeOK' /\ ConnTypeOK' /\ OffsetAccount'
  <2>1. HostTypeOK' /\ SessionTypeOK'
    BY DEF OnReady, TypeOK, HostTypeOK, SessionTypeOK, sessionVars, hostVars
  <2>2. ConnTypeOK'
    BY DEF OnReady, TypeOK, ConnTypeOK, connVars
  <2>3. OffsetAccount'
    BY DEF OnReady, OffsetAccount, sessionVars
  <2> QED
    BY <2>1, <2>2, <2>3
<1>2. QueueTypeOK'
  BY TakeType DEF OnReady, TypeOK, QueueTypeOK
<1>3. m.seq \in Nat
  <2>1. m \in Wire /\ m.kind = "ready"
    BY TakeType DEF OnReady, TypeOK, Take
  <2> QED
    BY <2>1 DEF Wire, DataFrame
<1>4. off' \in [Tabs -> Nat]
  BY <1>3 DEF OnReady, TypeOK, TabTypeOK
<1>5. screen' \in [Tabs -> Seq(Nat \cup {Missed})]
  <2>1. \A q \in Seq(Nat \cup {Missed}) :
          Append(q, Missed) \in Seq(Nat \cup {Missed})
    OBVIOUS
  <2> QED
    BY <2>1 DEF OnReady, TypeOK, TabTypeOK
<1>6. TabTypeOK'
  BY <1>4, <1>5 DEF OnReady, TypeOK, TabTypeOK
<1> QED
  BY <1>1, <1>2, <1>6 DEF TypeOK

LEMMA OnDataOK ==
  ASSUME TypeOK, OffsetAccount, NEW s \in Conns, OnData(s)
  PROVE  TypeOK' /\ OffsetAccount'
<1> DEFINE t == tab[s]
           m == Head(net[s])
           skip == IF m.base < off[t] THEN off[t] - m.base ELSE 0
<1>1. HostTypeOK' /\ SessionTypeOK' /\ ConnTypeOK' /\ OffsetAccount'
  <2>1. HostTypeOK' /\ SessionTypeOK'
    BY DEF OnData, TypeOK, HostTypeOK, SessionTypeOK, sessionVars, hostVars
  <2>2. ConnTypeOK'
    BY DEF OnData, TypeOK, ConnTypeOK, connVars
  <2>3. OffsetAccount'
    BY DEF OnData, OffsetAccount, sessionVars
  <2> QED
    BY <2>1, <2>2, <2>3
<1>2. QueueTypeOK'
  BY TakeType DEF OnData, TypeOK, QueueTypeOK
<1>3. m \in DataFrame
  <2>1. m \in Wire /\ m.kind = "data"
    BY TakeType DEF OnData, TypeOK, Take
  <2> QED
    BY <2>1 DEF Wire, DataFrame
<1>4. tab' = tab /\ open' = open /\ exited' = exited
  BY DEF OnData
<1>5. CASE skip > 0 /\ skip >= m.hi - m.lo
  BY <1>1, <1>2, <1>4, <1>5 DEF OnData, TypeOK, TabTypeOK
<1>6. CASE ~(skip > 0 /\ skip >= m.hi - m.lo)
  <2>1. off' = [off EXCEPT ![t] = m.base + (m.hi - m.lo)]
    BY <1>6 DEF OnData
  <2>2. off' \in [Tabs -> Nat]
    <3>1. m.base + (m.hi - m.lo) \in Nat
      BY <1>3 DEF DataFrame
    <3> QED
      BY <2>1, <3>1 DEF TypeOK, TabTypeOK
  <2>3. screen' = [screen EXCEPT ![t] = @ \o Bytes(m.lo + skip, m.hi)]
    BY <1>6 DEF OnData
  <2>4. screen' \in [Tabs -> Seq(Nat \cup {Missed})]
    <3>1. CASE t \in Tabs
      <4>1. m.lo + skip \in Nat /\ m.hi \in Nat
        BY <3>1, <1>3 DEF DataFrame, TypeOK, TabTypeOK
      <4>2. Bytes(m.lo + skip, m.hi) \in Seq(Nat \cup {Missed})
        BY <4>1, BytesType
      <4>3. screen[t] \o Bytes(m.lo + skip, m.hi) \in Seq(Nat \cup {Missed})
        BY <3>1, <4>2, ConcatProperties DEF TypeOK, TabTypeOK
      <4> HIDE DEF skip
      <4> QED
        BY <2>3, <4>3 DEF TypeOK, TabTypeOK
    <3>2. CASE t \notin Tabs
      BY <2>3, <3>2 DEF TypeOK, TabTypeOK
    <3> QED
      BY <3>1, <3>2
  <2>5. TabTypeOK'
    BY <1>4, <2>2, <2>4 DEF TypeOK, TabTypeOK
  <2> QED
    BY <1>1, <1>2, <2>5 DEF TypeOK
<1> QED
  BY <1>5, <1>6

LEMMA OnCloseOK ==
  ASSUME TypeOK, OffsetAccount, NEW s \in Conns, OnClose(s)
  PROVE  TypeOK' /\ OffsetAccount'
<1>1. HostTypeOK' /\ SessionTypeOK' /\ ConnTypeOK'
  BY DEF OnClose, TypeOK, HostTypeOK, SessionTypeOK, ConnTypeOK,
     sessionVars, hostVars, connVars, tabVars
<1>2. QueueTypeOK'
  BY DEF OnClose, TypeOK, QueueTypeOK
<1>3. TabTypeOK'
  BY DEF OnClose, TypeOK, TabTypeOK
<1>4. OffsetAccount'
  BY DEF OnClose, TypeOK, SessionTypeOK, OffsetAccount, sessionVars
<1> QED
  BY <1>1, <1>2, <1>3, <1>4 DEF TypeOK

----------------------------------------------------------------------------
(* The theorems *)

LEMMA StutterOK ==
  ASSUME TypeOK, OffsetAccount, UNCHANGED vars
  PROVE  TypeOK' /\ OffsetAccount'
<1>1. HostTypeOK' /\ SessionTypeOK' /\ OffsetAccount'
  BY DEF TypeOK, OffsetAccount, HostTypeOK, SessionTypeOK, vars,
     sessionVars, hostVars
<1>2. ConnTypeOK'
  BY DEF TypeOK, ConnTypeOK, vars, connVars
<1>3. QueueTypeOK' /\ TabTypeOK'
  BY DEF TypeOK, QueueTypeOK, TabTypeOK, vars, tabVars
<1> QED
  BY <1>1, <1>2, <1>3 DEF TypeOK

\* Every step of the host and of the browser preserves the invariant.
LEMMA NextOK ==
  ASSUME TypeOK, OffsetAccount, [Next]_vars
  PROVE  TypeOK' /\ OffsetAccount'
<1>1. CASE UNCHANGED vars
  BY <1>1, StutterOK
<1>2. CASE Reader
  BY <1>2, ReaderClaimOK, ReaderPushOK, ReaderTakeOK, ReaderSendOK,
     ReaderEndOK, ReaderEofOK DEF Reader
<1>3. CASE Watcher
  BY <1>3, WatcherSeeOK, WatcherEofOK DEF Watcher
<1>4. CASE Host
  BY <1>4, ShellExitsOK, KillRemoveOK, KillNotifyOK, ReaperRemoveOK, ReapOK
     DEF Host
<1>5. ASSUME NEW s \in Conns, Serve(s)
      PROVE  TypeOK' /\ OffsetAccount'
  BY <1>5, BumpOK, ReplaceSubOK, SnapRingOK, SnapBaseOK, SendReadyOK,
     CheckDeadOK, LoopOK, ForwardOK, ForwardEofOK, ForwardTakeoverOK,
     ReleaseCheckOK, ReleaseTakeOK DEF Serve
<1>6. ASSUME NEW s \in Conns, RecvEnds(s) \/ SendFails(s) \/ Drop(s)
      PROVE  TypeOK' /\ OffsetAccount'
  BY <1>6, RecvEndsOK, SendFailsOK, DropOK
<1>7. ASSUME NEW s \in Conns, Browse(s)
      PROVE  TypeOK' /\ OffsetAccount'
  BY <1>7, OnReadyOK, OnDataOK, OnCloseOK DEF Browse
<1>8. ASSUME NEW t \in Tabs, NEW s \in Conns, Connect(t, s)
      PROVE  TypeOK' /\ OffsetAccount'
  BY <1>8, ConnectOK
<1> QED
  BY <1>1, <1>2, <1>3, <1>4, <1>5, <1>6, <1>7, <1>8 DEF Next

\* Every variable keeps its type in every behaviour: no offset, label or
\* snapshot of the ring ever goes negative or runs backwards, whatever the
\* sockets, the capacities and the ways the shell ends.
THEOREM TypeCorrect == Spec => []TypeOK
<1>1. TypeOK /\ OffsetAccount /\ [Next]_vars => TypeOK' /\ OffsetAccount'
  BY NextOK
<1> QED
  BY InitOK, <1>1, PTL DEF Spec

\* The accounting of ring, ring_base and offset holds in every behaviour:
\* the three fields are written by different critical sections, and between
\* the reader's claim and its push they differ by exactly the claimed chunk.
THEOREM OffsetAccounting == Spec => []OffsetAccount
<1>1. TypeOK /\ OffsetAccount /\ [Next]_vars => TypeOK' /\ OffsetAccount'
  BY NextOK
<1> QED
  BY InitOK, <1>1, PTL DEF Spec

----------------------------------------------------------------------------
(* Queues: lateness, and chunks that are consecutive *)

\* A socket that has sent a frame since it was superseded stands before the
\* epoch check of the send loop, or has left it.
Late(s) ==
  /\ my[s] <= epoch
  /\ late[s] # 0 =>
       late[s] = 1 /\ my[s] < epoch /\ pc[s] \in {"loop", "release"}

NoData(q) == \A j \in DOMAIN q : ~IsData(q[j])

\* The chunks of a queue are consecutive: each starts where the one before
\* it ends.
Joined(q) ==
  \A j \in DOMAIN q : IsData(q[j]) =>
    \/ \A i \in 1..(j - 1) : ~IsData(q[i])
    \/ \E i \in 1..(j - 1) : /\ IsData(q[i]) /\ End(q[i]) = q[j].base
                             /\ \A k \in (i + 1)..(j - 1) : ~IsData(q[k])

\* The first chunk of a queue starts at b or before.
Begins(q, b) ==
  \A j \in DOMAIN q : IsData(q[j]) =>
    q[j].base <= b \/ \E i \in 1..(j - 1) : IsData(q[i])

\* The last chunk of a queue ends at b.
Reaches(q, b) ==
  \/ NoData(q)
  \/ \E j \in DOMAIN q : /\ IsData(q[j]) /\ End(q[j]) = b
                         /\ \A k \in (j + 1)..Len(q) : ~IsData(q[k])

\* What is queued has been stored in the ring.
Stored(q) == \A j \in DOMAIN q : IsData(q[j]) => End(q[j]) <= ring.hi

\* The chunk the reader has in hand is the next one of the ring, or the last.
InHand ==
  /\ reader.pc = "push" => reader.base = ring.hi
  /\ reader.pc \in {"take", "send"} => reader.base + reader.n = ring.hi
  /\ reader.pc # "send" => reader.tx = None

\* The chunk s will be sent next starts here.
NextFor(s) ==
  IF reader.pc \in {"push", "take"} \/ reader.tx = s THEN reader.base
  ELSE offset
Awaits(s) == sub = s \/ reader.tx = s

Fresh(s) == chan[s] = <<>> /\ ~Awaits(s)
Queued(s) == Joined(chan[s]) /\ Stored(chan[s])
Coming(s) ==
  /\ Reaches(chan[s], NextFor(s))
  /\ Snapped(s) /\ NoData(chan[s]) => NextFor(s) <= sent[s]

\* The queue of a socket, from its subscription to its release.
Line(s) ==
  /\ pc[s] \in {"idle", "got", "bumped"} => Fresh(s)
  /\ Receiving(s) => Queued(s)
  /\ Snapped(s) => Begins(chan[s], sent[s])
  /\ Receiving(s) /\ Awaits(s) => Coming(s)

Lines == InHand /\ \A s \in Conns : Late(s) /\ Line(s)

\* A notice in a queue leaves its chunks as they are.
LEMMA NoticeQueued ==
  ASSUME NEW q \in Seq(Message), NEW m \in Message, ~IsData(m), NEW b, NEW e
  PROVE  /\ Joined(q) => Joined(Append(q, m))
         /\ Stored(q) => Stored(Append(q, m))
         /\ Begins(q, b) => Begins(Append(q, m), b)
         /\ Reaches(q, e) => Reaches(Append(q, m), e)
         /\ NoData(Append(q, m)) => NoData(q)
<1> DEFINE p == Append(q, m)
<1>1. /\ Len(p) = Len(q) + 1 /\ Len(q) \in Nat
      /\ DOMAIN p = 1..(Len(q) + 1) /\ DOMAIN q = 1..Len(q)
      /\ \A i \in 1..Len(q) : p[i] = q[i]
      /\ p[Len(q) + 1] = m
  BY AppendProperties
<1> HIDE DEF p
<1>2. \A j \in DOMAIN p : IsData(p[j]) => j \in DOMAIN q /\ p[j] = q[j]
  BY <1>1
<1>3. Joined(q) => Joined(p)
  <2> SUFFICES ASSUME Joined(q), NEW j \in DOMAIN p, IsData(p[j])
               PROVE \/ \A i \in 1..(j - 1) : ~IsData(p[i])
                     \/ \E i \in 1..(j - 1) :
                          /\ IsData(p[i]) /\ End(p[i]) = p[j].base
                          /\ \A k \in (i + 1)..(j - 1) : ~IsData(p[k])
    BY DEF Joined
  <2>1. j \in DOMAIN q /\ \A i \in 1..j : p[i] = q[i]
    BY <1>1, <1>2
  <2>2. \/ \A i \in 1..(j - 1) : ~IsData(q[i])
        \/ \E i \in 1..(j - 1) :
             /\ IsData(q[i]) /\ End(q[i]) = q[j].base
             /\ \A k \in (i + 1)..(j - 1) : ~IsData(q[k])
    BY <2>1 DEF Joined
  <2> QED
    BY <1>1, <2>1, <2>2
<1>4. Stored(q) => Stored(p)
  BY <1>1, <1>2 DEF Stored
<1>5. Begins(q, b) => Begins(p, b)
  BY <1>1, <1>2 DEF Begins
<1>6. NoData(p) <=> NoData(q)
  BY <1>1, <1>2 DEF NoData
<1>7. Reaches(q, e) => Reaches(p, e)
  <2> SUFFICES ASSUME ~NoData(q), Reaches(q, e) PROVE Reaches(p, e)
    BY <1>6 DEF Reaches
  <2>1. PICK j \in DOMAIN q : /\ IsData(q[j]) /\ End(q[j]) = e
                              /\ \A k \in (j + 1)..Len(q) : ~IsData(q[k])
    BY DEF Reaches
  <2>2. j \in DOMAIN p /\ p[j] = q[j]
    BY <1>1
  <2>3. \A k \in (j + 1)..Len(p) : ~IsData(p[k])
    BY <1>1, <1>2, <2>1
  <2> QED
    BY <2>1, <2>2, <2>3 DEF Reaches
<1> QED
  BY <1>3, <1>4, <1>5, <1>6, <1>7 DEF p

\* A queue goes on with the chunk that starts where its last one ends.
LEMMA ChunkQueued ==
  ASSUME NEW q \in Seq(Message), NEW m \in Message, IsData(m), NEW b,
         Joined(q), Reaches(q, m.base)
  PROVE  /\ Joined(Append(q, m))
         /\ Begins(q, b) /\ (NoData(q) => m.base <= b) => Begins(Append(q, m), b)
         /\ Stored(q) /\ End(m) <= ring.hi => Stored(Append(q, m))
         /\ Reaches(Append(q, m), End(m))
         /\ ~NoData(Append(q, m))
<1> DEFINE p == Append(q, m)
           n == Len(q) + 1
<1>1. /\ Len(p) = n /\ Len(q) \in Nat
      /\ DOMAIN p = 1..n /\ DOMAIN q = 1..Len(q)
      /\ \A i \in 1..Len(q) : p[i] = q[i]
      /\ p[n] = m
  BY AppendProperties
<1> HIDE DEF p
<1>2. \A j \in DOMAIN p : j = n \/ (j \in DOMAIN q /\ p[j] = q[j])
  BY <1>1
<1>3. \/ NoData(q)
      \/ \E i \in 1..(n - 1) : /\ IsData(p[i]) /\ End(p[i]) = m.base
                               /\ \A k \in (i + 1)..(n - 1) : ~IsData(p[k])
  <2> SUFFICES ASSUME ~NoData(q)
               PROVE \E i \in 1..(n - 1) :
                        /\ IsData(p[i]) /\ End(p[i]) = m.base
                        /\ \A k \in (i + 1)..(n - 1) : ~IsData(p[k])
    OBVIOUS
  <2>1. PICK i \in DOMAIN q : /\ IsData(q[i]) /\ End(q[i]) = m.base
                              /\ \A k \in (i + 1)..Len(q) : ~IsData(q[k])
    BY DEF Reaches
  <2>2. i \in 1..(n - 1) /\ p[i] = q[i]
    BY <1>1
  <2>3. \A k \in (i + 1)..(n - 1) : ~IsData(p[k])
    BY <1>1, <2>1
  <2> QED
    BY <2>1, <2>2, <2>3
<1>4. NoData(q) => \A i \in 1..(n - 1) : ~IsData(p[i])
  BY <1>1 DEF NoData
<1>5. Joined(p)
  <2> SUFFICES ASSUME NEW j \in DOMAIN p, IsData(p[j])
               PROVE \/ \A i \in 1..(j - 1) : ~IsData(p[i])
                     \/ \E i \in 1..(j - 1) :
                          /\ IsData(p[i]) /\ End(p[i]) = p[j].base
                          /\ \A k \in (i + 1)..(j - 1) : ~IsData(p[k])
    BY DEF Joined
  <2>1. CASE j = n
    BY <1>1, <1>3, <1>4, <2>1
  <2>2. CASE j # n
    <3>1. j \in DOMAIN q /\ \A i \in 1..j : p[i] = q[i]
      BY <1>1, <2>2
    <3>2. \/ \A i \in 1..(j - 1) : ~IsData(q[i])
          \/ \E i \in 1..(j - 1) :
               /\ IsData(q[i]) /\ End(q[i]) = q[j].base
               /\ \A k \in (i + 1)..(j - 1) : ~IsData(q[k])
      BY <3>1 DEF Joined
    <3> QED
      BY <1>1, <3>1, <3>2
  <2> QED
    BY <2>1, <2>2
<1>6. Begins(q, b) /\ (NoData(q) => m.base <= b) => Begins(p, b)
  <2> SUFFICES ASSUME Begins(q, b), NoData(q) => m.base <= b,
                      NEW j \in DOMAIN p, IsData(p[j])
               PROVE p[j].base <= b \/ \E i \in 1..(j - 1) : IsData(p[i])
    BY DEF Begins
  <2>1. CASE j = n
    BY <1>1, <1>3, <2>1
  <2>2. CASE j # n
    BY <1>1, <2>2 DEF Begins
  <2> QED
    BY <2>1, <2>2
<1>7. Stored(q) /\ End(m) <= ring.hi => Stored(p)
  BY <1>1, <1>2 DEF Stored
<1>8. Reaches(p, End(m))
  BY <1>1 DEF Reaches
<1>9. ~NoData(p)
  BY <1>1 DEF NoData
<1> QED
  BY <1>5, <1>6, <1>7, <1>8, <1>9 DEF p

\* Without its first chunk a queue begins where that one ended.
LEMMA ChunkTaken ==
  ASSUME NEW q \in Seq(Message), q # <<>>, IsData(Head(q)), Joined(q), NEW e
  PROVE  /\ Joined(Tail(q))
         /\ Begins(Tail(q), End(Head(q)))
         /\ Stored(q) => Stored(Tail(q))
         /\ Reaches(q, e) => Reaches(Tail(q), e)
         /\ Reaches(q, e) /\ NoData(Tail(q)) => End(Head(q)) = e
<1> DEFINE p == Tail(q)
<1>1. /\ Len(q) \in Nat \ {0} /\ Len(p) = Len(q) - 1
      /\ DOMAIN p = 1..Len(p) /\ DOMAIN q = 1..Len(q)
      /\ \A i \in 1..Len(p) : p[i] = q[i + 1]
      /\ Head(q) = q[1]
  BY HeadTailProperties, EmptySeq, LenProperties
<1> HIDE DEF p
<1>2. Joined(p) /\ Begins(p, End(q[1]))
  <2> SUFFICES ASSUME NEW j \in DOMAIN p, IsData(p[j])
               PROVE /\ \/ \A i \in 1..(j - 1) : ~IsData(p[i])
                        \/ \E i \in 1..(j - 1) :
                             /\ IsData(p[i]) /\ End(p[i]) = p[j].base
                             /\ \A k \in (i + 1)..(j - 1) : ~IsData(p[k])
                     /\ \/ p[j].base <= End(q[1])
                        \/ \E i \in 1..(j - 1) : IsData(p[i])
    BY DEF Joined, Begins
  <2>1. j + 1 \in DOMAIN q /\ q[j + 1] = p[j] /\ 1 \in 1..j /\ IsData(q[1])
    BY <1>1
  <2>2. PICK i \in 1..j :
           /\ IsData(q[i]) /\ End(q[i]) = q[j + 1].base
           /\ \A k \in (i + 1)..j : ~IsData(q[k])
    <3>1. (j + 1) - 1 = j
      BY <1>1
    <3> QED
      BY <2>1, <3>1 DEF Joined
  <2>3. CASE i = 1
    <3>1. \A k \in 1..(j - 1) : ~IsData(p[k])
      BY <1>1, <2>2, <2>3
    <3>2. p[j].base <= End(q[1])
      <4>1. p[j] \in Message
        BY <1>1 DEF p
      <4> QED
        BY <2>1, <2>2, <2>3, <4>1 DEF Message
    <3> QED
      BY <3>1, <3>2
  <2>4. CASE i # 1
    <3>1. i - 1 \in 1..(j - 1) /\ p[i - 1] = q[i]
      BY <1>1, <2>4
    <3>2. \A k \in ((i - 1) + 1)..(j - 1) : ~IsData(p[k])
      BY <1>1, <2>2, <2>4
    <3> QED
      BY <2>1, <2>2, <3>1, <3>2
  <2> QED
    BY <2>3, <2>4
<1>3. Stored(q) => Stored(p)
  BY <1>1 DEF Stored
<1>4. Reaches(q, e) => Reaches(p, e) /\ (NoData(p) => End(q[1]) = e)
  <2> SUFFICES ASSUME Reaches(q, e)
               PROVE Reaches(p, e) /\ (NoData(p) => End(q[1]) = e)
    OBVIOUS
  <2>1. ~NoData(q)
    BY <1>1 DEF NoData
  <2>2. PICK j \in DOMAIN q : /\ IsData(q[j]) /\ End(q[j]) = e
                              /\ \A k \in (j + 1)..Len(q) : ~IsData(q[k])
    BY <2>1 DEF Reaches
  <2>3. CASE j = 1
    <3>1. NoData(p)
      BY <1>1, <2>2, <2>3 DEF NoData
    <3> QED
      BY <2>2, <2>3, <3>1 DEF Reaches
  <2>4. CASE j # 1
    <3>1. j - 1 \in DOMAIN p /\ p[j - 1] = q[j]
      BY <1>1, <2>4
    <3>2. \A k \in ((j - 1) + 1)..Len(p) : ~IsData(p[k])
      BY <1>1, <2>2, <2>4
    <3>3. ~NoData(p)
      BY <2>2, <3>1 DEF NoData
    <3> QED
      BY <2>2, <3>1, <3>2, <3>3 DEF Reaches
  <2> QED
    BY <2>3, <2>4
<1> QED
  BY <1>1, <1>2, <1>3, <1>4 DEF p

LEMMA InitLines == Init => Lines
<1> SUFFICES ASSUME Init PROVE Lines
  OBVIOUS
<1>1. InHand
  BY DEF Init, InHand, NoChunk
<1>2. ASSUME NEW s \in Conns PROVE Late(s) /\ Line(s)
  BY <1>2, NoneAssumption DEF Init, Late, Line, Fresh, Awaits, Receiving,
     Snapped, NoChunk
<1> QED
  BY <1>1, <1>2 DEF Lines

\* A socket that has left its loop has nothing to keep.
LEMMA LineLeft ==
  ASSUME NEW s \in Conns, pc'[s] \in {"release", "take", "done"}
  PROVE  Line(s)'
BY DEF Line, Receiving, Snapped

\* A step that touches neither the queue of s nor what it is sent next.
LEMMA LineKept ==
  ASSUME NEW s \in Conns, Line(s),
         ring' = ring, offset' = offset,
         reader'.pc \in {"push", "take"} <=> reader.pc \in {"push", "take"},
         reader'.base = reader.base, reader'.tx = reader.tx,
         chan'[s] = chan[s], sent'[s] = sent[s], sub' = s => sub = s,
         \/ pc'[s] = pc[s]
         \/ pc[s] \in {"idle", "got"} /\ pc'[s] \in {"got", "bumped"}
         \/ Snapped(s) /\ pc'[s] \in {"based", "check", "loop", "recv"}
  PROVE  Line(s)'
<1>1. pc'[s] \in {"idle", "got", "bumped"} => pc[s] \in {"idle", "got", "bumped"}
  BY DEF Snapped
<1>2. Snapped(s)' <=> Snapped(s)
  BY DEF Snapped
<1>3. Receiving(s)' => Receiving(s) \/ Fresh(s)
  BY DEF Receiving, Snapped, Line
<1>4. Awaits(s)' => Awaits(s)
  BY DEF Awaits
<1>5. NextFor(s)' = NextFor(s)
  BY DEF NextFor
<1>6. Fresh(s) => Queued(s)
  BY DEF Fresh, Queued, Joined, Stored
<1>7. Stored(chan[s])' <=> Stored(chan[s])
  BY DEF Stored
<1> QED
  BY <1>1, <1>2, <1>3, <1>4, <1>5, <1>6, <1>7
     DEF Line, Fresh, Queued, Coming

\* A notice to the subscriber leaves every queue in order.
LEMMA LineNoticed ==
  ASSUME TypeOK, NEW s \in Conns, Line(s), NEW m \in Message, ~IsData(m),
         chan' = TrySend(chan, sub, m),
         ring' = ring, offset' = offset,
         reader'.pc \in {"push", "take"} <=> reader.pc \in {"push", "take"},
         reader'.base = reader.base, reader'.tx = reader.tx,
         sent' = sent, sub' = s => sub = s, pc'[s] = pc[s]
  PROVE  Line(s)'
<1>1. CASE chan'[s] = chan[s]
  BY <1>1, LineKept
<1>2. CASE chan'[s] # chan[s]
  <2>1. sub = s /\ Receiving(s) /\ chan'[s] = Append(chan[s], m)
    BY <1>2 DEF TrySend, TypeOK, QueueTypeOK
  <2>2. chan[s] \in Seq(Message)
    BY DEF TypeOK, QueueTypeOK
  <2>3. Awaits(s) /\ ~(pc[s] \in {"idle", "got", "bumped"})
    BY <2>1 DEF Awaits, Line, Fresh
  <2>4. Queued(s) /\ Coming(s) /\ (Snapped(s) => Begins(chan[s], sent[s]))
    BY <2>1, <2>3 DEF Line
  <2>5. NextFor(s)' = NextFor(s)
    BY DEF NextFor
  <2>6. Snapped(s)' <=> Snapped(s)
    BY DEF Snapped
  <2> DEFINE p == Append(chan[s], m)
  <2>7. /\ Joined(p) /\ Stored(p)
        /\ Snapped(s) => Begins(p, sent[s])
        /\ Reaches(p, NextFor(s))
        /\ NoData(p) => NoData(chan[s])
    BY <2>2, <2>4, NoticeQueued DEF Queued, Coming
  <2> HIDE DEF p
  <2>9. chan'[s] = p
    BY <2>1 DEF p
  <2>10. Stored(chan[s])'
    BY <2>7, <2>9 DEF Stored
  <2>11. Queued(s)'
    BY <2>7, <2>9, <2>10 DEF Queued
  <2>12. Coming(s)'
    BY <2>4, <2>5, <2>6, <2>7, <2>9 DEF Coming
  <2> QED
    BY <2>3, <2>4, <2>6, <2>7, <2>9, <2>11, <2>12 DEF Line
<1> QED
  BY <1>1, <1>2

\* Lateness is kept by a step that leaves the counters and does not lead a
\* late socket back into the loop.
LEMMA LateKept ==
  ASSUME NEW s \in Conns, Late(s), TypeOK,
         my'[s] = my[s], late'[s] = late[s],
         epoch' = epoch \/ epoch' = epoch + 1,
         \/ pc'[s] = pc[s]
         \/ pc'[s] = "release"
         \/ pc[s] \notin {"loop", "release"}
         \/ pc[s] = "loop" /\ my[s] = epoch
  PROVE  Late(s)'
<1>1. my[s] \in Nat /\ epoch \in Nat /\ late[s] \in Nat
  BY DEF TypeOK, ConnTypeOK, SessionTypeOK
<1> QED
  BY <1>1 DEF Late

\* What holds before a step of the proofs below.
Before == TypeOK /\ OffsetAccount /\ Lines

LEMMA Reading ==
  ASSUME Before
  PROVE  /\ ring.hi \in Nat /\ offset \in Nat
         /\ reader.base \in Nat /\ reader.n \in Nat
         /\ reader.pc \in {"read", "push", "take", "send", "eof", "done"}
         /\ reader.pc = "push" => /\ reader.base = ring.hi
                                  /\ offset = reader.base + reader.n
         /\ reader.pc # "push" => offset = ring.hi
         /\ reader.pc \in {"take", "send"} => offset = reader.base + reader.n
         /\ reader.pc # "send" => reader.tx = None
         /\ \A s \in Conns : s # None
BY NoneAssumption DEF Before, TypeOK, SessionTypeOK, OffsetAccount, Lines, InHand

LEMMA ReaderClaimLines == ASSUME Before, ReaderClaim PROVE Lines'
<1>1. PICK n \in 1..MaxChunk :
         /\ offset' = offset + n
         /\ reader' = [pc |-> "push", base |-> offset, n |-> n, tx |-> None]
  BY DEF ReaderClaim
<1>2. /\ ring' = ring /\ sub' = sub /\ epoch' = epoch /\ chan' = chan
      /\ pc' = pc /\ my' = my /\ sent' = sent /\ late' = late
      /\ reader.pc = "read"
  BY DEF ReaderClaim, connVars
<1>3. /\ reader'.pc = "push" /\ reader'.base = offset /\ reader'.tx = None
      /\ reader.tx = None /\ offset = ring.hi
  BY <1>1, <1>2, Reading
<1>4. InHand'
  BY <1>2, <1>3 DEF InHand
<1>5. ASSUME NEW s \in Conns PROVE Late(s)' /\ Line(s)'
  <2>1. Late(s) /\ Line(s) /\ s # None
    BY Reading DEF Before, Lines
  <2>2. Late(s)'
    BY <1>2, <2>1, LateKept DEF Before
  <2>3. NextFor(s)' = NextFor(s) /\ (Awaits(s)' <=> Awaits(s))
    BY <1>2, <1>3, <2>1 DEF NextFor, Awaits
  <2>4. Line(s)'
    BY <1>2, <2>1, <2>3 DEF Line, Fresh, Queued, Stored, Coming, Receiving,
       Snapped
  <2> QED
    BY <2>2, <2>4
<1> QED
  BY <1>4, <1>5 DEF Lines

LEMMA ReaderPushLines == ASSUME Before, ReaderPush PROVE Lines'
<1>1. /\ ring'.hi = ring.hi + reader.n
      /\ reader' = [reader EXCEPT !.pc = "take"] /\ reader.pc = "push"
      /\ offset' = offset /\ sub' = sub /\ epoch' = epoch /\ chan' = chan
      /\ pc' = pc /\ my' = my /\ sent' = sent /\ late' = late
  BY DEF ReaderPush, PushRing, connVars
<1>2. /\ reader'.pc = "take" /\ reader'.base = reader.base
      /\ reader'.n = reader.n /\ reader'.tx = reader.tx
      /\ ring.hi <= ring'.hi /\ ring'.hi = reader.base + reader.n
      /\ reader.tx = None /\ ring.hi \in Nat /\ reader.n \in Nat
  BY <1>1, Reading DEF Before, TypeOK, SessionTypeOK
<1>3. InHand'
  BY <1>2 DEF InHand
<1>4. ASSUME NEW s \in Conns PROVE Late(s)' /\ Line(s)'
  <2>1. Late(s) /\ Line(s) /\ s # None
    BY Reading DEF Before, Lines
  <2>2. Late(s)'
    BY <1>1, <2>1, LateKept DEF Before
  <2>3. NextFor(s)' = NextFor(s) /\ (Awaits(s)' <=> Awaits(s))
    BY <1>1, <1>2, <2>1 DEF NextFor, Awaits
  <2>4. Stored(chan[s]) => Stored(chan[s])'
    <3> SUFFICES ASSUME Stored(chan[s]), NEW j \in DOMAIN chan[s],
                        IsData(chan[s][j])
                 PROVE End(chan[s][j]) <= ring'.hi
      BY <1>1 DEF Stored
    <3>1. chan[s][j] \in Message
      BY DEF Before, TypeOK, QueueTypeOK
    <3>2. End(chan[s][j]) \in Nat
      BY <3>1 DEF Message, End
    <3> QED
      BY <1>1, <1>2, <3>2 DEF Stored
  <2>5. Line(s)'
    BY <1>1, <2>1, <2>3, <2>4 DEF Line, Fresh, Queued, Coming, Receiving,
       Snapped
  <2> QED
    BY <2>2, <2>5
<1> QED
  BY <1>3, <1>4 DEF Lines

LEMMA ReaderTakeLines == ASSUME Before, ReaderTake PROVE Lines'
<1>1. /\ ring' = ring /\ offset' = offset /\ sub' = sub /\ epoch' = epoch
      /\ chan' = chan /\ pc' = pc /\ my' = my /\ sent' = sent
      /\ late' = late /\ reader.pc = "take"
  BY DEF ReaderTake, connVars, sessionVars
<1>2. \/ sub = None /\ reader' = NoChunk("read")
      \/ sub # None /\ reader' = [reader EXCEPT !.pc = "send", !.tx = sub]
  BY DEF ReaderTake
<1>3. \/ sub = None /\ reader'.tx = None /\ reader'.pc = "read"
      \/ /\ sub # None /\ reader'.tx = sub /\ reader'.pc = "send"
         /\ reader'.base = reader.base /\ reader'.n = reader.n
  <2>1. CASE sub = None
    BY <1>2, <2>1 DEF NoChunk
  <2>2. CASE sub # None
    <3>1. reader' = [reader EXCEPT !.pc = "send", !.tx = sub]
      BY <1>2, <2>2
    <3> QED
      BY <2>2, <3>1 DEF Before, TypeOK, SessionTypeOK
  <2> QED
    BY <2>1, <2>2
<1>4. InHand'
  BY <1>1, <1>3, Reading DEF InHand
<1>5. ASSUME NEW s \in Conns PROVE Late(s)' /\ Line(s)'
  <2>1. Late(s) /\ Line(s) /\ s # None /\ reader.tx = None
    BY <1>1, Reading DEF Before, Lines
  <2>2. Late(s)'
    BY <1>1, <2>1, LateKept DEF Before
  <2>3. Awaits(s)' <=> Awaits(s)
    BY <1>1, <1>3, <2>1 DEF Awaits
  <2>4. Awaits(s) => NextFor(s)' = NextFor(s)
    BY <1>1, <1>3, <2>1 DEF NextFor, Awaits
  <2>5. Line(s)'
    BY <1>1, <2>1, <2>3, <2>4 DEF Line, Fresh, Queued, Stored, Coming,
       Receiving, Snapped
  <2> QED
    BY <2>2, <2>5
<1> QED
  BY <1>4, <1>5 DEF Lines

LEMMA ReaderSendLines == ASSUME Before, ReaderSend PROVE Lines'
<1> DEFINE m == Data(reader.base, reader.n)
<1>1. /\ ring' = ring /\ offset' = offset /\ sub' = sub /\ epoch' = epoch
      /\ pc' = pc /\ my' = my /\ sent' = sent /\ late' = late
      /\ reader.pc = "send" /\ reader' = NoChunk("read")
      /\ chan' = TrySend(chan, reader.tx, m)
      /\ Receiving(reader.tx) => Len(chan[reader.tx]) < ChanCap
  BY DEF ReaderSend, connVars, sessionVars
<1>2. reader'.pc = "read" /\ reader'.tx = None
  BY <1>1 DEF NoChunk
<1>3. InHand'
  BY <1>2 DEF InHand
<1>4. /\ m \in Message /\ IsData(m) /\ m.base = reader.base
      /\ End(m) = reader.base + reader.n
  BY Reading DEF Data, Message, IsData, End
<1>5. End(m) = offset /\ offset = ring.hi /\ offset \in Nat
  BY <1>1, <1>4, Reading
<1> HIDE DEF m
<1>6. ASSUME NEW s \in Conns PROVE Late(s)' /\ Line(s)'
  <2>1. Late(s) /\ Line(s) /\ s # None
    BY Reading DEF Before, Lines
  <2>2. Late(s)'
    BY <1>1, <2>1, LateKept DEF Before
  <2>3. NextFor(s)' = offset
    BY <1>1, <1>2, <2>1 DEF NextFor
  <2>4. Awaits(s)' => Awaits(s)
    BY <1>1, <1>2, <2>1 DEF Awaits
  <2>5. chan[s] \in Seq(Message)
    BY DEF Before, TypeOK, QueueTypeOK
  <2>6. CASE reader.tx = s /\ Receiving(s)
    <3>1. chan'[s] = Append(chan[s], m)
      BY <1>1, <2>1, <2>6 DEF TrySend, Before, TypeOK, QueueTypeOK
    <3>2. Awaits(s) /\ NextFor(s) = m.base
      BY <1>4, <2>6 DEF Awaits, NextFor
    <3>3. pc[s] \notin {"idle", "got", "bumped"}
      BY <2>1, <3>2 DEF Line, Fresh
    <3>4. Queued(s) /\ Coming(s) /\ (Snapped(s) => Begins(chan[s], sent[s]))
      BY <2>1, <2>6, <3>2 DEF Line
    <3> DEFINE p == Append(chan[s], m)
    <3>5. Joined(p) /\ Stored(p) /\ Reaches(p, offset) /\ ~NoData(p)
      <4>1. End(m) <= ring.hi
        BY <1>5
      <4> QED
        BY <1>4, <1>5, <2>5, <3>2, <3>4, <4>1, ChunkQueued DEF Queued, Coming
    <3>6. Snapped(s) => Begins(p, sent[s])
      BY <1>4, <2>5, <3>2, <3>4, ChunkQueued DEF Queued, Coming
    <3> HIDE DEF p
    <3>7. chan'[s] = p
      BY <3>1 DEF p
    <3>8. Stored(chan[s])'
      BY <1>1, <3>5, <3>7 DEF Stored
    <3>9. Queued(s)' /\ Coming(s)'
      BY <2>3, <3>5, <3>7, <3>8 DEF Queued, Coming
    <3> QED
      BY <1>1, <2>2, <3>3, <3>6, <3>7, <3>9 DEF Line, Snapped
  <2>7. CASE ~(reader.tx = s /\ Receiving(s))
    <3>1. chan'[s] = chan[s]
      BY <1>1, <2>7 DEF TrySend, Before, TypeOK, QueueTypeOK
    <3>2. Receiving(s) /\ Awaits(s)' => NextFor(s) = offset
      BY <1>1, <2>1, <2>4, <2>7 DEF NextFor
    <3>3. Line(s)'
      BY <1>1, <2>1, <2>3, <2>4, <3>1, <3>2 DEF Line, Fresh, Queued, Stored,
         Coming, Receiving, Snapped
    <3> QED
      BY <2>2, <3>3
  <2> QED
    BY <2>6, <2>7
<1> QED
  BY <1>3, <1>6 DEF Lines

\* A notice to whoever is attached, by a thread of the host.
LEMMA NoticeLines ==
  ASSUME Before, chan' = TrySend(chan, sub, Eof),
         ring' = ring, offset' = offset, epoch' = epoch, sub' = sub,
         pc' = pc, my' = my, sent' = sent, late' = late,
         \/ reader' = reader
         \/ reader.pc = "eof" /\ reader' = [reader EXCEPT !.pc = "done"]
  PROVE  Lines'
<1>1. /\ reader'.base = reader.base /\ reader'.tx = reader.tx
      /\ reader'.n = reader.n
      /\ \/ reader'.pc = reader.pc
         \/ reader.pc = "eof" /\ reader'.pc = "done"
  <2>1. CASE reader' = reader
    BY <2>1
  <2>2. CASE reader.pc = "eof" /\ reader' = [reader EXCEPT !.pc = "done"]
    BY <2>2 DEF Before, TypeOK, SessionTypeOK
  <2> QED
    BY <2>1, <2>2
<1>2. InHand'
  BY <1>1, Reading DEF InHand
<1>3. Eof \in Message /\ ~IsData(Eof)
  BY DEF Eof, Message, IsData
<1>4. ASSUME NEW s \in Conns PROVE Late(s)' /\ Line(s)'
  <2>1. Late(s) /\ Line(s)
    BY DEF Before, Lines
  <2>2. Late(s)'
    BY <2>1, LateKept DEF Before
  <2>3. Line(s)'
    BY <1>1, <1>3, <2>1, LineNoticed DEF Before
  <2> QED
    BY <2>2, <2>3
<1> QED
  BY <1>2, <1>4 DEF Lines

\* A step of the host or of the tab that leaves sockets and queues alone.
LEMMA AsideLines ==
  ASSUME Before, ring' = ring, offset' = offset, epoch' = epoch, sub' = sub,
         chan' = chan, pc' = pc, my' = my, sent' = sent, late' = late,
         \/ reader' = reader
         \/ reader.pc = "read" /\ reader' = [reader EXCEPT !.pc = "eof"]
  PROVE  Lines'
<1>1. /\ reader'.base = reader.base /\ reader'.tx = reader.tx
      /\ reader'.n = reader.n
      /\ \/ reader'.pc = reader.pc
         \/ reader.pc = "read" /\ reader'.pc = "eof"
  <2>1. CASE reader' = reader
    BY <2>1
  <2>2. CASE reader.pc = "read" /\ reader' = [reader EXCEPT !.pc = "eof"]
    BY <2>2 DEF Before, TypeOK, SessionTypeOK
  <2> QED
    BY <2>1, <2>2
<1>2. InHand'
  BY <1>1, Reading DEF InHand
<1>3. ASSUME NEW s \in Conns PROVE Late(s)' /\ Line(s)'
  <2>1. Late(s) /\ Line(s)
    BY DEF Before, Lines
  <2>2. Late(s)'
    BY <2>1, LateKept DEF Before
  <2>3. Line(s)'
    BY <1>1, <2>1, LineKept
  <2> QED
    BY <2>2, <2>3
<1> QED
  BY <1>2, <1>3 DEF Lines

\* A step of one socket that leaves the session, the reader and the other
\* sockets alone keeps the invariant if it keeps it for that socket.
LEMMA OneSocket ==
  ASSUME Before, NEW s \in Conns, NEW from, NEW to, At(s, from, to),
         ring' = ring, offset' = offset, reader' = reader,
         epoch' = epoch \/ epoch' = epoch + 1,
         \A r \in Conns \ {s} :
            /\ my'[r] = my[r] /\ late'[r] = late[r] /\ sent'[r] = sent[r]
            /\ chan'[r] = chan[r] /\ (sub' = r => sub = r),
         Late(s)' /\ Line(s)'
  PROVE  Lines'
<1>1. InHand'
  BY DEF Before, Lines, InHand
<1>2. ASSUME NEW r \in Conns \ {s} PROVE Late(r)' /\ Line(r)'
  <2>1. Late(r) /\ Line(r)
    BY DEF Before, Lines
  <2>2. pc'[r] = pc[r]
    BY DEF At, Before, TypeOK, ConnTypeOK
  <2>3. Late(r)'
    BY <2>1, <2>2, LateKept DEF Before
  <2>4. Line(r)'
    BY <2>1, <2>2, LineKept
  <2> QED
    BY <2>3, <2>4
<1> QED
  BY <1>1, <1>2 DEF Lines

\* At moves the program counter of its socket.
LEMMA AtMoves ==
  ASSUME TypeOK, NEW s \in Conns, NEW from, NEW to, At(s, from, to)
  PROVE  pc[s] = from /\ pc'[s] = to
BY DEF At, TypeOK, ConnTypeOK

\* A step of one socket that only moves on.
LEMMA MoveLines ==
  ASSUME Before, NEW s \in Conns, NEW from, NEW to, At(s, from, to),
         ring' = ring, offset' = offset, reader' = reader, epoch' = epoch,
         sub' = sub, chan' = chan, sent' = sent, my' = my, late' = late,
         \/ <<from, to>> = <<"idle", "got">>
         \/ /\ from \in {"ringed", "based", "check", "recv"}
            /\ to \in {"based", "check", "loop"}
         \/ to = "release"
         \/ from = "loop" /\ to = "recv" /\ my[s] = epoch
         \/ from = "release" /\ to = "take" /\ my[s] = epoch
  PROVE  Lines'
<1>1. Late(s) /\ Line(s) /\ pc[s] = from /\ pc'[s] = to
  BY AtMoves DEF Before, Lines
<1>2. Late(s)'
  <2>1. CASE from = "release" /\ to = "take"
    <3>1. late[s] = 0
      BY <1>1, <2>1 DEF Late, Before, TypeOK, ConnTypeOK, SessionTypeOK
    <3> QED
      BY <1>1, <3>1 DEF Late
  <2>2. CASE ~(from = "release" /\ to = "take")
    BY <1>1, <2>2, LateKept DEF Before
  <2> QED
    BY <2>1, <2>2
<1>3. Line(s)'
  <2>1. CASE to \in {"release", "take"}
    BY <1>1, <2>1, LineLeft
  <2>2. CASE to \notin {"release", "take"}
    <3>1. \/ from = "idle" /\ to = "got"
          \/ Snapped(s) /\ to \in {"based", "check", "loop", "recv"}
      BY <1>1, <2>2 DEF Snapped
    <3> QED
      BY <1>1, <3>1, LineKept
  <2> QED
    BY <2>1, <2>2
<1> QED
  BY <1>2, <1>3, OneSocket

LEMMA BumpLines ==
  ASSUME Before, NEW s \in Conns, Bump(s) PROVE Lines'
<1>1. /\ At(s, "got", "bumped") /\ epoch' = epoch + 1
      /\ my' = [my EXCEPT ![s] = epoch + 1]
      /\ ring' = ring /\ offset' = offset /\ reader' = reader /\ sub' = sub
      /\ chan' = chan /\ sent' = sent /\ late' = late
  BY DEF Bump
<1>2. Late(s) /\ Line(s) /\ pc[s] = "got" /\ pc'[s] = "bumped"
  BY <1>1, AtMoves DEF Before, Lines
<1>3. my'[s] = epoch + 1 /\ \A r \in Conns \ {s} : my'[r] = my[r]
  BY <1>1 DEF Before, TypeOK, ConnTypeOK
<1>4. late[s] = 0
  BY <1>2 DEF Late
<1>5. Late(s)'
  BY <1>1, <1>3, <1>4 DEF Late, Before, TypeOK, SessionTypeOK
<1>6. Line(s)'
  BY <1>1, <1>2, LineKept
<1> QED
  BY <1>1, <1>3, <1>5, <1>6, OneSocket

LEMMA ReplaceSubLines ==
  ASSUME Before, NEW s \in Conns, ReplaceSub(s) PROVE Lines'
<1>1. /\ At(s, "bumped", "subbed") /\ sub' = s
      /\ chan' = TrySend(chan, sub, Takeover)
      /\ ring' = ring /\ offset' = offset /\ reader' = reader
      /\ epoch' = epoch /\ sent' = sent /\ late' = late /\ my' = my
  BY DEF ReplaceSub
<1>2. Late(s) /\ Line(s) /\ pc[s] = "bumped" /\ pc'[s] = "subbed"
  BY <1>1, AtMoves DEF Before, Lines
<1>3. chan'[s] = <<>>
  BY <1>1, <1>2 DEF Line, Fresh, Awaits, TrySend, Before, TypeOK, QueueTypeOK
<1>4. Late(s)'
  BY <1>1, <1>2, LateKept DEF Before
<1>5. Line(s)'
  <2>1. Queued(s)'
    BY <1>3 DEF Queued, Joined, Stored
  <2>2. Reaches(chan[s], NextFor(s))'
    BY <1>3 DEF Reaches, NoData
  <2> QED
    BY <1>2, <2>1, <2>2 DEF Line, Coming, Snapped
<1>6. Takeover \in Message /\ ~IsData(Takeover)
  BY DEF Takeover, Message, IsData
<1>7. ASSUME NEW r \in Conns \ {s} PROVE Late(r)' /\ Line(r)'
  <2>1. Late(r) /\ Line(r)
    BY DEF Before, Lines
  <2>2. pc'[r] = pc[r]
    BY <1>1 DEF At, Before, TypeOK, ConnTypeOK
  <2>3. Late(r)'
    BY <1>1, <2>1, <2>2, LateKept DEF Before
  <2>4. Line(r)'
    BY <1>1, <1>6, <2>1, <2>2, LineNoticed DEF Before
  <2> QED
    BY <2>3, <2>4
<1>8. InHand'
  BY <1>1 DEF Before, Lines, InHand
<1> QED
  BY <1>4, <1>5, <1>7, <1>8 DEF Lines

LEMMA SnapRingLines ==
  ASSUME Before, NEW s \in Conns, SnapRing(s) PROVE Lines'
<1>1. /\ At(s, "subbed", "ringed") /\ sent' = [sent EXCEPT ![s] = ring.hi]
      /\ ring' = ring /\ offset' = offset /\ reader' = reader /\ sub' = sub
      /\ epoch' = epoch /\ chan' = chan /\ late' = late /\ my' = my
  BY DEF SnapRing, sessionVars
<1>2. Late(s) /\ Line(s) /\ pc[s] = "subbed" /\ pc'[s] = "ringed"
  BY <1>1, AtMoves DEF Before, Lines
<1>3. sent'[s] = ring.hi /\ \A r \in Conns \ {s} : sent'[r] = sent[r]
  BY <1>1 DEF Before, TypeOK, ConnTypeOK
<1>4. Late(s)'
  BY <1>1, <1>2, LateKept DEF Before
<1>5. Receiving(s) /\ Receiving(s)'
  BY <1>2 DEF Receiving
<1>6. Queued(s) /\ (Awaits(s) => Coming(s))
  BY <1>2, <1>5 DEF Line
<1>7. Begins(chan[s], ring.hi)
  <2> SUFFICES ASSUME NEW j \in DOMAIN chan[s], IsData(chan[s][j])
               PROVE chan[s][j].base <= ring.hi
    BY DEF Begins
  <2>1. chan[s][j] \in Message
    BY DEF Before, TypeOK, QueueTypeOK
  <2>2. End(chan[s][j]) <= ring.hi
    BY <1>6 DEF Queued, Stored
  <2> QED
    BY <2>1, <2>2, Reading DEF Message, End
<1>8. NextFor(s) <= ring.hi
  BY Reading DEF NextFor
<1>9. NextFor(s)' = NextFor(s) /\ (Awaits(s)' <=> Awaits(s))
  BY <1>1 DEF NextFor, Awaits
<1>10. Queued(s)'
  BY <1>1, <1>6 DEF Queued, Stored
<1>11. Awaits(s)' => Coming(s)'
  BY <1>1, <1>3, <1>6, <1>8, <1>9 DEF Coming
<1>12. Line(s)'
  BY <1>1, <1>2, <1>3, <1>7, <1>10, <1>11 DEF Line
<1> QED
  BY <1>1, <1>3, <1>4, <1>12, OneSocket

LEMMA ForwardLines ==
  ASSUME Before, NEW s \in Conns, Forward(s) PROVE Lines'
<1> DEFINE m == Head(chan[s])
<1>1. /\ At(s, "recv", "loop") /\ chan[s] # <<>> /\ IsData(m)
      /\ chan' = [chan EXCEPT ![s] = Tail(@)]
      /\ sent' = [sent EXCEPT ![s] = End(m)]
      /\ late' = [late EXCEPT ![s] = IF my[s] # epoch THEN @ + 1 ELSE @]
      /\ ring' = ring /\ offset' = offset /\ reader' = reader /\ sub' = sub
      /\ epoch' = epoch /\ my' = my
  BY DEF Forward, sessionVars, IsData, End
<1> HIDE DEF m
<1>2. Late(s) /\ Line(s) /\ pc[s] = "recv" /\ pc'[s] = "loop"
  BY <1>1, AtMoves DEF Before, Lines
<1>3. /\ chan'[s] = Tail(chan[s]) /\ sent'[s] = End(m)
      /\ late'[s] = IF my[s] # epoch THEN late[s] + 1 ELSE late[s]
      /\ \A r \in Conns \ {s} : /\ chan'[r] = chan[r] /\ sent'[r] = sent[r]
                                /\ late'[r] = late[r]
  BY <1>1 DEF Before, TypeOK, ConnTypeOK, QueueTypeOK
<1>4. late[s] = 0
  BY <1>2 DEF Late
<1>5. Late(s)'
  <2>1. my[s] \in Nat /\ epoch \in Nat /\ my[s] <= epoch
    BY <1>2 DEF Late, Before, TypeOK, ConnTypeOK, SessionTypeOK
  <2>2. (late'[s] = 1 /\ my[s] # epoch) \/ late'[s] = 0
    BY <1>3, <1>4
  <2> QED
    BY <1>1, <1>2, <2>1, <2>2 DEF Late
<1>6. Queued(s) /\ (Awaits(s) => Coming(s))
  BY <1>2 DEF Line, Receiving
<1>7. chan[s] \in Seq(Message)
  BY DEF Before, TypeOK, QueueTypeOK
<1> DEFINE p == Tail(chan[s])
<1>8. /\ Joined(p) /\ Begins(p, End(m)) /\ Stored(p)
      /\ Awaits(s) => /\ Reaches(p, NextFor(s))
                      /\ NoData(p) => End(m) = NextFor(s)
  BY <1>1, <1>6, <1>7, ChunkTaken DEF Queued, Coming, m
<1> HIDE DEF p
<1>9. chan'[s] = p
  BY <1>3 DEF p
<1>10. NextFor(s)' = NextFor(s) /\ (Awaits(s)' <=> Awaits(s))
  BY <1>1 DEF NextFor, Awaits
<1>11. Stored(chan[s])'
  BY <1>1, <1>8, <1>9 DEF Stored
<1>12. Queued(s)'
  BY <1>8, <1>9, <1>11 DEF Queued
<1>13. NextFor(s) \in Nat
  BY Reading DEF NextFor
<1>14. Awaits(s)' => Coming(s)'
  BY <1>3, <1>8, <1>9, <1>10, <1>13 DEF Coming
<1>15. Line(s)'
  BY <1>2, <1>3, <1>8, <1>9, <1>12, <1>14 DEF Line
<1> QED
  BY <1>1, <1>3, <1>5, <1>15, OneSocket

\* A socket leaves the loop, or its task returns.
LEMMA LeaveLines ==
  ASSUME Before, NEW s \in Conns,
         NEW from, NEW to \in {"release", "done"}, At(s, from, to),
         ring' = ring, offset' = offset, reader' = reader, epoch' = epoch,
         my' = my, \/ sub' = sub
                   \/ sub' = None,
         \/ late'[s] = 0
         \/ late'[s] = late[s] /\ to = "release",
         \A r \in Conns \ {s} : /\ chan'[r] = chan[r] /\ sent'[r] = sent[r]
                                /\ late'[r] = late[r]
  PROVE  Lines'
<1>1. Late(s) /\ Line(s) /\ pc'[s] = to
  BY AtMoves DEF Before, Lines
<1>2. Late(s)'
  BY <1>1 DEF Late
<1>3. Line(s)'
  BY <1>1, LineLeft
<1>4. \A r \in Conns : sub' = r => sub = r
  BY NoneAssumption
<1> QED
  BY <1>2, <1>3, <1>4, OneSocket

LEMMA ServeLines ==
  ASSUME Before, NEW s \in Conns, Serve(s) PROVE Lines'
<1>1. CASE Bump(s)
  BY <1>1, BumpLines
<1>2. CASE ReplaceSub(s)
  BY <1>2, ReplaceSubLines
<1>3. CASE SnapRing(s)
  BY <1>3, SnapRingLines
<1>4. CASE SnapBase(s)
  BY <1>4, MoveLines DEF SnapBase, sessionVars
<1>5. CASE SendReady(s)
  BY <1>5, MoveLines DEF SendReady, sessionVars
<1>6. CASE CheckDead(s)
  BY <1>6, MoveLines DEF CheckDead, sessionVars
<1>7. CASE Loop(s)
  BY <1>7, MoveLines DEF Loop, sessionVars
<1>8. CASE Forward(s)
  BY <1>8, ForwardLines
<1>9. CASE ForwardEof(s)
  <2>1. /\ At(s, "recv", "release") /\ chan' = [chan EXCEPT ![s] = Tail(@)]
        /\ ring' = ring /\ offset' = offset /\ reader' = reader /\ sub' = sub
        /\ epoch' = epoch /\ my' = my /\ late' = late /\ sent' = sent
    BY <1>9 DEF ForwardEof, sessionVars
  <2>2. \A r \in Conns \ {s} : chan'[r] = chan[r]
    BY <2>1 DEF Before, TypeOK, QueueTypeOK
  <2> QED
    BY <2>1, <2>2, LeaveLines
<1>10. CASE ForwardTakeover(s)
  <2>1. /\ At(s, "recv", "release") /\ chan' = [chan EXCEPT ![s] = <<>>]
        /\ ring' = ring /\ offset' = offset /\ reader' = reader /\ sub' = sub
        /\ epoch' = epoch /\ my' = my /\ late' = late /\ sent' = sent
    BY <1>10 DEF ForwardTakeover, sessionVars
  <2>2. \A r \in Conns \ {s} : chan'[r] = chan[r]
    BY <2>1 DEF Before, TypeOK, QueueTypeOK
  <2> QED
    BY <2>1, <2>2, LeaveLines
<1>11. ASSUME Return(s)
       PROVE  /\ late'[s] = 0
              /\ \A r \in Conns \ {s} : /\ chan'[r] = chan[r]
                                        /\ sent'[r] = sent[r]
                                        /\ late'[r] = late[r]
  BY <1>11 DEF Return, Before, TypeOK, ConnTypeOK, QueueTypeOK
<1>12. CASE ReleaseCheck(s)
  <2>1. /\ ring' = ring /\ offset' = offset /\ reader' = reader /\ sub' = sub
        /\ epoch' = epoch /\ my' = my
    BY <1>12 DEF ReleaseCheck, sessionVars
  <2>2. CASE epoch = my[s]
    <3>1. /\ At(s, "release", "take") /\ chan' = chan /\ sent' = sent
          /\ late' = late
      BY <1>12, <2>2 DEF ReleaseCheck
    <3> QED
      BY <2>1, <2>2, <3>1, MoveLines
  <2>3. CASE epoch # my[s]
    <3>1. At(s, "release", "done") /\ Return(s)
      BY <1>12, <2>3 DEF ReleaseCheck
    <3> QED
      BY <1>11, <2>1, <3>1, LeaveLines
  <2> QED
    BY <2>2, <2>3
<1>13. CASE ReleaseTake(s)
  <2>1. /\ ring' = ring /\ offset' = offset /\ reader' = reader /\ sub' = None
        /\ epoch' = epoch /\ my' = my /\ At(s, "take", "done") /\ Return(s)
    BY <1>13 DEF ReleaseTake
  <2> QED
    BY <1>11, <2>1, LeaveLines
<1> QED
  BY <1>1, <1>2, <1>3, <1>4, <1>5, <1>6, <1>7, <1>8, <1>9, <1>10, <1>12,
     <1>13 DEF Serve

LEMMA StepLines == ASSUME Before, [Next]_vars PROVE Lines'
<1>1. CASE UNCHANGED vars
  <2>1. /\ ring' = ring /\ offset' = offset /\ epoch' = epoch /\ sub' = sub
        /\ chan' = chan /\ pc' = pc /\ my' = my /\ sent' = sent
        /\ late' = late /\ reader' = reader
    BY <1>1 DEF vars, sessionVars, connVars
  <2> QED
    BY <2>1, AsideLines
<1>2. CASE Reader
  <2>1. CASE ReaderEnd
    BY <2>1, AsideLines DEF ReaderEnd, connVars
  <2>2. CASE ReaderEof
    BY <2>2, NoticeLines DEF ReaderEof, connVars, sessionVars
  <2> QED
    BY <1>2, <2>1, <2>2, ReaderClaimLines, ReaderPushLines, ReaderTakeLines,
       ReaderSendLines DEF Reader
<1>3. CASE Watcher
  <2>1. CASE WatcherSee
    BY <2>1, AsideLines DEF WatcherSee, connVars
  <2>2. CASE WatcherEof
    BY <2>2, NoticeLines DEF WatcherEof, connVars, sessionVars
  <2> QED
    BY <1>3, <2>1, <2>2 DEF Watcher
<1>4. CASE Host
  <2>1. CASE KillNotify
    BY <2>1, NoticeLines DEF KillNotify, connVars, sessionVars
  <2>2. CASE ShellExits \/ KillRemove \/ ReaperRemove \/ Reap
    BY <2>2, AsideLines DEF ShellExits, KillRemove, ReaperRemove, Reap,
       connVars, sessionVars
  <2> QED
    BY <1>4, <2>1, <2>2 DEF Host
<1>5. ASSUME NEW s \in Conns, Serve(s) PROVE Lines'
  BY <1>5, ServeLines
<1>6. ASSUME NEW s \in Conns, RecvEnds(s) PROVE Lines'
  <2>1. \E from \in {"loop", "recv"} : At(s, from, "release")
    BY <1>6 DEF RecvEnds
  <2>2. /\ ring' = ring /\ offset' = offset /\ epoch' = epoch /\ sub' = sub
        /\ chan' = chan /\ my' = my /\ sent' = sent
        /\ late' = late /\ reader' = reader
    BY <1>6 DEF RecvEnds, sessionVars
  <2> QED
    BY <2>1, <2>2, MoveLines
<1>7. ASSUME NEW s \in Conns, SendFails(s) PROVE Lines'
  BY <1>7, MoveLines DEF SendFails, sessionVars
<1>8. ASSUME NEW s \in Conns, Drop(s) \/ Browse(s) PROVE Lines'
  <2>1. /\ ring' = ring /\ offset' = offset /\ epoch' = epoch /\ sub' = sub
        /\ chan' = chan /\ pc' = pc /\ my' = my /\ sent' = sent
        /\ late' = late /\ reader' = reader
    BY <1>8 DEF Drop, Browse, OnReady, OnData, OnClose, sessionVars, connVars
  <2> QED
    BY <2>1, AsideLines
<1>9. ASSUME NEW t \in Tabs, NEW s \in Conns, Connect(t, s) PROVE Lines'
  BY <1>9, MoveLines DEF Connect, sessionVars
<1> QED
  BY <1>1, <1>2, <1>3, <1>4, <1>5, <1>6, <1>7, <1>8, <1>9 DEF Next

\* Sockets and queues keep their order in every behaviour.
LEMMA LinesAlways == Spec => [](TypeOK /\ OffsetAccount /\ Lines)
<1>1. TypeOK /\ OffsetAccount /\ Lines /\ [Next]_vars
        => TypeOK' /\ OffsetAccount' /\ Lines'
  BY NextOK, StepLines DEF Before
<1> QED
  BY InitOK, InitLines, <1>1, PTL DEF Spec

\* A superseded socket sends at most the one frame it was about to take,
\* whatever the other sockets do and however much is queued for it.
THEOREM SupersededStandsDown == Spec => []OneLateFrame
<1>1. Lines => OneLateFrame
  <2> SUFFICES ASSUME Lines, NEW s \in Conns PROVE late[s] <= 1
    BY DEF OneLateFrame
  <2> QED
    BY DEF Lines, Late
<1> QED
  BY LinesAlways, <1>1, PTL

\* No byte falls between what a socket replays and what it is sent live, or
\* between two live frames, whoever takes the session over meanwhile.
THEOREM NothingFallsBetween == Spec => []NoHole
<1>1. Lines => NoHole
  <2> SUFFICES ASSUME Lines, NEW s \in Conns, Snapped(s),
                      NEW j \in DOMAIN chan[s], IsData(chan[s][j])
               PROVE \/ chan[s][j].base <= sent[s]
                     \/ \E i \in 1..(j - 1) :
                          IsData(chan[s][i]) /\ End(chan[s][i]) = chan[s][j].base
    BY DEF NoHole
  <2>1. Joined(chan[s]) /\ Begins(chan[s], sent[s])
    BY DEF Lines, Line, Receiving, Snapped, Queued
  <2> QED
    BY <2>1 DEF Joined, Begins
<1> QED
  BY LinesAlways, <1>1, PTL

----------------------------------------------------------------------------
(* Wires: what the tabs are sent and show, when nothing is evicted *)

IsFrame(f) == f.kind = "data"

\* A frame says what it carries, and carries what the shell has written.
Honest(f) ==
  /\ IsFrame(f) => f.base = f.lo /\ f.hi <= offset
  /\ f.kind = "ready" => ~f.behind

\* Each frame of a wire starts within what its tab has or an earlier frame
\* brings.
Smooth(q, o) ==
  \A j \in DOMAIN q : IsFrame(q[j]) =>
    q[j].lo <= o \/ \E i \in 1..(j - 1) : IsFrame(q[i]) /\ q[j].lo <= q[i].hi

\* What is on the wire takes a tab that has o bytes to b.
Brings(q, o, b) ==
  b <= o \/ \E i \in DOMAIN q : IsFrame(q[i]) /\ b <= q[i].hi

\* Nothing has been evicted from the ring.
Whole == offset <= MaxBytes /\ ring.lo = 0 /\ ringBase = 0

\* The tab shows the bytes up to its offset.
Shown(t) == screen[t] = Stream!Prefix(off[t]) /\ off[t] <= offset

Replayed(s) ==
  /\ snap[s].lo = 0 /\ snap[s].base = 0
  /\ pc[s] \in {"ringed", "based"} =>
       sent[s] = snap[s].hi /\ snap[s].hi <= offset

\* A socket of the browser, from Connect to its end.
Wired(s) ==
  /\ ~open[s] => net[s] = <<>>
  /\ pc[s] = "idle" => ~open[s]
  /\ open[s] =>
       /\ tab[s] \in Tabs
       /\ \A r \in Conns : open[r] /\ tab[r] = tab[s] => r = s
       /\ pc[s] \in {"got", "bumped", "subbed", "ringed", "based"} =>
            net[s] = <<>> /\ snap[s].from = off[tab[s]]
       /\ \A j \in DOMAIN net[s] :
            /\ Honest(net[s][j])
            /\ net[s][j].kind = "ready" =>
                 j = 1 /\ off[tab[s]] <= net[s][j].seq
       /\ Smooth(net[s], off[tab[s]])
       /\ pc[s] \in {"check", "loop", "recv"} =>
            Brings(net[s], off[tab[s]], sent[s])

Wires ==
  /\ Whole
  /\ \A t \in Tabs : Shown(t)
  /\ \A s \in Conns : Replayed(s) /\ Wired(s)

\* Where the abstract specification applies: a ring that nothing is evicted
\* from.
Roomy == MaxBytes <= RingCap

\* Prefixes grow by runs of bytes.
LEMMA PrefixGrows ==
  ASSUME NEW a \in Nat, NEW b \in Nat, a <= b
  PROVE  Stream!Prefix(a) \o Bytes(a, b) = Stream!Prefix(b)
<1> DEFINE p == Stream!Prefix(a)
           q == Bytes(a, b)
<1>1. p \in Seq(Nat) /\ Len(p) = a /\ \A i \in 1..a : p[i] = i - 1
  BY DEF Stream!Prefix
<1>2. q \in Seq(Nat) /\ Len(q) = b - a /\ \A i \in 1..(b - a) : q[i] = a + i - 1
  BY DEF Bytes
<1>3. Stream!Prefix(b) \in Seq(Nat) /\ Len(Stream!Prefix(b)) = b
      /\ \A i \in 1..b : Stream!Prefix(b)[i] = i - 1
  BY DEF Stream!Prefix
<1> HIDE DEF p, q
<1>4. p \o q \in Seq(Nat) /\ Len(p \o q) = b
      /\ \A i \in 1..b : (p \o q)[i] = IF i <= a THEN p[i] ELSE q[i - a]
  <2>1. p \in Seq(Nat) /\ q \in Seq(Nat) /\ Len(p) = a /\ a + Len(q) = b
    BY <1>1, <1>2
  <2> QED
    BY <2>1, ConcatProperties
<1>5. \A i \in 1..b : (p \o q)[i] = i - 1
  <2> SUFFICES ASSUME NEW i \in 1..b PROVE (p \o q)[i] = i - 1
    OBVIOUS
  <2>1. CASE i <= a
    BY <1>1, <1>4, <2>1
  <2>2. CASE ~(i <= a)
    <3>1. i - a \in 1..(b - a) /\ q[i - a] = a + (i - a) - 1
      BY <1>2, <2>2
    <3> QED
      BY <1>4, <2>2, <3>1
  <2> QED
    BY <2>1, <2>2
<1> QED
  BY <1>3, <1>4, <1>5, SeqEqual DEF p, q

LEMMA PrefixLength ==
  ASSUME NEW a \in Nat PROVE Len(Stream!Prefix(a)) = a
BY DEF Stream!Prefix

\* The first frame of a wire is where its tab is; without it the others are.
LEMMA FrameTaken ==
  ASSUME NEW q \in Seq(Wire), q # <<>>, NEW o \in Nat, NEW p \in Nat, NEW b,
         Smooth(q, o), o <= p, IsFrame(Head(q)) => Head(q).hi <= p, b \in Nat
  PROVE  /\ IsFrame(Head(q)) => Head(q).lo <= o
         /\ Smooth(Tail(q), p)
         /\ Brings(q, o, b) => Brings(Tail(q), p, b)
<1> DEFINE r == Tail(q)
<1>1. /\ Len(q) \in Nat \ {0} /\ Len(r) = Len(q) - 1
      /\ DOMAIN r = 1..Len(r) /\ DOMAIN q = 1..Len(q)
      /\ \A i \in 1..Len(r) : r[i] = q[i + 1]
      /\ Head(q) = q[1]
  BY HeadTailProperties, EmptySeq, LenProperties
<1>2. \A j \in DOMAIN q : IsFrame(q[j]) =>
        q[j].lo \in Nat /\ q[j].hi \in Nat
  <2> SUFFICES ASSUME NEW j \in DOMAIN q, IsFrame(q[j])
               PROVE q[j].lo \in Nat /\ q[j].hi \in Nat
    OBVIOUS
  <2>1. q[j] \in Wire
    OBVIOUS
  <2> QED
    BY <2>1 DEF Wire, DataFrame, IsFrame
<1> HIDE DEF r
<1>3. IsFrame(q[1]) => q[1].lo <= o
  BY <1>1 DEF Smooth
<1>4. Smooth(r, p)
  <2> SUFFICES ASSUME NEW j \in DOMAIN r, IsFrame(r[j])
               PROVE r[j].lo <= p \/ \E i \in 1..(j - 1) :
                                       IsFrame(r[i]) /\ r[j].lo <= r[i].hi
    BY DEF Smooth
  <2>1. j + 1 \in DOMAIN q /\ q[j + 1] = r[j]
    BY <1>1
  <2>2. q[j + 1].lo <= o \/ \E i \in 1..j : IsFrame(q[i]) /\ q[j + 1].lo <= q[i].hi
    <3>1. (j + 1) - 1 = j
      BY <1>1
    <3> QED
      BY <2>1, <3>1 DEF Smooth
  <2>3. CASE q[j + 1].lo <= o
    BY <1>2, <2>1, <2>3
  <2>4. ASSUME NEW i \in 1..j, IsFrame(q[i]), q[j + 1].lo <= q[i].hi
        PROVE r[j].lo <= p \/ \E k \in 1..(j - 1) :
                                IsFrame(r[k]) /\ r[j].lo <= r[k].hi
    <3>1. CASE i = 1
      <4>1. q[1].hi <= p /\ r[j].lo <= q[1].hi
        BY <1>1, <2>1, <2>4, <3>1
      <4>2. q[1].hi \in Nat /\ r[j].lo \in Nat
        BY <1>1, <1>2, <2>1, <2>4, <3>1
      <4> QED
        BY <4>1, <4>2
    <3>2. CASE i # 1
      <4>1. i - 1 \in 1..(j - 1) /\ r[i - 1] = q[i]
        BY <1>1, <3>2
      <4> QED
        BY <2>1, <2>4, <4>1
    <3> QED
      BY <3>1, <3>2
  <2> QED
    BY <2>2, <2>3, <2>4
<1>5. Brings(q, o, b) => Brings(r, p, b)
  <2>1. CASE b <= o
    BY <2>1 DEF Brings
  <2>2. ASSUME NEW i \in DOMAIN q, IsFrame(q[i]), b <= q[i].hi
        PROVE Brings(r, p, b)
    <3>1. CASE i = 1
      BY <1>1, <1>2, <2>2, <3>1 DEF Brings
    <3>2. CASE i # 1
      <4>1. i - 1 \in DOMAIN r /\ r[i - 1] = q[i]
        BY <1>1, <3>2
      <4> QED
        BY <2>2, <4>1 DEF Brings
    <3> QED
      BY <3>1, <3>2
  <2> QED
    BY <2>1, <2>2 DEF Brings
<1> QED
  BY <1>1, <1>3, <1>4, <1>5 DEF r

\* One more frame for a wire: it starts within what the wire brings so far.
LEMMA FramePut ==
  ASSUME NEW q \in Seq(Wire), NEW f \in Wire, NEW o \in Nat, NEW b \in Nat,
         Smooth(q, o), IsFrame(f) => Brings(q, o, b) /\ f.lo <= b
  PROVE  /\ Smooth(q \o <<f>>, o)
         /\ Brings(q, o, b) => Brings(q \o <<f>>, o, b)
         /\ IsFrame(f) => Brings(q \o <<f>>, o, f.hi)
         /\ q \o <<f>> \in Seq(Wire)
         /\ \A j \in DOMAIN (q \o <<f>>) :
              \/ j \in DOMAIN q /\ (q \o <<f>>)[j] = q[j]
              \/ j = Len(q) + 1 /\ (q \o <<f>>)[j] = f
<1> DEFINE r == q \o <<f>>
           n == Len(q) + 1
<1>1. /\ r \in Seq(Wire) /\ Len(q) \in Nat /\ Len(r) = n
      /\ DOMAIN r = 1..n /\ DOMAIN q = 1..Len(q)
      /\ \A i \in 1..Len(q) : r[i] = q[i]
      /\ r[n] = f
  OBVIOUS
<1>2. \A j \in DOMAIN r : IsFrame(r[j]) =>
        r[j].lo \in Nat /\ r[j].hi \in Nat
  <2> SUFFICES ASSUME NEW j \in DOMAIN r, IsFrame(r[j])
               PROVE r[j].lo \in Nat /\ r[j].hi \in Nat
    OBVIOUS
  <2>1. r[j] \in Wire
    BY <1>1
  <2> QED
    BY <2>1 DEF Wire, DataFrame, IsFrame
<1> HIDE DEF r
<1>3. \A j \in DOMAIN r : \/ j \in DOMAIN q /\ r[j] = q[j]
                          \/ j = n /\ r[j] = f
  BY <1>1
<1>4. Smooth(r, o)
  <2> SUFFICES ASSUME NEW j \in DOMAIN r, IsFrame(r[j])
               PROVE r[j].lo <= o \/ \E i \in 1..(j - 1) :
                                       IsFrame(r[i]) /\ r[j].lo <= r[i].hi
    BY DEF Smooth
  <2>1. CASE j # n
    <3>1. j \in DOMAIN q /\ \A i \in 1..j : r[i] = q[i]
      BY <1>1, <2>1
    <3>2. q[j].lo <= o \/ \E i \in 1..(j - 1) : IsFrame(q[i]) /\ q[j].lo <= q[i].hi
      BY <3>1 DEF Smooth
    <3> QED
      BY <1>1, <3>1, <3>2
  <2>2. CASE j = n
    <3>1. Brings(q, o, b) /\ r[j].lo <= b
      BY <1>1, <2>2
    <3>2. CASE b <= o
      BY <1>2, <3>1, <3>2
    <3>3. ASSUME NEW i \in DOMAIN q, IsFrame(q[i]), b <= q[i].hi
          PROVE \E k \in 1..(j - 1) : IsFrame(r[k]) /\ r[j].lo <= r[k].hi
      <4>1. i \in 1..(j - 1) /\ r[i] = q[i] /\ i \in DOMAIN r
        BY <1>1, <2>2
      <4>2. r[j].lo <= r[i].hi
        BY <1>2, <3>1, <3>3, <4>1
      <4> QED
        BY <3>3, <4>1, <4>2
    <3> QED
      BY <3>1, <3>2, <3>3 DEF Brings
  <2> QED
    BY <2>1, <2>2
<1>5. Brings(q, o, b) => Brings(r, o, b)
  BY <1>1 DEF Brings
<1>6. IsFrame(f) => Brings(r, o, f.hi)
  <2>1. IsFrame(f) => n \in DOMAIN r /\ IsFrame(r[n]) /\ f.hi <= r[n].hi
    BY <1>1, <1>2
  <2> QED
    BY <2>1 DEF Brings
<1> QED
  BY <1>1, <1>3, <1>4, <1>5, <1>6 DEF r

LEMMA InitWires == Init => Wires
<1> SUFFICES ASSUME Init PROVE Wires
  OBVIOUS
<1>1. Whole
  BY BoundAssumption DEF Init, Whole
<1>2. ASSUME NEW t \in Tabs PROVE Shown(t)
  <2>1. Stream!Prefix(0) = <<>>
    BY DEF Stream!Prefix
  <2> QED
    BY <2>1 DEF Init, Shown
<1>3. ASSUME NEW s \in Conns PROVE Replayed(s) /\ Wired(s)
  BY DEF Init, Replayed, Wired, NoSnap
<1> QED
  BY <1>1, <1>2, <1>3 DEF Wires

\* The types of what the proofs below compute with.
LEMMA WireTypes ==
  ASSUME TypeOK
  PROVE  /\ offset \in Nat
         /\ \A t \in Tabs : off[t] \in Nat
         /\ \A s \in Conns :
              /\ net[s] \in Seq(Wire) /\ sent[s] \in Nat
              /\ snap[s].lo \in Nat /\ snap[s].hi \in Nat
              /\ snap[s].base \in Nat /\ snap[s].from \in Nat
              /\ \A j \in DOMAIN net[s] : net[s][j] \in Wire
<1>1. offset \in Nat /\ \A t \in Tabs : off[t] \in Nat
  BY DEF TypeOK, SessionTypeOK, TabTypeOK
<1>2. ASSUME NEW s \in Conns
      PROVE  /\ net[s] \in Seq(Wire) /\ sent[s] \in Nat /\ snap[s] \in Snap
             /\ \A j \in DOMAIN net[s] : net[s][j] \in Wire
  <2>1. net[s] \in Seq(Wire) /\ sent[s] \in Nat /\ snap[s] \in Snap
    BY DEF TypeOK, ConnTypeOK, QueueTypeOK
  <2>2. \A j \in DOMAIN net[s] : net[s][j] \in Wire
    BY <2>1
  <2> QED
    BY <2>1, <2>2
<1> QED
  BY <1>1, <1>2 DEF Snap

LEMMA FrameTypes ==
  ASSUME NEW f \in Wire
  PROVE  /\ IsFrame(f) => f \in DataFrame /\ f.lo \in Nat /\ f.hi \in Nat
                          /\ f.base \in Nat /\ f.lo <= f.hi
         /\ f.kind = "ready" => f.seq \in Nat
BY DEF Wire, DataFrame, IsFrame

\* The host's threads move the head on and leave the tabs alone.
LEMMA HostWires ==
  ASSUME Before, Wires, offset' \in Nat, offset <= offset',
         offset' <= MaxBytes, ring'.lo = 0, ringBase' = 0,
         pc' = pc, snap' = snap, sent' = sent, net' = net, tab' = tab,
         open' = open, off' = off, screen' = screen
  PROVE  Wires'
<1>1. Whole'
  BY DEF Whole
<1>2. ASSUME NEW t \in Tabs PROVE Shown(t)'
  BY WireTypes DEF Wires, Shown, Before
<1>3. ASSUME NEW s \in Conns PROVE Replayed(s)' /\ Wired(s)'
  <2>1. Replayed(s) /\ Wired(s)
    BY DEF Wires
  <2>2. Replayed(s)'
    BY <2>1, WireTypes DEF Replayed, Before
  <2>3. \A j \in DOMAIN net[s] : Honest(net[s][j]) => Honest(net[s][j])'
    <3> SUFFICES ASSUME NEW j \in DOMAIN net[s], Honest(net[s][j])
                 PROVE Honest(net[s][j])'
      OBVIOUS
    <3>1. net[s][j] \in Wire /\ offset \in Nat
      BY WireTypes DEF Before
    <3> QED
      BY <3>1, FrameTypes DEF Honest
  <2>4. Wired(s)'
    BY <2>1, <2>3 DEF Wired
  <2> QED
    BY <2>2, <2>4
<1> QED
  BY <1>1, <1>2, <1>3 DEF Wires

\* A step of one socket keeps the invariant if it keeps it for that socket.
LEMMA SocketWires ==
  ASSUME Before, Wires, NEW s \in Conns, NEW from, NEW to, At(s, from, to),
         offset' = offset, ring' = ring, ringBase' = ringBase,
         tab' = tab, open' = open, off' = off, screen' = screen,
         \A r \in Conns \ {s} :
            net'[r] = net[r] /\ snap'[r] = snap[r] /\ sent'[r] = sent[r],
         Replayed(s)' /\ Wired(s)'
  PROVE  Wires'
<1>1. Whole'
  BY DEF Wires, Whole
<1>2. ASSUME NEW t \in Tabs PROVE Shown(t)'
  BY DEF Wires, Shown
<1>3. ASSUME NEW r \in Conns \ {s} PROVE Replayed(r)' /\ Wired(r)'
  <2>1. Replayed(r) /\ Wired(r)
    BY DEF Wires
  <2>2. pc'[r] = pc[r]
    BY DEF At, Before, TypeOK, ConnTypeOK
  <2>3. Replayed(r)'
    BY <2>1, <2>2 DEF Replayed
  <2>4. Wired(r)'
    BY <2>1, <2>2 DEF Wired, Honest
  <2> QED
    BY <2>3, <2>4
<1> QED
  BY <1>1, <1>2, <1>3 DEF Wires

\* A socket moves on and puts nothing on its wire.
LEMMA QuietWires ==
  ASSUME Before, Wires, NEW s \in Conns, NEW from, NEW to, At(s, from, to),
         offset' = offset, ring' = ring, ringBase' = ringBase,
         tab' = tab, open' = open, off' = off, screen' = screen, net' = net,
         \A r \in Conns \ {s} : snap'[r] = snap[r] /\ sent'[r] = sent[r],
         Replayed(s)',
         to # "idle", from # "idle",
         to \in {"got", "bumped", "subbed", "ringed", "based"} =>
           /\ from \in {"got", "bumped", "subbed", "ringed", "based"}
           /\ snap'[s].from = snap[s].from,
         to \in {"check", "loop", "recv"} =>
           from \in {"check", "loop", "recv"} /\ sent'[s] = sent[s]
  PROVE  Wires'
<1>1. Wired(s) /\ pc[s] = from /\ pc'[s] = to
  BY AtMoves DEF Before, Wires
<1>2. Wired(s)'
  BY <1>1 DEF Wired, Honest
<1> QED
  BY <1>2, SocketWires

\* A frame is put on the wire by a socket that follows the session.
LEMMA PutWires ==
  ASSUME Before, Wires, NEW s \in Conns, NEW f \in Wire, Send(s, <<f>>),
         NEW from \in {"check", "loop", "recv"},
         NEW to \in {"loop", "release"}, At(s, from, to),
         offset' = offset, ring' = ring, ringBase' = ringBase,
         tab' = tab, open' = open, off' = off, screen' = screen,
         snap' = snap, \A r \in Conns \ {s} : sent'[r] = sent[r],
         Honest(f), f.kind # "ready",
         IsFrame(f) => f.lo <= sent[s] /\ sent'[s] = f.hi,
         ~IsFrame(f) => to = "release"
  PROVE  Wires'
<1>1. /\ Replayed(s) /\ Wired(s) /\ pc[s] = from /\ pc'[s] = to
      /\ net[s] \in Seq(Wire) /\ sent[s] \in Nat
  BY AtMoves, WireTypes DEF Before, Wires
<1>2. Replayed(s)'
  BY <1>1 DEF Replayed
<1>3. \A r \in Conns \ {s} : net'[r] = net[r]
  BY DEF Send, Before, TypeOK, QueueTypeOK
<1>4. CASE ~open[s]
  <2>1. net' = net
    BY <1>4 DEF Send
  <2>2. Wired(s)'
    BY <1>1, <1>4, <2>1 DEF Wired
  <2> QED
    BY <1>2, <1>3, <2>2, SocketWires
<1>5. CASE open[s]
  <2> DEFINE q == net[s] \o <<f>>
             o == off[tab[s]]
  <2>1. net'[s] = q
    BY <1>5 DEF Send, Before, TypeOK, QueueTypeOK
  <2>2. /\ tab[s] \in Tabs /\ Smooth(net[s], o) /\ Brings(net[s], o, sent[s])
        /\ \A r \in Conns : open[r] /\ tab[r] = tab[s] => r = s
        /\ \A j \in DOMAIN net[s] :
             /\ Honest(net[s][j])
             /\ net[s][j].kind = "ready" => j = 1 /\ o <= net[s][j].seq
    BY <1>1, <1>5 DEF Wired
  <2>3. o \in Nat
    BY <2>2, WireTypes DEF Before
  <2> HIDE DEF q, o
  <2>4. /\ Smooth(q, o)
        /\ IsFrame(f) => Brings(q, o, f.hi)
        /\ \A j \in DOMAIN q : \/ j \in DOMAIN net[s] /\ q[j] = net[s][j]
                               \/ j = Len(net[s]) + 1 /\ q[j] = f
    BY <1>1, <2>2, <2>3, FramePut DEF q
  <2>5. \A j \in DOMAIN q :
          /\ Honest(q[j])
          /\ q[j].kind = "ready" => j = 1 /\ o <= q[j].seq
    BY <2>2, <2>4
  <2>7. off'[tab'[s]] = o
    BY DEF o
  <2>8. to = "loop" => IsFrame(f) /\ Brings(q, o, sent'[s])
    BY <2>4
  <2>9. \A j \in DOMAIN net'[s] :
          /\ Honest(net[s][j])'
          /\ net'[s][j].kind = "ready" => j = 1 /\ off'[tab'[s]] <= net'[s][j].seq
    BY <2>1, <2>5, <2>7 DEF Honest
  <2>10. Wired(s)'
    BY <1>1, <1>5, <2>1, <2>2, <2>4, <2>7, <2>8, <2>9 DEF Wired
  <2> QED
    BY <1>2, <1>3, <2>10, SocketWires
<1> QED
  BY <1>4, <1>5

\* Only the bytes a tab asked for are replayed: the frame starts at its
\* offset, and without a frame the tab has everything.
LEMMA ReplayFromStart ==
  ASSUME NEW hi \in Nat, NEW from \in Nat
  PROVE  LET f == ReplayFrame(0, hi, 0, from) IN
         /\ f.lo < f.hi => f = Frame(from, from, hi)
         /\ ~(f.lo < f.hi) => hi <= from
BY DEF ReplayFrame, Frame

LEMMA SendReadyWires ==
  ASSUME Before, Wires, NEW s \in Conns, SendReady(s) PROVE Wires'
<1>1. /\ At(s, "based", "check")
      /\ offset' = offset /\ ring' = ring /\ ringBase' = ringBase
      /\ tab' = tab /\ open' = open /\ off' = off /\ screen' = screen
      /\ snap' = snap /\ sent' = sent
  BY DEF SendReady, sessionVars, tabVars
<1>2. /\ Replayed(s) /\ Wired(s) /\ pc[s] = "based" /\ pc'[s] = "check"
      /\ snap[s].hi \in Nat /\ snap[s].from \in Nat /\ offset \in Nat
  BY <1>1, AtMoves, WireTypes DEF Before, Wires
<1>3. Replayed(s)'
  BY <1>1, <1>2 DEF Replayed
<1>4. snap[s].lo = 0 /\ snap[s].base = 0 /\ sent[s] = snap[s].hi
  BY <1>2 DEF Replayed
<1>5. CASE ~open[s]
  <2>1. net' = net
    BY <1>5 DEF SendReady, Send
  <2>2. Wired(s)'
    BY <1>1, <1>2, <1>5, <2>1 DEF Wired
  <2> QED
    BY <1>1, <1>3, <2>1, <2>2, SocketWires
<1>6. CASE open[s]
  <2> DEFINE o == off[tab[s]]
             f == ReplayFrame(0, snap[s].hi, 0, o)
             ready == Ready(offset, FALSE)
             q == IF f.lo < f.hi THEN <<ready, f>> ELSE <<ready>>
  <2>1. /\ tab[s] \in Tabs /\ net[s] = <<>> /\ snap[s].from = o
        /\ \A r \in Conns : open[r] /\ tab[r] = tab[s] => r = s
    BY <1>2, <1>6 DEF Wired
  <2>2. o \in Nat /\ o <= offset
    BY <2>1, WireTypes DEF Before, Wires, Shown
  <2>3. (IF snap[s].from > offset THEN offset ELSE snap[s].from) = o
    BY <2>1, <2>2, <1>2
  <2>4. (o < snap[s].base) = FALSE
    BY <2>2, <1>4
  <2>5. Send(s, q)
    BY <1>4, <2>3, <2>4 DEF SendReady
  <2>6. /\ net' = [net EXCEPT ![s] = net[s] \o q]
        /\ q \in Seq(Wire)
    <3>1. f \in DataFrame
      BY <1>2, <2>2, ReplayFrameType
    <3>2. ready \in Wire
      BY <1>2 DEF Ready, Wire
    <3>3. q \in Seq(Wire)
      <4>1. f \in Wire
        BY <3>1 DEF Wire
      <4> HIDE DEF f, ready
      <4> QED
        BY <3>2, <4>1
    <3>4. net' = [net EXCEPT ![s] = net[s] \o q]
      BY <1>6, <2>5 DEF Send
    <3> QED
      BY <3>3, <3>4
  <2>7. net'[s] = q /\ \A r \in Conns \ {s} : net'[r] = net[r]
    BY <2>1, <2>6, EmptySeq, ConcatEmptySeq DEF Before, TypeOK, QueueTypeOK
  <2>8. /\ f.lo < f.hi => f = Frame(o, o, snap[s].hi)
        /\ ~(f.lo < f.hi) => snap[s].hi <= o
    BY <1>2, <2>2, ReplayFromStart
  <2>9. snap[s].hi <= offset
    BY <1>2 DEF Replayed
  <2>10. \/ q = <<ready>> /\ snap[s].hi <= o
         \/ q = <<ready, Frame(o, o, snap[s].hi)>>
    BY <2>8
  <2> HIDE DEF f, q
  <2>11. \A j \in DOMAIN q :
           /\ IsFrame(q[j]) => q[j].base = q[j].lo /\ q[j].hi <= offset
           /\ q[j].kind = "ready" =>
                ~q[j].behind /\ j = 1 /\ o <= q[j].seq
    BY <2>2, <2>9, <2>10 DEF Frame, Ready, IsFrame
  <2>12. Smooth(q, o)
    BY <2>2, <2>10 DEF Smooth, Frame, Ready, IsFrame
  <2>13. Brings(q, o, sent[s])
    BY <1>2, <1>4, <2>2, <2>10 DEF Brings, Frame, Ready, IsFrame
  <2> HIDE DEF o
  <2>14. off'[tab'[s]] = o
    BY <1>1 DEF o
  <2>15. Wired(s)'
    BY <1>1, <1>2, <1>6, <2>1, <2>7, <2>11, <2>12, <2>13, <2>14
       DEF Wired, Honest
  <2> QED
    BY <1>1, <1>3, <2>7, <2>15, SocketWires
<1> QED
  BY <1>5, <1>6

LEMMA SnapRingWires ==
  ASSUME Before, Wires, NEW s \in Conns, SnapRing(s) PROVE Wires'
<1>1. /\ At(s, "subbed", "ringed") /\ sent' = [sent EXCEPT ![s] = ring.hi]
      /\ snap' = [snap EXCEPT ![s] = [@ EXCEPT !.lo = ring.lo, !.hi = ring.hi]]
      /\ offset' = offset /\ ring' = ring /\ ringBase' = ringBase
      /\ tab' = tab /\ open' = open /\ off' = off /\ screen' = screen
      /\ net' = net
  BY DEF SnapRing, sessionVars, tabVars
<1>2. /\ sent'[s] = ring.hi /\ snap'[s].lo = ring.lo /\ snap'[s].hi = ring.hi
      /\ snap'[s].base = snap[s].base /\ snap'[s].from = snap[s].from
      /\ \A r \in Conns \ {s} : snap'[r] = snap[r] /\ sent'[r] = sent[r]
  BY <1>1 DEF Before, TypeOK, ConnTypeOK, Snap
<1>3. ring.hi <= offset /\ ring.lo = 0
  BY Reading DEF Wires, Whole
<1>4. Replayed(s)'
  BY <1>1, <1>2, <1>3 DEF Wires, Replayed
<1> QED
  BY <1>1, <1>2, <1>4, QuietWires

LEMMA SnapBaseWires ==
  ASSUME Before, Wires, NEW s \in Conns, SnapBase(s) PROVE Wires'
<1>1. /\ At(s, "ringed", "based") /\ sent' = sent
      /\ snap' = [snap EXCEPT ![s].base = ringBase]
      /\ offset' = offset /\ ring' = ring /\ ringBase' = ringBase
      /\ tab' = tab /\ open' = open /\ off' = off /\ screen' = screen
      /\ net' = net
  BY DEF SnapBase, sessionVars, tabVars
<1>2. /\ snap'[s].lo = snap[s].lo /\ snap'[s].hi = snap[s].hi
      /\ snap'[s].base = ringBase /\ snap'[s].from = snap[s].from
      /\ \A r \in Conns \ {s} : snap'[r] = snap[r]
  BY <1>1 DEF Before, TypeOK, ConnTypeOK, Snap
<1>3. pc[s] = "ringed" /\ ringBase = 0
  BY <1>1, AtMoves DEF Before, Wires, Whole
<1>4. Replayed(s)'
  BY <1>1, <1>2, <1>3 DEF Wires, Replayed
<1> QED
  BY <1>1, <1>2, <1>4, QuietWires

LEMMA ForwardWires ==
  ASSUME Before, Wires, NEW s \in Conns, Forward(s) PROVE Wires'
<1> DEFINE m == Head(chan[s])
           f == Frame(m.base, m.base, m.base + m.n)
<1>1. /\ At(s, "recv", "loop") /\ chan[s] # <<>> /\ IsData(m)
      /\ Send(s, <<f>>) /\ sent' = [sent EXCEPT ![s] = m.base + m.n]
      /\ offset' = offset /\ ring' = ring /\ ringBase' = ringBase
      /\ tab' = tab /\ open' = open /\ off' = off /\ screen' = screen
      /\ snap' = snap
  BY DEF Forward, sessionVars, tabVars, IsData
<1>2. pc[s] = "recv" /\ Line(s) /\ chan[s] \in Seq(Message)
  BY <1>1, AtMoves DEF Before, Lines, TypeOK, QueueTypeOK
<1>3. m \in Message /\ 1 \in DOMAIN chan[s] /\ m = chan[s][1]
  BY <1>1, <1>2, HeadTailProperties, EmptySeq
<1>4. m.base <= sent[s] /\ End(m) <= ring.hi
  BY <1>1, <1>2, <1>3 DEF Line, Queued, Receiving, Snapped, Begins, Stored
<1>5. /\ m.base \in Nat /\ m.n \in Nat /\ End(m) = m.base + m.n
      /\ ring.hi <= offset /\ ring.hi \in Nat /\ offset \in Nat
  BY <1>3, Reading DEF Message, End
<1>6. sent'[s] = m.base + m.n /\ \A r \in Conns \ {s} : sent'[r] = sent[r]
  BY <1>1 DEF Before, TypeOK, ConnTypeOK
<1>7. /\ f \in Wire /\ IsFrame(f) /\ f.kind # "ready" /\ Honest(f)
      /\ f.lo = m.base /\ f.hi = m.base + m.n
  BY <1>4, <1>5 DEF Frame, Wire, DataFrame, IsFrame, Honest
<1> HIDE DEF m, f
<1> QED
  BY <1>1, <1>4, <1>6, <1>7, PutWires

\* The frames that say why a socket ends.
LEMMA LastFrames ==
  \A f \in {Exit, Superseded, Abrupt} :
     f \in Wire /\ Honest(f) /\ f.kind # "ready" /\ ~IsFrame(f)
BY DEF Exit, Superseded, Abrupt, Wire, Honest, IsFrame

LEMMA ReturnWires ==
  ASSUME Before, Wires, NEW s \in Conns, Return(s),
         NEW from \in {"release", "take"}, At(s, from, "done"),
         offset' = offset, ring' = ring, ringBase' = ringBase,
         tab' = tab, open' = open, off' = off, screen' = screen, net' = net
  PROVE  Wires'
<1>1. /\ snap'[s] = NoSnap
      /\ \A r \in Conns \ {s} : snap'[r] = snap[r] /\ sent'[r] = sent[r]
  BY DEF Return, Before, TypeOK, ConnTypeOK
<1>2. Replayed(s)'
  BY <1>1, AtMoves DEF Replayed, NoSnap, Before
<1> QED
  BY <1>1, <1>2, QuietWires

LEMMA ServeWires ==
  ASSUME Before, Wires, NEW s \in Conns, Serve(s) \/ RecvEnds(s) \/ SendFails(s)
  PROVE  Wires'
<1> USE DEF sessionVars, tabVars
<1>1. Replayed(s)
  BY DEF Wires
<1>2. CASE Bump(s)
  BY <1>1, <1>2, AtMoves, QuietWires DEF Bump, Replayed, Before
<1>3. CASE ReplaceSub(s)
  BY <1>1, <1>3, AtMoves, QuietWires DEF ReplaceSub, Replayed, Before
<1>4. CASE SnapRing(s) \/ SnapBase(s) \/ SendReady(s) \/ Forward(s)
  BY <1>4, SnapRingWires, SnapBaseWires, SendReadyWires, ForwardWires
<1>5. CASE CheckDead(s)
  <2>1. CASE dead
    BY <1>5, <2>1, LastFrames, PutWires DEF CheckDead
  <2>2. CASE ~dead
    BY <1>1, <1>5, <2>2, AtMoves, QuietWires DEF CheckDead, Replayed, Before
  <2> QED
    BY <2>1, <2>2
<1>6. CASE Loop(s)
  <2>1. CASE epoch # my[s]
    BY <1>6, <2>1, LastFrames, PutWires DEF Loop
  <2>2. CASE ~(epoch # my[s])
    BY <1>1, <1>6, <2>2, AtMoves, QuietWires DEF Loop, Replayed, Before
  <2> QED
    BY <2>1, <2>2
<1>7. CASE ForwardEof(s)
  BY <1>7, LastFrames, PutWires DEF ForwardEof
<1>8. CASE ForwardTakeover(s)
  BY <1>8, LastFrames, PutWires DEF ForwardTakeover
<1>9. CASE RecvEnds(s)
  <2>1. \E from \in {"loop", "recv"} : At(s, from, "release")
    BY <1>9 DEF RecvEnds
  <2> QED
    BY <1>9, <2>1, LastFrames, PutWires DEF RecvEnds
<1>10. CASE SendFails(s)
  BY <1>1, <1>10, AtMoves, QuietWires DEF SendFails, Replayed, Before
<1>11. CASE ReleaseCheck(s)
  <2>1. CASE epoch = my[s]
    BY <1>1, <1>11, <2>1, AtMoves, QuietWires
       DEF ReleaseCheck, Replayed, Before
  <2>2. CASE epoch # my[s]
    BY <1>11, <2>2, ReturnWires DEF ReleaseCheck
  <2> QED
    BY <2>1, <2>2
<1>12. CASE ReleaseTake(s)
  BY <1>12, ReturnWires DEF ReleaseTake
<1> QED
  BY <1>2, <1>3, <1>4, <1>5, <1>6, <1>7, <1>8, <1>9, <1>10, <1>11, <1>12
     DEF Serve

LEMMA ReaderWires ==
  ASSUME Before, Wires, Roomy, ReaderClaim \/ ReaderPush PROVE Wires'
<1>1. /\ pc' = pc /\ snap' = snap /\ sent' = sent /\ net' = net /\ tab' = tab
      /\ open' = open /\ off' = off /\ screen' = screen
  BY DEF ReaderClaim, ReaderPush, connVars, tabVars
<1>2. offset \in Nat /\ offset <= MaxBytes /\ ring.lo = 0 /\ ringBase = 0
  BY Reading DEF Wires, Whole
<1>3. CASE ReaderClaim
  <2>1. PICK n \in 1..MaxChunk : offset + n <= MaxBytes /\ offset' = offset + n
    BY <1>3 DEF ReaderClaim
  <2>2. ring' = ring /\ ringBase' = ringBase
    BY <1>3 DEF ReaderClaim
  <2>3. offset' \in Nat /\ offset <= offset' /\ offset' <= MaxBytes
    BY <1>2, <2>1, BoundAssumption
  <2> QED
    BY <1>1, <1>2, <2>2, <2>3, HostWires
<1>4. CASE ReaderPush
  <2>1. offset' = offset /\ reader.pc = "push" /\ PushRing(reader.n)
    BY <1>4 DEF ReaderPush
  <2>2. ring.hi + reader.n = offset /\ ring.hi \in Nat /\ reader.n \in Nat
    BY <2>1, Reading
  <2>3. Overflow(reader.n) = 0
    BY <1>2, <2>2, CapAssumption, BoundAssumption DEF Overflow, Roomy
  <2>4. ring'.lo = 0 /\ ringBase' = 0
    BY <1>2, <2>1, <2>3 DEF PushRing
  <2> QED
    BY <1>1, <1>2, <2>1, <2>4, HostWires
<1> QED
  BY <1>3, <1>4

LEMMA ConnectWires ==
  ASSUME Before, Wires, NEW t \in Tabs, NEW s \in Conns, Connect(t, s)
  PROVE  Wires'
<1>1. /\ At(s, "idle", "got") /\ \A r \in Conns : tab[r] = t => ~open[r]
      /\ tab' = [tab EXCEPT ![s] = t] /\ open' = [open EXCEPT ![s] = TRUE]
      /\ snap' = [snap EXCEPT ![s].from = off[t]]
      /\ offset' = offset /\ ring' = ring /\ ringBase' = ringBase
      /\ off' = off /\ screen' = screen /\ net' = net /\ sent' = sent
  BY DEF Connect, sessionVars, tabVars
<1>2. pc[s] = "idle" /\ pc'[s] = "got"
  BY <1>1, AtMoves DEF Before
<1>3. /\ tab'[s] = t /\ open'[s] /\ snap'[s].from = off[t]
      /\ snap'[s].lo = snap[s].lo /\ snap'[s].base = snap[s].base
      /\ \A r \in Conns \ {s} : /\ tab'[r] = tab[r] /\ open'[r] = open[r]
                                /\ snap'[r] = snap[r] /\ pc'[r] = pc[r]
  <2>1. tab'[s] = t /\ open'[s]
    BY <1>1 DEF Before, TypeOK, TabTypeOK
  <2>2. /\ snap'[s].from = off[t] /\ snap'[s].lo = snap[s].lo
        /\ snap'[s].base = snap[s].base
    BY <1>1 DEF Before, TypeOK, ConnTypeOK, Snap
  <2>3. ASSUME NEW r \in Conns \ {s}
        PROVE /\ tab'[r] = tab[r] /\ open'[r] = open[r]
              /\ snap'[r] = snap[r] /\ pc'[r] = pc[r]
    BY <1>1 DEF At, Before, TypeOK, TabTypeOK, ConnTypeOK
  <2> QED
    BY <2>1, <2>2, <2>3
<1>4. Whole'
  BY <1>1 DEF Wires, Whole
<1>5. ASSUME NEW u \in Tabs PROVE Shown(u)'
  BY <1>1 DEF Wires, Shown
<1>6. ASSUME NEW r \in Conns PROVE Replayed(r)' /\ Wired(r)'
  <2>1. Replayed(r) /\ Wired(r) /\ Wired(s)
    BY DEF Wires
  <2>2. CASE r = s
    <3>1. net[s] = <<>>
      BY <1>2, <2>1 DEF Wired
    <3>2. Smooth(net[s], off[t])
      BY <3>1 DEF Smooth
    <3>3. \A u \in Conns : open'[u] /\ tab'[u] = t => u = s
      BY <1>1, <1>3
    <3>4. Wired(s)'
      BY <1>1, <1>2, <1>3, <3>1, <3>2, <3>3 DEF Wired
    <3>5. Replayed(s)'
      BY <1>2, <1>3, <2>1, <2>2 DEF Replayed
    <3> QED
      BY <2>2, <3>4, <3>5
  <2>3. CASE r # s
    <3>1. Replayed(r)'
      BY <1>1, <1>3, <2>1, <2>3 DEF Replayed
    <3>2. open[r] => tab[r] # t
      BY <1>1
    <3>3. Wired(r)'
      BY <1>1, <1>3, <2>1, <2>3, <3>2 DEF Wired, Honest
    <3> QED
      BY <3>1, <3>3
  <2> QED
    BY <2>2, <2>3
<1> QED
  BY <1>4, <1>5, <1>6 DEF Wires

\* A socket of the browser is closed and its wire with it.
LEMMA CutWires ==
  ASSUME Before, Wires, NEW s \in Conns,
         open' = [open EXCEPT ![s] = FALSE], net' = [net EXCEPT ![s] = <<>>],
         offset' = offset, ring' = ring, ringBase' = ringBase, tab' = tab,
         off' = off, screen' = screen, snap' = snap, sent' = sent, pc' = pc
  PROVE  Wires'
<1>1. /\ ~open'[s] /\ net'[s] = <<>>
      /\ \A r \in Conns \ {s} : open'[r] = open[r] /\ net'[r] = net[r]
  BY DEF Before, TypeOK, TabTypeOK, QueueTypeOK
<1>2. Whole'
  BY DEF Wires, Whole
<1>3. ASSUME NEW u \in Tabs PROVE Shown(u)'
  BY DEF Wires, Shown
<1>4. ASSUME NEW r \in Conns PROVE Replayed(r)' /\ Wired(r)'
  <2>1. Replayed(r) /\ Wired(r)
    BY DEF Wires
  <2>2. Replayed(r)'
    BY <2>1 DEF Replayed
  <2>3. CASE r = s
    BY <1>1, <2>2, <2>3 DEF Wired
  <2>4. CASE r # s
    <3>1. Wired(r)'
      BY <1>1, <2>1, <2>4 DEF Wired, Honest
    <3> QED
      BY <2>2, <3>1
  <2> QED
    BY <2>3, <2>4
<1> QED
  BY <1>2, <1>3, <1>4 DEF Wires

\* The tab of s takes the first frame and has p bytes then.
LEMMA TakeWires ==
  ASSUME Before, Wires, NEW s \in Conns, open[s], net[s] # <<>>,
         NEW p \in Nat, off[tab[s]] <= p, p <= offset,
         IsFrame(Head(net[s])) => Head(net[s]).hi <= p,
         net' = [net EXCEPT ![s] = Tail(@)],
         off' = [off EXCEPT ![tab[s]] = p],
         screen' = [screen EXCEPT ![tab[s]] = Stream!Prefix(p)],
         open' = open, offset' = offset, ring' = ring, ringBase' = ringBase,
         tab' = tab, snap' = snap, sent' = sent, pc' = pc
  PROVE  Wires'
<1> DEFINE t == tab[s]
           q == net[s]
<1>1. /\ Wired(s) /\ t \in Tabs /\ Smooth(q, off[t])
      /\ \A r \in Conns : open[r] /\ tab[r] = t => r = s
      /\ q \in Seq(Wire) /\ off[t] \in Nat /\ sent[s] \in Nat
      /\ pc[s] \notin {"got", "bumped", "subbed", "ringed", "based"}
  BY WireTypes DEF Wires, Wired, Before
<1>2. /\ off'[t] = p /\ screen'[t] = Stream!Prefix(p)
      /\ \A u \in Tabs \ {t} : off'[u] = off[u] /\ screen'[u] = screen[u]
      /\ net'[s] = Tail(q) /\ \A r \in Conns \ {s} : net'[r] = net[r]
  BY <1>1 DEF Before, TypeOK, TabTypeOK, QueueTypeOK
<1>3. Whole'
  BY DEF Wires, Whole
<1>4. ASSUME NEW u \in Tabs PROVE Shown(u)'
  BY <1>2 DEF Wires, Shown
<1>5. ASSUME NEW r \in Conns PROVE Replayed(r)'
  BY DEF Wires, Replayed
<1>6. Wired(s)'
  <2>1. /\ Smooth(Tail(q), p)
        /\ Brings(q, off[t], sent[s]) => Brings(Tail(q), p, sent[s])
    BY <1>1, FrameTaken
  <2>2. /\ Len(q) \in Nat \ {0} /\ Len(Tail(q)) = Len(q) - 1
        /\ DOMAIN Tail(q) = 1..(Len(q) - 1) /\ DOMAIN q = 1..Len(q)
        /\ \A j \in DOMAIN Tail(q) : Tail(q)[j] = q[j + 1]
        /\ Head(q) = q[1]
    BY <1>1, HeadTailProperties, EmptySeq, LenProperties
  <2>3. \A j \in DOMAIN q :
          Honest(q[j]) /\ (q[j].kind = "ready" => j = 1)
    BY <1>1 DEF Wired
  <2>4. ASSUME NEW j \in DOMAIN Tail(q)
        PROVE  Honest(Tail(q)[j]) /\ Tail(q)[j].kind # "ready"
    <3>1. j + 1 \in DOMAIN q /\ j + 1 # 1 /\ Tail(q)[j] = q[j + 1]
      BY <2>2
    <3>2. Honest(q[j + 1]) /\ q[j + 1].kind # "ready"
      BY <2>3, <3>1
    <3> QED
      BY <3>1, <3>2
  <2>5. pc[s] \in {"check", "loop", "recv"} => Brings(q, off[t], sent[s])
    BY <1>1 DEF Wired
  <2>6. pc[s] # "idle"
    BY <1>1 DEF Wired
  <2> DEFINE r == Tail(q)
  <2> HIDE DEF r
  <2>7. net'[s] = r
    BY <1>2 DEF r
  <2>8. \A j \in DOMAIN r : Honest(r[j]) /\ r[j].kind # "ready"
    BY <2>4 DEF r
  <2>9. \A j \in DOMAIN net'[s] :
          Honest(net[s][j])' /\ net'[s][j].kind # "ready"
    BY <2>7, <2>8 DEF Honest
  <2>10. Smooth(r, p) /\ (pc[s] \in {"check", "loop", "recv"} => Brings(r, p, sent[s]))
    BY <2>1, <2>5 DEF r
  <2> QED
    BY <1>1, <1>2, <2>6, <2>7, <2>9, <2>10 DEF Wired
<1>7. ASSUME NEW r \in Conns \ {s} PROVE Wired(r)'
  <2>1. Wired(r) /\ net'[r] = net[r]
    BY <1>2 DEF Wires
  <2>2. open[r] => tab[r] \in Tabs \ {t}
    BY <1>1, <2>1 DEF Wired
  <2>3. open[r] => off'[tab[r]] = off[tab[r]]
    BY <1>2, <2>2
  <2> QED
    BY <2>1, <2>3 DEF Wired, Honest
<1> QED
  BY <1>3, <1>4, <1>5, <1>6, <1>7 DEF Wires

\* ready tells a tab nothing new when nothing has been evicted.
LEMMA OnReadyWires ==
  ASSUME Before, Wires, NEW s \in Conns, OnReady(s)
  PROVE  Wires' /\ screen' = screen
<1> DEFINE t == tab[s]
           m == Head(net[s])
<1>1. /\ open[s] /\ net[s] # <<>> /\ m.kind = "ready"
      /\ off' = [off EXCEPT ![t] = IF @ > m.seq THEN m.seq ELSE @]
      /\ screen' = [screen EXCEPT ![t] = IF m.behind THEN Append(@, Missed) ELSE @]
      /\ net' = [net EXCEPT ![s] = Tail(@)]
      /\ open' = open /\ offset' = offset /\ ring' = ring
      /\ ringBase' = ringBase /\ tab' = tab /\ snap' = snap /\ sent' = sent
      /\ pc' = pc
  BY DEF OnReady, Take, sessionVars, connVars
<1>2. /\ t \in Tabs /\ ~m.behind /\ off[t] <= m.seq /\ m.seq \in Nat
      /\ ~IsFrame(m)
  <2>1. Wired(s) /\ net[s] \in Seq(Wire)
    BY WireTypes DEF Wires, Before
  <2>2. 1 \in DOMAIN net[s] /\ m = net[s][1] /\ m \in Wire
    BY <1>1, <2>1, HeadTailProperties, EmptySeq
  <2>3. t \in Tabs /\ Honest(m) /\ off[t] <= m.seq
    BY <1>1, <2>1, <2>2 DEF Wired
  <2> QED
    BY <1>1, <2>2, <2>3, FrameTypes DEF Honest, IsFrame
<1>3. off[t] \in Nat /\ Shown(t)
  BY <1>2, WireTypes DEF Before, Wires
<1>4. off' = [off EXCEPT ![t] = off[t]]
  <2>1. (IF off[t] > m.seq THEN m.seq ELSE off[t]) = off[t]
    BY <1>2, <1>3
  <2> QED
    BY <1>1, <2>1
<1>5. screen' = [screen EXCEPT ![t] = screen[t]]
  BY <1>1, <1>2
<1>6. screen' = screen
  BY <1>5 DEF Before, TypeOK, TabTypeOK
<1>7. screen[t] = Stream!Prefix(off[t]) /\ off[t] <= offset
  BY <1>3 DEF Shown
<1>8. screen' = [screen EXCEPT ![t] = Stream!Prefix(off[t])]
  BY <1>5, <1>7
<1>9. Wires'
  <2> DEFINE p == off[t]
  <2>1. /\ p \in Nat /\ off[tab[s]] <= p /\ p <= offset
        /\ IsFrame(Head(net[s])) => Head(net[s]).hi <= p
        /\ off' = [off EXCEPT ![tab[s]] = p]
        /\ screen' = [screen EXCEPT ![tab[s]] = Stream!Prefix(p)]
    BY <1>2, <1>3, <1>4, <1>7, <1>8
  <2> HIDE DEF p, t, m
  <2> QED
    BY <1>1, <2>1, TakeWires
<1> QED
  BY <1>6, <1>9

\* A frame brings a tab to the end of the frame, or nothing new.
LEMMA OnDataWires ==
  ASSUME Before, Wires, NEW s \in Conns, OnData(s)
  PROVE  /\ Wires'
         /\ \/ screen' = screen
            \/ \E t \in Tabs : \E k \in (Len(screen[t]) + 1)..offset :
                 screen' = [screen EXCEPT ![t] = Stream!Prefix(k)]
<1> DEFINE t == tab[s]
           m == Head(net[s])
           skip == IF m.base < off[t] THEN off[t] - m.base ELSE 0
<1>1. /\ open[s] /\ net[s] # <<>> /\ IsFrame(m)
      /\ IF skip > 0 /\ skip >= m.hi - m.lo
           THEN off' = off /\ screen' = screen
           ELSE /\ off' = [off EXCEPT ![t] = m.base + (m.hi - m.lo)]
                /\ screen' = [screen EXCEPT ![t] = @ \o Bytes(m.lo + skip, m.hi)]
      /\ net' = [net EXCEPT ![s] = Tail(@)]
      /\ open' = open /\ offset' = offset /\ ring' = ring
      /\ ringBase' = ringBase /\ tab' = tab /\ snap' = snap /\ sent' = sent
      /\ pc' = pc
  BY DEF OnData, Take, sessionVars, connVars, IsFrame
<1>2. /\ t \in Tabs /\ m.lo \in Nat /\ m.hi \in Nat /\ m.lo <= m.hi
      /\ m.base = m.lo /\ m.hi <= offset /\ m.lo <= off[t]
      /\ off[t] \in Nat /\ offset \in Nat /\ Shown(t)
  <2>1. Wired(s) /\ net[s] \in Seq(Wire)
    BY WireTypes DEF Wires, Before
  <2>2. 1 \in DOMAIN net[s] /\ m = net[s][1] /\ m \in Wire
    BY <1>1, <2>1, HeadTailProperties, EmptySeq
  <2>3. t \in Tabs /\ Honest(m) /\ Smooth(net[s], off[t])
    BY <1>1, <2>1, <2>2 DEF Wired
  <2>4. m.lo <= off[t]
    BY <1>1, <2>2, <2>3 DEF Smooth
  <2>5. off[t] \in Nat /\ offset \in Nat /\ Shown(t)
    BY <2>3, WireTypes DEF Before, Wires
  <2> QED
    BY <1>1, <2>2, <2>3, <2>4, <2>5, FrameTypes DEF Honest
<1>3. screen[t] = Stream!Prefix(off[t]) /\ off[t] <= offset
  BY <1>2 DEF Shown
<1>4. CASE skip > 0 /\ skip >= m.hi - m.lo
  <2>1. off' = off /\ screen' = screen
    BY <1>1, <1>4
  <2>2. m.hi <= off[t]
    BY <1>2, <1>4
  <2>3. off' = [off EXCEPT ![t] = off[t]]
    BY <2>1 DEF Before, TypeOK, TabTypeOK
  <2>4. screen' = [screen EXCEPT ![t] = Stream!Prefix(off[t])]
    BY <1>3, <2>1 DEF Before, TypeOK, TabTypeOK
  <2>5. Wires'
    <3> DEFINE p == off[t]
    <3>1. /\ p \in Nat /\ off[tab[s]] <= p /\ p <= offset
          /\ IsFrame(Head(net[s])) => Head(net[s]).hi <= p
          /\ off' = [off EXCEPT ![tab[s]] = p]
          /\ screen' = [screen EXCEPT ![tab[s]] = Stream!Prefix(p)]
      BY <1>2, <1>3, <2>2, <2>3, <2>4
    <3> HIDE DEF p, t, m, skip
    <3> QED
      BY <1>1, <3>1, TakeWires
  <2> QED
    BY <2>1, <2>5
<1>5. CASE ~(skip > 0 /\ skip >= m.hi - m.lo)
  <2>1. m.lo + skip = off[t] /\ off[t] <= m.hi
    BY <1>2, <1>5
  <2>2. off' = [off EXCEPT ![t] = m.hi]
    <3>1. m.base + (m.hi - m.lo) = m.hi
      BY <1>2
    <3> QED
      BY <1>1, <1>5, <3>1
  <2>3. screen' = [screen EXCEPT ![t] = screen[t] \o Bytes(off[t], m.hi)]
    BY <1>1, <1>5, <2>1
  <2>4. Stream!Prefix(off[t]) \o Bytes(off[t], m.hi) = Stream!Prefix(m.hi)
    BY <1>2, <2>1, PrefixGrows
  <2>5. screen' = [screen EXCEPT ![t] = Stream!Prefix(m.hi)]
    BY <1>3, <2>3, <2>4
  <2>6. Wires'
    <3> DEFINE p == m.hi
    <3>1. /\ p \in Nat /\ off[tab[s]] <= p /\ p <= offset
          /\ IsFrame(Head(net[s])) => Head(net[s]).hi <= p
          /\ off' = [off EXCEPT ![tab[s]] = p]
          /\ screen' = [screen EXCEPT ![tab[s]] = Stream!Prefix(p)]
      BY <1>2, <2>1, <2>2, <2>5
    <3> HIDE DEF p, t, m, skip
    <3> QED
      BY <1>1, <3>1, TakeWires
  <2>7. Len(screen[t]) = off[t]
    BY <1>2, <1>3, PrefixLength
  <2>8. CASE off[t] = m.hi
    <3>1. screen' = screen
      BY <1>3, <2>5, <2>8 DEF Before, TypeOK, TabTypeOK
    <3> QED
      BY <2>6, <3>1
  <2>9. CASE off[t] # m.hi
    <3>1. m.hi \in (Len(screen[t]) + 1)..offset
      BY <1>2, <2>1, <2>7, <2>9
    <3> QED
      BY <1>2, <2>5, <2>6, <3>1
  <2> QED
    BY <2>8, <2>9
<1> QED
  BY <1>4, <1>5

\* What a step does to the output and to the screens, and nothing else, is
\* a step of the abstract stream or none.
LEMMA StepWires ==
  ASSUME Before, Wires, Roomy, [Next]_vars
  PROVE  Wires' /\ [Stream!StreamNext]_(Stream!streamVars)
<1>1. ASSUME offset' = offset, screen' = screen
      PROVE  [Stream!StreamNext]_(Stream!streamVars)
  BY <1>1 DEF Stream!streamVars
<1>2. offset \in Nat /\ offset <= MaxBytes /\ ring.lo = 0 /\ ringBase = 0
  BY Reading DEF Wires, Whole
<1>3. ASSUME offset' = offset, ring' = ring, ringBase' = ringBase,
             pc' = pc, snap' = snap, sent' = sent, net' = net, tab' = tab,
             open' = open, off' = off, screen' = screen
      PROVE  Wires' /\ [Stream!StreamNext]_(Stream!streamVars)
  BY <1>1, <1>2, <1>3, HostWires
<1>4. CASE UNCHANGED vars
  BY <1>3, <1>4 DEF vars, sessionVars, connVars, tabVars
<1>5. CASE Reader
  <2>1. CASE ReaderClaim
    <3>1. PICK n \in 1..MaxChunk : offset' = offset + n
      BY <2>1 DEF ReaderClaim
    <3>2. offset' > offset /\ screen' = screen
      BY <1>2, <2>1, <3>1, BoundAssumption DEF ReaderClaim, tabVars
    <3>3. Stream!StreamNext
      BY <3>2 DEF Stream!StreamNext, Stream!Produce
    <3> QED
      BY <2>1, <3>3, ReaderWires
  <2>2. CASE ReaderPush
    BY <1>1, <2>2, ReaderWires DEF ReaderPush, tabVars
  <2>3. CASE ReaderTake \/ ReaderSend \/ ReaderEnd \/ ReaderEof
    BY <1>3, <2>3 DEF ReaderTake, ReaderSend, ReaderEnd, ReaderEof,
       sessionVars, connVars, tabVars
  <2> QED
    BY <1>5, <2>1, <2>2, <2>3 DEF Reader
<1>6. CASE Watcher
  BY <1>3, <1>6 DEF Watcher, WatcherSee, WatcherEof, sessionVars, connVars,
     tabVars
<1>7. CASE Host
  BY <1>3, <1>7 DEF Host, ShellExits, KillRemove, KillNotify, ReaperRemove,
     Reap, sessionVars, connVars, tabVars
<1>8. ASSUME NEW s \in Conns, Serve(s) \/ RecvEnds(s) \/ SendFails(s)
      PROVE  Wires' /\ [Stream!StreamNext]_(Stream!streamVars)
  <2>1. offset' = offset /\ screen' = screen
    BY <1>8 DEF Serve, RecvEnds, SendFails, Bump, ReplaceSub, SnapRing,
       SnapBase, SendReady, CheckDead, Loop, Forward, ForwardEof,
       ForwardTakeover, ReleaseCheck, ReleaseTake, sessionVars, tabVars
  <2> QED
    BY <1>1, <1>8, <2>1, ServeWires
<1>9. ASSUME NEW s \in Conns, Drop(s) \/ OnClose(s)
      PROVE  Wires' /\ [Stream!StreamNext]_(Stream!streamVars)
  <2>1. /\ open' = [open EXCEPT ![s] = FALSE]
        /\ net' = [net EXCEPT ![s] = <<>>]
        /\ offset' = offset /\ ring' = ring /\ ringBase' = ringBase
        /\ tab' = tab /\ off' = off /\ screen' = screen /\ snap' = snap
        /\ sent' = sent /\ pc' = pc
    BY <1>9 DEF Drop, OnClose, sessionVars, connVars, tabVars
  <2> QED
    BY <1>1, <2>1, CutWires
<1>10. ASSUME NEW s \in Conns, OnReady(s)
       PROVE  Wires' /\ [Stream!StreamNext]_(Stream!streamVars)
  BY <1>1, <1>10, OnReadyWires DEF OnReady, sessionVars
<1>11. ASSUME NEW s \in Conns, OnData(s)
       PROVE  Wires' /\ [Stream!StreamNext]_(Stream!streamVars)
  <2>1. offset' = offset
    BY <1>11 DEF OnData, sessionVars
  <2>2. CASE screen' = screen
    BY <1>1, <1>11, <2>1, <2>2, OnDataWires
  <2>3. CASE \E t \in Tabs : \E k \in (Len(screen[t]) + 1)..offset :
               screen' = [screen EXCEPT ![t] = Stream!Prefix(k)]
    <3>1. Stream!StreamNext
      BY <2>1, <2>3 DEF Stream!StreamNext, Stream!Show
    <3> QED
      BY <1>11, <3>1, OnDataWires
  <2> QED
    BY <1>11, <2>2, <2>3, OnDataWires
<1>12. ASSUME NEW t \in Tabs, NEW s \in Conns, Connect(t, s)
       PROVE  Wires' /\ [Stream!StreamNext]_(Stream!streamVars)
  BY <1>1, <1>12, ConnectWires DEF Connect, sessionVars, tabVars
<1> QED
  BY <1>4, <1>5, <1>6, <1>7, <1>8, <1>9, <1>10, <1>11, <1>12 DEF Next, Browse

\* Tabs see the stream that TerminalStream promises, whatever sockets come,
\* go and overlap, as long as nothing is evicted from the ring: no byte
\* twice, none missing, none out of order, and no "output was missed" line.
THEOREM TabsSeeTheStream ==
  ASSUME Roomy
  PROVE  Spec => StreamRefined
<1>1. Init => Stream!StreamInit
  BY DEF Init, Stream!StreamInit
<1>2. TypeOK /\ OffsetAccount /\ Lines /\ Wires /\ [Next]_vars
        => Wires' /\ [Stream!StreamNext]_(Stream!streamVars)
  BY StepWires DEF Before
<1> QED
  BY InitWires, LinesAlways, <1>1, <1>2, PTL
     DEF Spec, StreamRefined, Stream!StreamSpec
=============================================================================
