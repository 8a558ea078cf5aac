------------------------ MODULE ShellBridgesOrder_proofs ------------------------
(***************************************************************************)
(* Proofs about what terminals over the relay carry: every variable keeps  *)
(* its type, keystrokes reach the shell in order and output reaches the    *)
(* page in order, both without a gap, for any sockets, keystrokes, pieces  *)
(* of output and numbers of connections of the agent and of the browser.   *)
(***************************************************************************)
EXTENDS ShellBridges_proofs

----------------------------------------------------------------------------
(* Numbered messages of one socket in a channel that it shares *)

Of(m, kind, s) == m.kind = kind /\ m.s = s

Has(q, kind, s) == \E i \in DOMAIN q : Of(q[i], kind, s)

\* Those of kind for s in q continue a stream of which lo have been taken:
\* each is the next one or follows another, and none is beyond hi.
Chained(q, kind, s, lo, hi) ==
  \A j \in DOMAIN q : Of(q[j], kind, s) =>
    /\ q[j].n \in Nat /\ lo < q[j].n /\ q[j].n <= hi
    /\ \/ q[j].n = lo + 1
       \/ \E i \in DOMAIN q : /\ i < j /\ Of(q[i], kind, s)
                              /\ q[j].n = q[i].n + 1
    /\ \A i \in DOMAIN q : i < j /\ Of(q[i], kind, s) => q[i].n < q[j].n

\* ... and the last of them is hi.
Complete(q, kind, s, lo, hi) ==
  lo = hi \/ \E j \in DOMAIN q : Of(q[j], kind, s) /\ q[j].n = hi

----------------------------------------------------------------------------
(* The inductive invariant *)

ViewerMsg == SockMsg \cup [kind : {"agent"}, up : BOOLEAN]

Begun(s) == bridge[s] \in {"up", "ended"}

\* What the two sides can know of each other: the open of a socket is sent
\* once and before its bridge exists, keystrokes and output come after the
\* bridge is up, a registered socket that has a bridge has kept its link, and
\* a bridge of the present connection is in its map.
Flow ==
  /\ conn # 0
  /\ toViewer # <<>> => link = "up"
  /\ \A j \in DOMAIN toAgent : \A s \in Socks :
       Of(toAgent[j], "open", s) =>
         /\ bridge[s] = "none" /\ want[s] = "no" /\ ready[s] # "none"
         /\ s \in reg => link = "up"
         /\ \A i \in DOMAIN toAgent : Of(toAgent[i], "open", s) => i = j
  /\ \A j \in DOMAIN toAgent : \A s \in Socks :
       Of(toAgent[j], "send", s) => Begun(s) /\ toAgent[j].n <= typed[s]
  /\ \A s \in Socks :
       /\ Has(toViewer, "recv", s) => Begun(s)
       /\ bridge[s] = "none" => home[s] = 0
       /\ bridge[s] # "none" => /\ want[s] = "no" /\ ready[s] # "none"
                                /\ s \in reg => link = "up"
       /\ ~Begun(s) => out[s] = 0 /\ shown[s] = <<>> /\ ~opened[s]
       /\ ready[s] = "open" => s \in reg /\ opened[s]
       /\ ~opened[s] => typed[s] = 0
       /\ bridge[s] \in {"dialing", "up"} /\ Live(s) => s \in hold

Closing(q) == \E i \in DOMAIN q : q[i].kind = "close"

\* The queue of a bridge: keystrokes after those the shell has got, up to a
\* close behind which anything may follow.
Queued(s) ==
  /\ Counts(got[s]) /\ Len(got[s]) <= typed[s]
  /\ \A i \in DOMAIN inq[s] :
       /\ inq[s][i].kind \in {"send", "close"}
       /\ inq[s][i].kind = "send" => inq[s][i].n <= typed[s]
       /\ \/ \E j \in DOMAIN inq[s] : j <= i /\ inq[s][j].kind = "close"
          \/ inq[s][i].n = Len(got[s]) + i

Taken(s) == Len(got[s]) + Len(inq[s])

\* While its bridge is served, what is on its way to it comes next, and is
\* everything the page has typed as long as it may type more.
Keys(s) ==
  bridge[s] = "up" /\ line = "up" /\ home[s] = conn /\ ~Closing(inq[s]) =>
    /\ Chained(toAgent, "send", s, Taken(s), typed[s])
    /\ ready[s] = "open" =>
         Complete(toAgent, "send", s, Taken(s), typed[s])

\* While a socket is registered, what is on its way to it comes next, and is
\* everything there is as long as its bridge can send.
View(s) ==
  s \in reg =>
    /\ Chained(toViewer, "recv", s, Len(shown[s]), out[s])
    /\ Live(s) => Complete(toViewer, "recv", s, Len(shown[s]), out[s])

Ordered(s) == Queued(s) /\ Keys(s) /\ View(s) /\ Counts(shown[s])

Kept == TypeOK /\ Flow /\ \A s \in Socks : Ordered(s)

OInv == IInv /\ Kept

----------------------------------------------------------------------------
(* Lemmas about channels *)

LEMMA AppendOther ==
  ASSUME NEW S, NEW q \in Seq(S), NEW m \in S, NEW kind, NEW s,
         NEW lo, NEW hi, ~Of(m, kind, s)
  PROVE  /\ Chained(q, kind, s, lo, hi)
              => Chained(Append(q, m), kind, s, lo, hi)
         /\ Complete(q, kind, s, lo, hi)
              => Complete(Append(q, m), kind, s, lo, hi)
         /\ Has(Append(q, m), kind, s) => Has(q, kind, s)
<1> DEFINE r == Append(q, m)
<1>1. /\ DOMAIN r = 1..(Len(q) + 1) /\ DOMAIN q = 1..Len(q) /\ Len(q) \in Nat
      /\ \A i \in DOMAIN q : i \in DOMAIN r /\ r[i] = q[i]
      /\ r[Len(q) + 1] = m
  OBVIOUS
<1> HIDE DEF r
<1>2. \A j \in DOMAIN r : Of(r[j], kind, s) => j \in DOMAIN q /\ r[j] = q[j]
  BY <1>1
<1>3. Chained(q, kind, s, lo, hi) => Chained(r, kind, s, lo, hi)
  BY <1>1, <1>2 DEF Chained
<1>4. Complete(q, kind, s, lo, hi) => Complete(r, kind, s, lo, hi)
  BY <1>1 DEF Complete
<1>5. Has(r, kind, s) => Has(q, kind, s)
  BY <1>2 DEF Has
<1> QED
  BY <1>3, <1>4, <1>5 DEF r

LEMMA AppendNext ==
  ASSUME NEW S, NEW q \in Seq(S), NEW m \in S, NEW kind, NEW s,
         NEW lo \in Nat, NEW hi \in Nat, lo <= hi,
         Of(m, kind, s), m.n = hi + 1,
         Chained(q, kind, s, lo, hi), Complete(q, kind, s, lo, hi)
  PROVE  /\ Chained(Append(q, m), kind, s, lo, hi + 1)
         /\ Complete(Append(q, m), kind, s, lo, hi + 1)
<1> DEFINE r == Append(q, m)
<1>1. /\ DOMAIN r = 1..(Len(q) + 1) /\ DOMAIN q = 1..Len(q) /\ Len(q) \in Nat
      /\ \A i \in DOMAIN q : r[i] = q[i]
      /\ r[Len(q) + 1] = m
  OBVIOUS
<1> HIDE DEF r
<1>2. Complete(r, kind, s, lo, hi + 1)
  BY <1>1 DEF Complete
<1>3. Chained(r, kind, s, lo, hi + 1)
  <2> SUFFICES ASSUME NEW j \in DOMAIN r, Of(r[j], kind, s)
               PROVE  /\ r[j].n \in Nat /\ lo < r[j].n /\ r[j].n <= hi + 1
                      /\ \/ r[j].n = lo + 1
                         \/ \E i \in DOMAIN r : /\ i < j /\ Of(r[i], kind, s)
                                                /\ r[j].n = r[i].n + 1
                      /\ \A i \in DOMAIN r :
                           i < j /\ Of(r[i], kind, s) => r[i].n < r[j].n
    BY DEF Chained
  <2>1. CASE j \in DOMAIN q
    <3>1. /\ r[j].n \in Nat /\ lo < r[j].n /\ r[j].n <= hi
          /\ \/ r[j].n = lo + 1
             \/ \E i \in DOMAIN q : /\ i < j /\ Of(q[i], kind, s)
                                    /\ r[j].n = q[i].n + 1
          /\ \A i \in DOMAIN q :
               i < j /\ Of(q[i], kind, s) => q[i].n < r[j].n
      BY <1>1, <2>1 DEF Chained
    <3>2. \A i \in DOMAIN r : i < j => i \in DOMAIN q /\ r[i] = q[i]
      BY <1>1, <2>1
    <3>3. \A i \in DOMAIN q : i \in DOMAIN r /\ r[i] = q[i]
      BY <1>1
    <3>4. r[j].n <= hi + 1
      BY <3>1
    <3> QED
      BY <3>1, <3>2, <3>3, <3>4
  <2>2. CASE j = Len(q) + 1
    <3>1. r[j].n = hi + 1 /\ \A i \in DOMAIN r : i < j => i \in DOMAIN q
      BY <1>1, <2>2
    <3>2. \/ r[j].n = lo + 1
          \/ \E i \in DOMAIN r : i < j /\ Of(r[i], kind, s)
                                /\ r[j].n = r[i].n + 1
      BY <1>1, <2>2, <3>1 DEF Complete
    <3>3. \A i \in DOMAIN r : i < j /\ Of(r[i], kind, s) => r[i].n < r[j].n
      BY <1>1, <3>1 DEF Chained
    <3> QED
      BY <3>1, <3>2, <3>3
  <2> QED
    BY <1>1, <2>1, <2>2
<1> QED
  BY <1>2, <1>3 DEF r

\* What is lost at the end leaves a chain that is not complete.
LEMMA ChainedGrows ==
  ASSUME NEW S, NEW q \in Seq(S), NEW kind, NEW s, NEW lo \in Nat,
         NEW hi \in Nat, Chained(q, kind, s, lo, hi)
  PROVE  Chained(q, kind, s, lo, hi + 1)
  BY DEF Chained

LEMMA TailIs ==
  ASSUME NEW S, NEW q \in Seq(S), q # <<>>
  PROVE  /\ Tail(q) \in Seq(S) /\ Head(q) \in S /\ Head(q) = q[1]
         /\ Len(q) \in Nat /\ Len(q) # 0
         /\ DOMAIN q = 1..Len(q) /\ DOMAIN Tail(q) = 1..(Len(q) - 1)
         /\ \A i \in DOMAIN Tail(q) : Tail(q)[i] = q[i + 1]
  OBVIOUS

LEMMA TailOther ==
  ASSUME NEW S, NEW q \in Seq(S), q # <<>>, NEW kind, NEW s,
         NEW lo, NEW hi, ~Of(Head(q), kind, s)
  PROVE  /\ Chained(q, kind, s, lo, hi) => Chained(Tail(q), kind, s, lo, hi)
         /\ Complete(q, kind, s, lo, hi) => Complete(Tail(q), kind, s, lo, hi)
<1> DEFINE r == Tail(q)
<1>1. /\ Head(q) = q[1] /\ Len(q) \in Nat /\ Len(q) # 0
      /\ DOMAIN q = 1..Len(q) /\ DOMAIN r = 1..(Len(q) - 1)
      /\ \A i \in DOMAIN r : r[i] = q[i + 1]
  BY TailIs
<1> HIDE DEF r
<1>2. \A j \in DOMAIN q : Of(q[j], kind, s) =>
         j - 1 \in DOMAIN r /\ r[j - 1] = q[j]
  BY <1>1
<1>3. ASSUME Chained(q, kind, s, lo, hi) PROVE Chained(r, kind, s, lo, hi)
  <2> SUFFICES ASSUME NEW j \in DOMAIN r, Of(r[j], kind, s)
               PROVE  /\ r[j].n \in Nat /\ lo < r[j].n /\ r[j].n <= hi
                      /\ \/ r[j].n = lo + 1
                         \/ \E i \in DOMAIN r : /\ i < j /\ Of(r[i], kind, s)
                                                /\ r[j].n = r[i].n + 1
                      /\ \A i \in DOMAIN r :
                           i < j /\ Of(r[i], kind, s) => r[i].n < r[j].n
    BY DEF Chained
  <2>1. j + 1 \in DOMAIN q /\ r[j] = q[j + 1]
    BY <1>1
  <2>2. r[j].n \in Nat /\ lo < r[j].n /\ r[j].n <= hi
    BY <1>3, <2>1 DEF Chained
  <2>3. ASSUME r[j].n # lo + 1
        PROVE  \E i \in DOMAIN r : /\ i < j /\ Of(r[i], kind, s)
                                   /\ r[j].n = r[i].n + 1
    <3>1. PICK i \in DOMAIN q : /\ i < j + 1 /\ Of(q[i], kind, s)
                                /\ q[j + 1].n = q[i].n + 1
      BY <1>3, <2>1, <2>3 DEF Chained
    <3>2. i - 1 \in DOMAIN r /\ r[i - 1] = q[i] /\ i - 1 < j
      BY <1>1, <1>2, <3>1
    <3> QED
      BY <2>1, <3>1, <3>2
  <2>4. ASSUME NEW k \in DOMAIN r, k < j, Of(r[k], kind, s)
        PROVE  r[k].n < r[j].n
    <3>1. k + 1 \in DOMAIN q /\ r[k] = q[k + 1] /\ k + 1 < j + 1
      BY <1>1, <2>4
    <3> QED
      BY <1>3, <2>1, <2>4, <3>1 DEF Chained
  <2> QED
    BY <2>2, <2>3, <2>4
<1>4. ASSUME Complete(q, kind, s, lo, hi) PROVE Complete(r, kind, s, lo, hi)
  BY <1>1, <1>2, <1>4 DEF Complete
<1> QED
  BY <1>3, <1>4 DEF r

\* The first message of a chain is the next one, and the chain goes on.
LEMMA TailThis ==
  ASSUME NEW S, NEW q \in Seq(S), q # <<>>, NEW kind, NEW s,
         NEW lo \in Nat, NEW hi \in Nat, Of(Head(q), kind, s),
         Chained(q, kind, s, lo, hi)
  PROVE  /\ Head(q).n = lo + 1 /\ lo + 1 <= hi
         /\ Chained(Tail(q), kind, s, lo + 1, hi)
         /\ Complete(q, kind, s, lo, hi)
              => Complete(Tail(q), kind, s, lo + 1, hi)
<1> DEFINE r == Tail(q)
<1>1. /\ Head(q) = q[1] /\ Len(q) \in Nat /\ Len(q) # 0
      /\ DOMAIN q = 1..Len(q) /\ DOMAIN r = 1..(Len(q) - 1)
      /\ \A i \in DOMAIN r : r[i] = q[i + 1]
  BY TailIs
<1> HIDE DEF r
<1>2. 1 \in DOMAIN q /\ Of(q[1], kind, s)
  BY <1>1
<1>3. q[1].n = lo + 1 /\ lo + 1 <= hi
  BY <1>1, <1>2 DEF Chained
<1>4. Chained(r, kind, s, lo + 1, hi)
  <2> SUFFICES ASSUME NEW j \in DOMAIN r, Of(r[j], kind, s)
               PROVE  /\ r[j].n \in Nat /\ lo + 1 < r[j].n /\ r[j].n <= hi
                      /\ \/ r[j].n = lo + 1 + 1
                         \/ \E i \in DOMAIN r : /\ i < j /\ Of(r[i], kind, s)
                                                /\ r[j].n = r[i].n + 1
                      /\ \A i \in DOMAIN r :
                           i < j /\ Of(r[i], kind, s) => r[i].n < r[j].n
    BY DEF Chained
  <2>1. j + 1 \in DOMAIN q /\ r[j] = q[j + 1] /\ 1 < j + 1
    BY <1>1
  <2>2. r[j].n \in Nat /\ lo + 1 < r[j].n /\ r[j].n <= hi
    BY <1>2, <1>3, <2>1 DEF Chained
  <2>3. PICK i \in DOMAIN q : /\ i < j + 1 /\ Of(q[i], kind, s)
                              /\ q[j + 1].n = q[i].n + 1
    BY <2>1, <2>2 DEF Chained
  <2>4. \/ r[j].n = lo + 1 + 1
        \/ \E k \in DOMAIN r : /\ k < j /\ Of(r[k], kind, s)
                               /\ r[j].n = r[k].n + 1
    <3>1. CASE i = 1
      BY <1>3, <2>1, <2>3, <3>1
    <3>2. CASE i # 1
      <4>1. i - 1 \in DOMAIN r /\ r[i - 1] = q[i] /\ i - 1 < j
        BY <1>1, <2>3, <3>2
      <4> QED
        BY <2>1, <2>3, <4>1
    <3> QED
      BY <3>1, <3>2
  <2>5. ASSUME NEW k \in DOMAIN r, k < j, Of(r[k], kind, s)
        PROVE  r[k].n < r[j].n
    <3>1. k + 1 \in DOMAIN q /\ r[k] = q[k + 1] /\ k + 1 < j + 1
      BY <1>1, <2>5
    <3> QED
      BY <2>1, <2>5, <3>1 DEF Chained
  <2> QED
    BY <2>2, <2>4, <2>5
<1>5. ASSUME Complete(q, kind, s, lo, hi)
      PROVE  Complete(r, kind, s, lo + 1, hi)
  <2>1. CASE lo = hi
    BY <1>3, <2>1
  <2>2. ASSUME NEW j \in DOMAIN q, Of(q[j], kind, s), q[j].n = hi
        PROVE  Complete(r, kind, s, lo + 1, hi)
    <3>1. CASE j = 1
      BY <1>3, <2>2, <3>1 DEF Complete
    <3>2. CASE j # 1
      <4>1. j - 1 \in DOMAIN r /\ r[j - 1] = q[j]
        BY <1>1, <3>2
      <4> QED
        BY <2>2, <4>1 DEF Complete
    <3> QED
      BY <3>1, <3>2
  <2> QED
    BY <1>5, <2>1, <2>2 DEF Complete
<1> QED
  BY <1>1, <1>3, <1>4, <1>5 DEF r

\* What a lost link leaves of a channel is the beginning of it.
LEMMA PrefixOK ==
  ASSUME NEW S, NEW q \in Seq(S), NEW k \in 0..Len(q)
  PROVE  /\ SubSeq(q, 1, k) \in Seq(S)
         /\ DOMAIN SubSeq(q, 1, k) = 1..k /\ 1..k \subseteq DOMAIN q
         /\ \A i \in 1..k : SubSeq(q, 1, k)[i] = q[i]
         /\ \A kind, s, lo, hi :
              Chained(q, kind, s, lo, hi)
                => Chained(SubSeq(q, 1, k), kind, s, lo, hi)
<1> DEFINE r == SubSeq(q, 1, k)
<1>1. /\ r \in Seq(S) /\ DOMAIN r = 1..k /\ 1..k \subseteq DOMAIN q
      /\ \A i \in 1..k : r[i] = q[i]
      /\ DOMAIN q = 1..Len(q)
  OBVIOUS
<1> HIDE DEF r
<1>2. ASSUME NEW kind, NEW s, NEW lo, NEW hi, Chained(q, kind, s, lo, hi)
      PROVE  Chained(r, kind, s, lo, hi)
  <2> SUFFICES ASSUME NEW j \in DOMAIN r, Of(r[j], kind, s)
               PROVE  /\ r[j].n \in Nat /\ lo < r[j].n /\ r[j].n <= hi
                      /\ \/ r[j].n = lo + 1
                         \/ \E i \in DOMAIN r : /\ i < j /\ Of(r[i], kind, s)
                                                /\ r[j].n = r[i].n + 1
                      /\ \A i \in DOMAIN r :
                           i < j /\ Of(r[i], kind, s) => r[i].n < r[j].n
    BY DEF Chained
  <2>1. j \in DOMAIN q /\ r[j] = q[j]
    BY <1>1
  <2>2. \A i \in DOMAIN q : i < j => i \in DOMAIN r /\ r[i] = q[i]
    BY <1>1
  <2> QED
    BY <1>1, <1>2, <2>1, <2>2 DEF Chained
<1> QED
  BY <1>1, <1>2 DEF r

LEMMA NoneChained ==
  ASSUME NEW q, NEW kind, NEW s, ~Has(q, kind, s), NEW lo, NEW hi
  PROVE  Chained(q, kind, s, lo, hi)
  BY DEF Chained, Has

LEMMA CountsAppend ==
  ASSUME NEW S, NEW q \in Seq(S), Counts(q), NEW n \in S, n = Len(q) + 1
  PROVE  Counts(Append(q, n)) /\ Len(Append(q, n)) = Len(q) + 1
         /\ Append(q, n) \in Seq(S)
  BY DEF Counts

----------------------------------------------------------------------------
(* What a step that leaves a socket's stream alone keeps *)

LEMMA QueuedKept ==
  ASSUME NEW s \in Socks, TypeOK, Queued(s),
         UNCHANGED <<inq[s], got[s], typed[s]>>
  PROVE  Queued(s)'
  BY DEF Queued

LEMMA KeysKept ==
  ASSUME NEW s \in Socks, Keys(s),
         UNCHANGED <<inq[s], got[s], typed[s], home[s], conn>>,
         bridge'[s] = "up" => bridge[s] = "up",
         line' = "up" => line = "up",
         ready'[s] = "open" => ready[s] = "open",
         Chained(toAgent, "send", s, Taken(s), typed[s])
           => Chained(toAgent', "send", s, Taken(s), typed[s]),
         ready'[s] = "open" =>
           (Complete(toAgent, "send", s, Taken(s), typed[s])
              => Complete(toAgent', "send", s, Taken(s), typed[s]))
  PROVE  Keys(s)'
<1>1. Taken(s)' = Taken(s) /\ Closing(inq[s])' = Closing(inq[s])
  BY DEF Taken, Closing
<1> QED
  BY <1>1 DEF Keys

LEMMA ViewKept ==
  ASSUME NEW s \in Socks, View(s),
         UNCHANGED <<shown[s], out[s]>>,
         s \in reg' => s \in reg,
         Live(s)' => Live(s),
         Chained(toViewer, "recv", s, Len(shown[s]), out[s])
           => Chained(toViewer', "recv", s, Len(shown[s]), out[s]),
         Complete(toViewer, "recv", s, Len(shown[s]), out[s])
           => Complete(toViewer', "recv", s, Len(shown[s]), out[s])
  PROVE  View(s)'
  BY DEF View

\* A message to the browser that is not output.
LEMMA TellKept ==
  ASSUME TypeOK, NEW m \in ViewerMsg, m.kind # "recv",
         toViewer' \in {toViewer, Append(toViewer, m)}, NEW s \in Socks,
         NEW lo, NEW hi
  PROVE  /\ Chained(toViewer, "recv", s, lo, hi)
              => Chained(toViewer', "recv", s, lo, hi)
         /\ Complete(toViewer, "recv", s, lo, hi)
              => Complete(toViewer', "recv", s, lo, hi)
<1>1. toViewer \in Seq(ViewerMsg) /\ ~Of(m, "recv", s)
  BY DEF TypeOK, ViewerMsg, Of
<1>2. CASE toViewer' = toViewer
  BY <1>1, <1>2
<1>3. CASE toViewer' = Append(toViewer, m)
  BY <1>1, <1>3, AppendOther
<1> QED
  BY <1>2, <1>3

LEMMA TellTyped ==
  ASSUME TypeOK, NEW m \in ViewerMsg, m.kind # "recv",
         toViewer' \in {toViewer, Append(toViewer, m)}
  PROVE  /\ toViewer' \in Seq(ViewerMsg)
         /\ \A s \in Socks :
              Has(toViewer', "recv", s) => Has(toViewer, "recv", s)
<1>1. toViewer \in Seq(ViewerMsg)
  BY DEF TypeOK, ViewerMsg
<1>2. ASSUME NEW s \in Socks
      PROVE  Has(Append(toViewer, m), "recv", s) => Has(toViewer, "recv", s)
  BY <1>1, AppendOther DEF Of
<1>3. CASE toViewer' = toViewer
  BY <1>1, <1>3
<1>4. CASE toViewer' = Append(toViewer, m)
  BY <1>1, <1>2, <1>4
<1> QED
  BY <1>3, <1>4

\* relayClosed and relayFailed open no socket.
LEMMA RingTypes ==
  ASSUME PageTypeOK, NEW S, S \subseteq Socks, Ring(S)
  PROVE  /\ ready' \in [Socks -> States] /\ told' \subseteq Socks
         /\ timers' \in [Socks -> SUBSET {"open", "close"}]
         /\ ends' \in [Socks -> Nat]
         /\ \A s \in Socks : ready'[s] \in {ready[s], "closed"}
         /\ \A s \in S : ready'[s] = "closed"
<1> DEFINE R == {s \in S : ready[s] # "closed"}
<1>1. /\ ready' = [s \in Socks |-> IF s \in R THEN "closed" ELSE ready[s]]
      /\ timers' = [s \in Socks |->
                      IF s \in R THEN timers[s] \ {"open"} ELSE timers[s]]
      /\ ends' = [s \in Socks |-> IF s \in R THEN ends[s] + 1 ELSE ends[s]]
      /\ told' = told \cup R
  BY DEF Ring
<1>2. R \subseteq Socks /\ \A s \in S : s \notin R => ready[s] = "closed"
  OBVIOUS
<1> HIDE DEF R
<1> QED
  BY <1>1, <1>2 DEF PageTypeOK, States

LEMMA OrderInit == Init => Kept
<1> SUFFICES ASSUME Init PROVE Kept
  OBVIOUS
<1>1. TypeOK
  BY DEF Init, TypeOK, AgentTypeOK, PageTypeOK
<1>2. Flow
  BY DEF Init, Flow, Has, Of
<1>3. ASSUME NEW s \in Socks PROVE Ordered(s)
  BY DEF Init, Ordered, Queued, Keys, View, Counts, Chained, Complete
<1> QED
  BY <1>1, <1>2, <1>3 DEF Kept

----------------------------------------------------------------------------
(* The agent *)

LEMMA AgentDropKept == ASSUME OInv, AgentDrop PROVE Kept'
<1>1. /\ line' = "ending" /\ toAgent' = <<>>
      /\ UNCHANGED <<conn, bridgeVars, room, toViewer, linkVars, sockVars>>
  BY DEF AgentDrop
<1>2. TypeOK /\ Flow /\ \A s \in Socks : Ordered(s)
  BY DEF OInv, Kept
<1>3. TypeOK'
  BY <1>1, <1>2 DEF TypeOK, AgentTypeOK, PageTypeOK, bridgeVars, linkVars,
                    sockVars
<1>4. Flow'
  BY <1>1, <1>2 DEF Flow, Live, Begun, Has, bridgeVars, linkVars, sockVars
<1>5. ASSUME NEW s \in Socks PROVE Ordered(s)'
  BY <1>1, <1>2
  DEF Ordered, Queued, Keys, View, Live, bridgeVars, linkVars, sockVars
<1> QED
  BY <1>3, <1>4, <1>5 DEF Kept

LEMMA AgentClearKept == ASSUME OInv, AgentClear PROVE Kept'
<1>1. /\ line' = "down" /\ hold' = {s \in hold : home[s] # conn}
      /\ UNCHANGED <<conn, bridge, home, inq, out, got, netVars, linkVars,
                     sockVars>>
  BY DEF AgentClear
<1>2. TypeOK /\ Flow /\ \A s \in Socks : Ordered(s)
  BY DEF OInv, Kept
<1>3. TypeOK'
  BY <1>1, <1>2 DEF TypeOK, AgentTypeOK, PageTypeOK, netVars, linkVars,
                    sockVars
<1>4. Flow'
  BY <1>1, <1>2 DEF Flow, Live, Begun, Has, netVars, linkVars, sockVars
<1>5. ASSUME NEW s \in Socks PROVE Ordered(s)'
  BY <1>1, <1>2
  DEF Ordered, Queued, Keys, View, Live, netVars, linkVars, sockVars
<1> QED
  BY <1>3, <1>4, <1>5 DEF Kept

LEMMA AgentConnectKept == ASSUME OInv, AgentConnect PROVE Kept'
<1> DEFINE m == Presence(TRUE)
<1>1. /\ line = "down" /\ line' = "up" /\ conn' = conn + 1 /\ room' = TRUE
      /\ toViewer' \in {toViewer, Append(toViewer, m)}
      /\ link = "off" => toViewer' = toViewer
      /\ UNCHANGED <<bridgeVars, toAgent, linkVars, sockVars>>
  BY DEF AgentConnect, Tell
<1>2. TypeOK /\ Flow /\ \A s \in Socks : Ordered(s)
  BY DEF OInv, Kept
<1>3. m \in ViewerMsg /\ m.kind # "recv"
  BY DEF Presence, ViewerMsg
<1> HIDE DEF m
<1>4. TypeOK'
  <2>1. toViewer' \in Seq(ViewerMsg)
    BY <1>1, <1>2, <1>3, TellTyped
  <2>2. AgentTypeOK'
    BY <1>1, <1>2 DEF TypeOK, AgentTypeOK, bridgeVars
  <2>3. PageTypeOK'
    BY <1>1, <1>2 DEF TypeOK, PageTypeOK, sockVars
  <2> QED
    BY <1>1, <1>2, <2>1, <2>2, <2>3 DEF TypeOK, linkVars, ViewerMsg
<1>5. Flow'
  <2>1. conn' # 0 /\ (toViewer' # <<>> => link = "up")
    BY <1>1, <1>2 DEF TypeOK, AgentTypeOK, Flow
  <2>2. \A s \in Socks : Has(toViewer', "recv", s) => Has(toViewer, "recv", s)
    BY <1>1, <1>2, <1>3, TellTyped
  <2>3. \A s \in Socks : home'[s] # conn'
    BY <1>1, <1>2 DEF TypeOK, AgentTypeOK, bridgeVars
  <2> QED
    BY <1>1, <1>2, <2>1, <2>2, <2>3
    DEF Flow, Live, Begun, bridgeVars, linkVars, sockVars
<1>6. ASSUME NEW s \in Socks PROVE Ordered(s)'
  <2>1. home'[s] # conn'
    BY <1>1, <1>2 DEF TypeOK, AgentTypeOK, bridgeVars
  <2>2. UNCHANGED <<reg, inq, got, typed, out, shown>>
    BY <1>1 DEF bridgeVars, sockVars
  <2>3. Keys(s)' /\ Queued(s)' /\ Counts(shown[s])'
    BY <1>2, <2>1, <2>2, QueuedKept DEF Keys, Ordered
  <2>4. View(s)'
    BY <1>1, <1>2, <1>3, <2>1, <2>2, TellKept DEF View, Live, Ordered
  <2> QED
    BY <2>3, <2>4 DEF Ordered
<1> QED
  BY <1>4, <1>5, <1>6 DEF Kept

LEMMA RoomNoticesKept == ASSUME OInv, RoomNotices PROVE Kept'
<1> DEFINE m == Presence(FALSE)
<1>1. /\ room' = FALSE
      /\ toViewer' \in {toViewer, Append(toViewer, m)}
      /\ link = "off" => toViewer' = toViewer
      /\ UNCHANGED <<agentVars, toAgent, linkVars, sockVars>>
  BY DEF RoomNotices, Tell
<1>2. TypeOK /\ Flow /\ \A s \in Socks : Ordered(s)
  BY DEF OInv, Kept
<1>3. m \in ViewerMsg /\ m.kind # "recv"
  BY DEF Presence, ViewerMsg
<1> HIDE DEF m
<1>4. TypeOK'
  BY <1>1, <1>2, <1>3, TellTyped
  DEF TypeOK, AgentTypeOK, PageTypeOK, agentVars, bridgeVars, linkVars,
      sockVars, ViewerMsg
<1>5. Flow'
  <2>1. toViewer' # <<>> => link = "up"
    BY <1>1, <1>2 DEF TypeOK, Flow
  <2>2. \A s \in Socks : Has(toViewer', "recv", s) => Has(toViewer, "recv", s)
    BY <1>1, <1>2, <1>3, TellTyped
  <2> QED
    BY <1>1, <1>2, <2>1, <2>2
    DEF Flow, Live, Begun, agentVars, bridgeVars, linkVars, sockVars
<1>6. ASSUME NEW s \in Socks PROVE Ordered(s)'
  <2>1. /\ UNCHANGED <<reg, inq, got, typed, out, shown, bridge, line, home>>
        /\ UNCHANGED <<conn, ready, toAgent>>
    BY <1>1 DEF agentVars, bridgeVars, sockVars
  <2>2. Keys(s)' /\ Queued(s)' /\ Counts(shown[s])'
    BY <1>2, <2>1, QueuedKept, KeysKept DEF Ordered
  <2>3. View(s)'
    BY <1>1, <1>2, <1>3, <2>1, TellKept DEF View, Live, Ordered
  <2> QED
    BY <2>2, <2>3 DEF Ordered
<1> QED
  BY <1>4, <1>5, <1>6 DEF Kept

----------------------------------------------------------------------------
(* The messages the agent reads *)

\* What the rest of the channel to the agent keeps.
LEMMA TakesKept ==
  ASSUME TypeOK, NEW kind, AgentTakes(kind)
  PROVE  /\ Head(toAgent) \in SockMsg /\ Head(toAgent).kind = kind
         /\ Head(toAgent).s \in Socks
         /\ 1 \in DOMAIN toAgent /\ toAgent[1] = Head(toAgent)
         /\ toAgent' \in Seq(SockMsg)
         /\ \A j \in DOMAIN toAgent' : j + 1 \in DOMAIN toAgent /\ j + 1 # 1
                                      /\ toAgent'[j] = toAgent[j + 1]
         /\ \A i, j \in DOMAIN toAgent' : i + 1 = j + 1 => i = j
         /\ \A s \in Socks : \A lo, hi :
              ~Of(Head(toAgent), "send", s) =>
                /\ Chained(toAgent, "send", s, lo, hi)
                     => Chained(toAgent', "send", s, lo, hi)
                /\ Complete(toAgent, "send", s, lo, hi)
                     => Complete(toAgent', "send", s, lo, hi)
<1>1. toAgent \in Seq(SockMsg) /\ toAgent # <<>> /\ toAgent' = Tail(toAgent)
      /\ Head(toAgent).kind = kind
  BY DEF AgentTakes, TypeOK
<1>2. /\ Head(toAgent) \in SockMsg /\ Tail(toAgent) \in Seq(SockMsg)
      /\ Head(toAgent) = toAgent[1] /\ 1 \in DOMAIN toAgent
      /\ \A j \in DOMAIN Tail(toAgent) : /\ j + 1 \in DOMAIN toAgent /\ j \in Nat
                                        /\ j + 1 # 1
                                        /\ Tail(toAgent)[j] = toAgent[j + 1]
  BY <1>1, TailIs
<1>3. Head(toAgent).s \in Socks
  BY <1>2 DEF SockMsg
<1>4. ASSUME NEW s \in Socks, NEW lo, NEW hi, ~Of(Head(toAgent), "send", s)
      PROVE  /\ Chained(toAgent, "send", s, lo, hi)
                  => Chained(Tail(toAgent), "send", s, lo, hi)
             /\ Complete(toAgent, "send", s, lo, hi)
                  => Complete(Tail(toAgent), "send", s, lo, hi)
  BY <1>1, <1>4, TailOther
<1>5. \A i, j \in DOMAIN Tail(toAgent) : i + 1 = j + 1 => i = j
  BY <1>2
<1> QED
  BY <1>1, <1>2, <1>3, <1>4, <1>5

\* The agent takes a message and does nothing else the sockets' streams or
\* the bridges depend on.
LEMMA TakesFlow ==
  ASSUME OInv, NEW kind, AgentTakes(kind),
         UNCHANGED <<line, conn, bridge, home, hold, out, toViewer, linkVars,
                     sockVars>>
  PROVE  Flow'
<1>1. TypeOK /\ Flow
  BY DEF OInv, Kept
<1>2. \A j \in DOMAIN toAgent' : j + 1 \in DOMAIN toAgent
                              /\ toAgent'[j] = toAgent[j + 1]
  BY <1>1, TakesKept
<1>3. \A i, j \in DOMAIN toAgent' : i + 1 = j + 1 => i = j
  BY <1>1, TakesKept
<1> QED
  BY <1>1, <1>2, <1>3 DEF Flow, Live, Begun, Has, linkVars, sockVars

LEMMA OnShellOpenKept == ASSUME OInv, OnShellOpen PROVE Kept'
<1> DEFINE m == Head(toAgent)
           s == m.s
<1>1. /\ AgentTakes("open")
      /\ UNCHANGED <<line, conn, hold, inq, out, got, room, toViewer, linkVars,
                     sockVars>>
  BY DEF OnShellOpen
<1>2. TypeOK /\ Flow /\ \A x \in Socks : Ordered(x)
  BY DEF OInv, Kept
<1>3. Of(m, "open", s) /\ s \in Socks /\ 1 \in DOMAIN toAgent /\ toAgent[1] = m
  BY <1>1, <1>2, TakesKept DEF Of
<1>4. /\ bridge[s] = "none" /\ want[s] = "no" /\ ready[s] # "none"
      /\ s \in reg => link = "up"
      /\ \A i \in DOMAIN toAgent : Of(toAgent[i], "open", s) => i = 1
  BY <1>2, <1>3 DEF Flow
<1>5. s \notin hold
  BY <1>2, <1>4 DEF TypeOK, AgentTypeOK
<1>6. /\ bridge' = [bridge EXCEPT ![s] = "spawned"]
      /\ home' = [home EXCEPT ![s] = conn]
  BY <1>5 DEF OnShellOpen, InMap
<1>7. /\ toAgent' \in Seq(SockMsg)
      /\ \A j \in DOMAIN toAgent' : j + 1 \in DOMAIN toAgent /\ j + 1 # 1
                                   /\ toAgent'[j] = toAgent[j + 1]
      /\ \A i, j \in DOMAIN toAgent' : i + 1 = j + 1 => i = j
  BY <1>1, <1>2, TakesKept
<1>8. \A x \in Socks : ~Of(m, "send", x)
  BY <1>3 DEF Of
<1>9. ASSUME NEW x \in Socks, NEW lo, NEW hi
      PROVE  /\ Chained(toAgent, "send", x, lo, hi)
                  => Chained(toAgent', "send", x, lo, hi)
             /\ Complete(toAgent, "send", x, lo, hi)
                  => Complete(toAgent', "send", x, lo, hi)
  BY <1>1, <1>2, <1>8, TakesKept
<1> HIDE DEF m, s
<1>10. TypeOK'
  <2>1. bridge' \in [Socks -> {"none", "spawned", "dialing", "up", "ended"}]
        /\ home' \in [Socks -> 0..conn]
    BY <1>2, <1>3, <1>6 DEF TypeOK, AgentTypeOK
  <2>2. hold \subseteq {x \in Socks : bridge'[x] \in {"dialing", "up"}}
    BY <1>2, <1>5, <1>6 DEF TypeOK, AgentTypeOK
  <2>3. AgentTypeOK'
    BY <1>1, <1>2, <2>1, <2>2 DEF TypeOK, AgentTypeOK
  <2> QED
    BY <1>1, <1>2, <1>7, <2>3 DEF TypeOK, PageTypeOK, linkVars, sockVars
<1>11. Flow'
  <2>1. \A j \in DOMAIN toAgent' : ~Of(toAgent'[j], "open", s)
    BY <1>4, <1>7
  <2>2. \A x \in Socks : Begun(x)' <=> Begun(x)
    BY <1>2, <1>3, <1>4, <1>6 DEF Begun, TypeOK, AgentTypeOK
  <2>3. \A x \in Socks : x # s => bridge'[x] = bridge[x] /\ home'[x] = home[x]
    BY <1>2, <1>6 DEF TypeOK, AgentTypeOK
  <2>4. bridge'[s] = "spawned"
    BY <1>2, <1>3, <1>6 DEF TypeOK, AgentTypeOK
  <2>5. /\ \A j \in DOMAIN toAgent' : \A x \in Socks :
            Of(toAgent'[j], "open", x) =>
              /\ bridge'[x] = "none" /\ want[x] = "no" /\ ready[x] # "none"
              /\ x \in reg => link = "up"
              /\ \A i \in DOMAIN toAgent' : Of(toAgent'[i], "open", x) => i = j
        /\ \A j \in DOMAIN toAgent' : \A x \in Socks :
            Of(toAgent'[j], "send", x) => Begun(x)' /\ toAgent'[j].n <= typed[x]
    BY <1>2, <1>7, <2>1, <2>2, <2>3 DEF Flow
  <2>6. \A x \in Socks :
         /\ Has(toViewer, "recv", x) => Begun(x)'
         /\ bridge'[x] = "none" => home'[x] = 0
         /\ bridge'[x] # "none" => /\ want[x] = "no" /\ ready[x] # "none"
                                   /\ x \in reg => link = "up"
         /\ ~Begun(x)' => out[x] = 0 /\ shown[x] = <<>> /\ ~opened[x]
         /\ bridge'[x] \in {"dialing", "up"} /\ Live(x)' => x \in hold
    BY <1>1, <1>2, <1>4, <2>2, <2>3, <2>4 DEF Flow, Live
  <2> QED
    BY <1>1, <1>2, <2>5, <2>6 DEF Flow, Live, Has, linkVars, sockVars
<1>12. ASSUME NEW x \in Socks PROVE Ordered(x)'
  <2>1. UNCHANGED <<reg, inq, got, typed, out, shown, line, conn, ready>>
    BY <1>1 DEF sockVars
  <2>2. Queued(x)' /\ Counts(shown[x])'
    BY <1>2, <2>1, QueuedKept DEF Ordered
  <2>3. CASE x = s
    <3>1. Keys(x)'
      <4>1. bridge'[x] = "spawned"
        BY <1>2, <1>6, <2>3 DEF TypeOK, AgentTypeOK
      <4> QED
        BY <4>1 DEF Keys
    <3>2. View(x)'
      <4>1. out[x] = 0 /\ Len(shown[x]) = 0
        BY <1>2, <1>4, <2>3 DEF Flow, Live, Begun
      <4>2. Complete(toViewer, "recv", x, Len(shown[x]), out[x])
        BY <4>1 DEF Complete
      <4>3. View(x)
        BY <1>2 DEF Ordered
      <4> QED
        BY <1>1, <2>1, <4>2, <4>3 DEF View
    <3> QED
      BY <2>2, <3>1, <3>2 DEF Ordered
  <2>4. CASE x # s
    <3>1. bridge'[x] = bridge[x] /\ home'[x] = home[x]
      BY <1>2, <1>6, <2>4 DEF TypeOK, AgentTypeOK
    <3>2. Keys(x)'
      BY <1>2, <1>9, <2>1, <3>1, KeysKept DEF Ordered
    <3>3. View(x)'
      BY <1>1, <1>2, <2>1, <3>1, ViewKept DEF Ordered, Live
    <3> QED
      BY <2>2, <3>2, <3>3 DEF Ordered
  <2> QED
    BY <2>3, <2>4
<1> QED
  BY <1>10, <1>11, <1>12 DEF Kept

LEMMA OnShellRefusedKept == ASSUME OInv, OnShellRefused PROVE Kept'
<1> DEFINE m == Msg("closed", Head(toAgent).s)
<1>1. /\ AgentTakes("open")
      /\ toViewer' \in {toViewer, Append(toViewer, m)}
      /\ link = "off" => toViewer' = toViewer
      /\ UNCHANGED <<agentVars, room, linkVars, sockVars>>
  BY DEF OnShellRefused, Tell
<1>2. TypeOK /\ Flow /\ \A x \in Socks : Ordered(x)
  BY DEF OInv, Kept
<1>3. m \in ViewerMsg /\ m.kind # "recv"
  BY <1>1, <1>2, TakesKept DEF Msg, ViewerMsg, SockMsg
<1>4. \A x \in Socks : ~Of(Head(toAgent), "send", x)
  BY <1>1, <1>2, TakesKept DEF Of
<1>5. /\ toAgent' \in Seq(SockMsg)
      /\ \A j \in DOMAIN toAgent' : j + 1 \in DOMAIN toAgent
                                   /\ toAgent'[j] = toAgent[j + 1]
      /\ \A i, j \in DOMAIN toAgent' : i + 1 = j + 1 => i = j
  BY <1>1, <1>2, TakesKept
<1>6. ASSUME NEW x \in Socks, NEW lo, NEW hi
      PROVE  /\ Chained(toAgent, "send", x, lo, hi)
                  => Chained(toAgent', "send", x, lo, hi)
             /\ Complete(toAgent, "send", x, lo, hi)
                  => Complete(toAgent', "send", x, lo, hi)
  BY <1>1, <1>2, <1>4, TakesKept
<1> HIDE DEF m
<1>7. TypeOK'
  <2>1. toViewer' \in Seq(ViewerMsg)
    BY <1>1, <1>2, <1>3, TellTyped
  <2>2. AgentTypeOK' /\ PageTypeOK'
    BY <1>1, <1>2
    DEF TypeOK, AgentTypeOK, PageTypeOK, agentVars, bridgeVars, sockVars
  <2> QED
    BY <1>1, <1>2, <1>5, <2>1, <2>2 DEF TypeOK, linkVars, ViewerMsg
<1>8. Flow'
  <2>1. toViewer' # <<>> => link = "up"
    BY <1>1, <1>2 DEF TypeOK, Flow
  <2>2. \A x \in Socks : Has(toViewer', "recv", x) => Has(toViewer, "recv", x)
    BY <1>1, <1>2, <1>3, TellTyped
  <2> QED
    BY <1>1, <1>2, <1>5, <2>1, <2>2
    DEF Flow, Live, Begun, agentVars, bridgeVars, linkVars, sockVars
<1>9. ASSUME NEW x \in Socks PROVE Ordered(x)'
  <2>1. /\ UNCHANGED <<reg, inq, got, typed, out, shown, bridge, line, home>>
        /\ UNCHANGED <<conn, ready>>
    BY <1>1 DEF agentVars, bridgeVars, sockVars
  <2>2. Queued(x)' /\ Counts(shown[x])' /\ Keys(x)'
    BY <1>2, <1>6, <2>1, QueuedKept, KeysKept DEF Ordered
  <2>3. View(x)'
    BY <1>1, <1>2, <1>3, <2>1, TellKept DEF View, Live, Ordered
  <2> QED
    BY <2>2, <2>3 DEF Ordered
<1> QED
  BY <1>7, <1>8, <1>9 DEF Kept

\* A message joins the queue of a bridge that is served.
LEMMA QueueGrows ==
  ASSUME TypeOK, NEW s \in Socks, Queued(s), Keys(s),
         NEW m \in SockMsg, m.s = s, m.kind \in {"send", "close"},
         toAgent # <<>>, Head(toAgent) = m,
         bridge[s] \in {"dialing", "up"}, line = "up", home[s] = conn,
         m.kind = "send" => bridge[s] = "up" /\ m.n <= typed[s],
         toAgent' = Tail(toAgent),
         inq'[s] = Append(inq[s], m),
         UNCHANGED <<got, typed, ready, bridge, line, home, conn>>
  PROVE  Queued(s)' /\ Keys(s)'
<1> DEFINE q == inq[s]
           r == Append(q, m)
           g == Len(got[s])
<1>1. q \in Seq(SockMsg) /\ got[s] \in Seq(Nat) /\ typed[s] \in Nat
      /\ toAgent \in Seq(SockMsg)
  BY DEF TypeOK, AgentTypeOK, PageTypeOK
<1>2. /\ DOMAIN r = 1..(Len(q) + 1) /\ DOMAIN q = 1..Len(q) /\ Len(q) \in Nat
      /\ \A i \in DOMAIN q : i \in DOMAIN r /\ r[i] = q[i]
      /\ r[Len(q) + 1] = m /\ Len(r) = Len(q) + 1
  BY <1>1
<1>3. g \in Nat
  BY <1>1
<1>4. inq'[s] = r /\ inq[s] = q /\ Len(got[s]) = g /\ Len(got'[s]) = g
  OBVIOUS
<1> HIDE DEF q, r, g
<1>5. Closing(q) \/ m.kind = "close" => Closing(r)
  BY <1>2 DEF Closing
<1>6. ASSUME ~Closing(q), m.kind = "send"
      PROVE  /\ Chained(toAgent, "send", s, Taken(s), typed[s])
             /\ Taken(s) = g + Len(q)
             /\ m.n = Taken(s) + 1
             /\ Chained(toAgent', "send", s, Taken(s) + 1, typed[s])
             /\ ready[s] = "open" =>
                  Complete(toAgent', "send", s, Taken(s) + 1, typed[s])
  <2>1. /\ Chained(toAgent, "send", s, Taken(s), typed[s])
        /\ ready[s] = "open" =>
             Complete(toAgent, "send", s, Taken(s), typed[s])
    BY <1>4, <1>6 DEF Keys
  <2>2. Taken(s) = g + Len(q) /\ Taken(s) \in Nat
    BY <1>2, <1>3, <1>4 DEF Taken
  <2>3. Of(Head(toAgent), "send", s)
    BY <1>6 DEF Of
  <2> QED
    BY <1>1, <2>1, <2>2, <2>3, TailThis
<1>7. Queued(s)'
  <2>1. ASSUME NEW i \in DOMAIN r
        PROVE  /\ r[i].kind \in {"send", "close"}
               /\ r[i].kind = "send" => r[i].n <= typed[s]
               /\ \/ \E j \in DOMAIN r : j <= i /\ r[j].kind = "close"
                  \/ r[i].n = g + i
    <3>1. CASE i \in DOMAIN q
      BY <1>2, <1>4, <3>1 DEF Queued
    <3>2. CASE i = Len(q) + 1
      <4>1. r[i] = m /\ i \in Nat
        BY <1>2, <3>2
      <4>2. CASE m.kind = "close"
        BY <4>1, <4>2
      <4>3. ASSUME m.kind = "send", Closing(q)
            PROVE  \E j \in DOMAIN r : j <= i /\ r[j].kind = "close"
        <5>1. PICK j \in DOMAIN q : q[j].kind = "close"
          BY <4>3 DEF Closing
        <5>2. j \in DOMAIN r /\ r[j] = q[j] /\ j <= i
          BY <1>2, <3>2, <5>1
        <5> QED
          BY <5>1, <5>2
      <4>4. ASSUME m.kind = "send", ~Closing(q)
            PROVE  r[i].n = g + i
        <5>1. m.n = g + Len(q) + 1
          BY <1>6, <4>4
        <5> QED
          BY <1>2, <1>3, <3>2, <4>1, <5>1
      <4> QED
        BY <4>1, <4>2, <4>3, <4>4
    <3> QED
      BY <1>2, <2>1, <3>1, <3>2
  <2> QED
    BY <1>4, <2>1 DEF Queued
<1>8. Keys(s)'
  <2>1. CASE Closing(q) \/ m.kind = "close"
    BY <1>4, <1>5, <2>1 DEF Keys
  <2>2. CASE ~Closing(q) /\ m.kind = "send"
    <3>1. Taken(s)' = Taken(s) + 1
      <4>1. Taken(s)' = g + Len(r) /\ Taken(s) = g + Len(q)
        BY <1>4 DEF Taken
      <4> QED
        BY <1>2, <1>3, <4>1
    <3> QED
      BY <1>6, <2>2, <3>1 DEF Keys
  <2> QED
    BY <2>1, <2>2
<1> QED
  BY <1>7, <1>8

LEMMA OnShellInputKept == ASSUME OInv, OnShellInput PROVE Kept'
<1> DEFINE m == Head(toAgent)
           s == m.s
<1>1. /\ AgentTakes("send") \/ AgentTakes("close")
      /\ inq' = IF InMap(s) THEN [inq EXCEPT ![s] = Append(@, m)] ELSE inq
      /\ UNCHANGED <<line, conn, bridge, home, hold, out, got, room, toViewer,
                     linkVars, sockVars>>
  BY DEF OnShellInput
<1>2. TypeOK /\ Flow /\ \A x \in Socks : Ordered(x)
  BY DEF OInv, Kept
<1>3. PICK kind \in {"send", "close"} : AgentTakes(kind)
  BY <1>1
<1>4. /\ m \in SockMsg /\ m.kind = kind /\ s \in Socks
      /\ 1 \in DOMAIN toAgent /\ toAgent[1] = m
      /\ toAgent' \in Seq(SockMsg)
  BY <1>2, <1>3, TakesKept
<1>5. toAgent # <<>> /\ toAgent' = Tail(toAgent)
  BY <1>3 DEF AgentTakes
<1>6. Flow'
  BY <1>1, <1>3, TakesFlow DEF linkVars
<1>7. ASSUME NEW x \in Socks, ~Of(m, "send", x), NEW lo, NEW hi
      PROVE  /\ Chained(toAgent, "send", x, lo, hi)
                  => Chained(toAgent', "send", x, lo, hi)
             /\ Complete(toAgent, "send", x, lo, hi)
                  => Complete(toAgent', "send", x, lo, hi)
  BY <1>2, <1>3, <1>7, TakesKept
<1>8. m.kind = "send" => Begun(s) /\ m.n <= typed[s]
  BY <1>2, <1>4 DEF Flow, Of
<1>9. m = Head(toAgent)
  OBVIOUS
<1> HIDE DEF m, s
<1>10. inq' \in [Socks -> Seq(SockMsg)]
  BY <1>1, <1>2, <1>4 DEF TypeOK, AgentTypeOK
<1>11. TypeOK'
  BY <1>1, <1>2, <1>4, <1>10
  DEF TypeOK, AgentTypeOK, PageTypeOK, linkVars, sockVars
<1>12. ASSUME NEW x \in Socks PROVE Ordered(x)'
  <2>1. /\ UNCHANGED <<reg, got, typed, out, shown, line, conn, ready, bridge>>
        /\ UNCHANGED <<home, toViewer>>
    BY <1>1 DEF sockVars
  <2>2. View(x)' /\ Counts(shown[x])'
    BY <1>2, <2>1, ViewKept DEF Ordered, Live
  <2>3. CASE x = s /\ InMap(s)
    <3>1. /\ inq'[x] = Append(inq[x], m) /\ m.s = x
          /\ bridge[x] \in {"dialing", "up"} /\ line = "up" /\ home[x] = conn
      BY <1>1, <1>2, <1>3, <2>3 DEF TypeOK, AgentTypeOK, InMap, AgentTakes, s
    <3>2. m.kind = "send" => bridge[x] = "up" /\ m.n <= typed[x]
      BY <1>8, <2>3, <3>1 DEF Begun
    <3>3. Queued(x)' /\ Keys(x)'
      BY <1>2, <1>4, <1>5, <1>9, <2>1, <3>1, <3>2, QueueGrows DEF Ordered
    <3> QED
      BY <2>2, <3>3 DEF Ordered
  <2>4. CASE x = s /\ ~InMap(s)
    <3>1. inq'[x] = inq[x]
      BY <1>1, <2>4
    <3>2. ~(bridge[x] = "up" /\ line = "up" /\ home[x] = conn)
      BY <1>2, <2>4 DEF InMap, Flow, Live
    <3>3. Keys(x)'
      BY <2>1, <3>2 DEF Keys
    <3>4. Queued(x)'
      BY <1>2, <2>1, <3>1, QueuedKept DEF Ordered
    <3> QED
      BY <2>2, <3>3, <3>4 DEF Ordered
  <2>5. CASE x # s
    <3>1. inq'[x] = inq[x]
      BY <1>1, <1>2, <2>5 DEF TypeOK, AgentTypeOK
    <3>2. ~Of(m, "send", x)
      BY <2>5 DEF Of, s
    <3>3. Keys(x)'
      BY <1>2, <1>7, <2>1, <3>1, <3>2, KeysKept DEF Ordered
    <3>4. Queued(x)'
      BY <1>2, <2>1, <3>1, QueuedKept DEF Ordered
    <3> QED
      BY <2>2, <3>3, <3>4 DEF Ordered
  <2> QED
    BY <2>3, <2>4, <2>5
<1> QED
  BY <1>6, <1>11, <1>12 DEF Kept

----------------------------------------------------------------------------
(* One bridge *)

\* A bridge moves on; whether it had begun only matters to what follows.
LEMMA BridgeMoves ==
  ASSUME OInv, NEW s \in Socks, bridge[s] # "none",
         NEW b \in {"dialing", "up", "ended"}, Begun(s) => b \in {"up", "ended"},
         bridge' = [bridge EXCEPT ![s] = b],
         UNCHANGED <<line, conn, home, toAgent, linkVars, sockVars>>,
         out' \in [Socks -> Nat],
         \A x \in Socks : out'[x] = out[x] \/ (x = s /\ b \in {"up", "ended"}),
         toViewer' # <<>> => link = "up",
         \A x \in Socks : Has(toViewer', "recv", x) =>
                            Has(toViewer, "recv", x) \/ (x = s /\ Begun(s)),
         hold \ {s} = hold' \ {s},
         \/ b = "ended" \/ s \in hold'
         \/ bridge[s] \in {"dialing", "up"} /\ hold' = hold
  PROVE  Flow'
<1>1. TypeOK /\ Flow
  BY DEF OInv, Kept
<1>2. /\ bridge'[s] = b
      /\ \A x \in Socks : x # s => bridge'[x] = bridge[x]
  BY <1>1 DEF TypeOK, AgentTypeOK
<1>3. \A x \in Socks : Begun(x) => Begun(x)'
  BY <1>2 DEF Begun
<1>4. \A x \in Socks : bridge'[x] = "none" <=> bridge[x] = "none"
  BY <1>2
<1>5. \A x \in Socks : ~Begun(x)' => ~Begun(x) /\ out'[x] = out[x]
  BY <1>2, <1>3 DEF Begun
<1>6. UNCHANGED <<want, ready, reg, link, typed, opened, shown>>
  BY DEF linkVars, sockVars
<1>7. \A x \in Socks :
        bridge'[x] \in {"dialing", "up"} /\ Live(x)' => x \in hold'
  BY <1>1, <1>2 DEF Flow, Live
<1>8. \A x \in Socks : Has(toViewer, "recv", x)' => Begun(x)'
  <2>1. ASSUME NEW x \in Socks, Has(toViewer', "recv", x) PROVE Begun(x)'
    BY <1>1, <1>3, <2>1 DEF Flow
  <2> QED
    BY <2>1 DEF Has
<1> QED
  BY <1>1, <1>3, <1>4, <1>5, <1>6, <1>7, <1>8 DEF Flow

LEMMA InsertKept == ASSUME OInv, NEW s \in Socks, Insert(s) PROVE Kept'
<1>1. /\ bridge[s] = "spawned" /\ bridge' = [bridge EXCEPT ![s] = "dialing"]
      /\ hold' = hold \cup {s}
      /\ UNCHANGED <<line, conn, home, inq, out, got, netVars, linkVars,
                     sockVars>>
  BY DEF Insert
<1>2. TypeOK /\ Flow /\ \A x \in Socks : Ordered(x)
  BY DEF OInv, Kept
<1>3. TypeOK'
  BY <1>1, <1>2 DEF TypeOK, AgentTypeOK, PageTypeOK, netVars, linkVars,
                    sockVars
<1>4. Flow'
  <2>1. ~Begun(s) /\ bridge[s] # "none"
    BY <1>1 DEF Begun
  <2>2. hold \ {s} = hold' \ {s} /\ s \in hold'
    BY <1>1
  <2>3. /\ UNCHANGED <<toAgent, toViewer, out, line, conn, home>>
        /\ UNCHANGED <<linkVars, sockVars>>
    BY <1>1 DEF netVars
  <2>4. out' \in [Socks -> Nat] /\ (toViewer' # <<>> => link = "up")
    BY <1>2, <2>3 DEF TypeOK, AgentTypeOK, Flow
  <2>5. /\ \A x \in Socks : out'[x] = out[x]
        /\ \A x \in Socks : Has(toViewer', "recv", x) = Has(toViewer, "recv", x)
    BY <2>3
  <2> QED
    BY <1>1, <2>1, <2>2, <2>3, <2>4, <2>5, BridgeMoves
<1>5. ASSUME NEW x \in Socks PROVE Ordered(x)'
  <2>1. /\ UNCHANGED <<reg, inq, got, typed, out, shown, line, conn, ready>>
        /\ UNCHANGED <<home, toViewer, toAgent>>
        /\ bridge'[x] = "up" => bridge[x] = "up"
    BY <1>1, <1>2 DEF netVars, sockVars, TypeOK, AgentTypeOK
  <2>2. Queued(x)' /\ Keys(x)' /\ View(x)' /\ Counts(shown[x])'
    BY <1>2, <2>1, QueuedKept, KeysKept, ViewKept DEF Ordered, Live
  <2> QED
    BY <2>2 DEF Ordered
<1> QED
  BY <1>3, <1>4, <1>5 DEF Kept

LEMMA DialedKept == ASSUME OInv, NEW s \in Socks, Dialed(s) PROVE Kept'
<1>1. /\ bridge[s] = "dialing" /\ bridge' = [bridge EXCEPT ![s] = "up"]
      /\ UNCHANGED <<line, conn, home, hold, inq, out, got, netVars, linkVars,
                     sockVars>>
  BY DEF Dialed
<1>2. TypeOK /\ Flow /\ \A x \in Socks : Ordered(x)
  BY DEF OInv, Kept
<1>3. TypeOK'
  BY <1>1, <1>2 DEF TypeOK, AgentTypeOK, PageTypeOK, netVars, linkVars,
                    sockVars
<1>4. Flow'
  BY <1>1, <1>2, BridgeMoves
  DEF netVars, Begun, TypeOK, AgentTypeOK, Flow, linkVars
<1>5. ASSUME NEW x \in Socks PROVE Ordered(x)'
  <2>1. /\ UNCHANGED <<reg, inq, got, typed, out, shown, line, conn, ready>>
        /\ UNCHANGED <<home, toViewer, toAgent>>
        /\ x # s => bridge'[x] = bridge[x]
    BY <1>1, <1>2 DEF netVars, sockVars, TypeOK, AgentTypeOK
  <2>2. Queued(x)' /\ View(x)' /\ Counts(shown[x])'
    BY <1>2, <2>1, QueuedKept, ViewKept DEF Ordered, Live
  <2>3. Keys(x)'
    <3>1. CASE x # s
      BY <1>2, <2>1, <3>1, KeysKept DEF Ordered
    <3>2. CASE x = s
      <4>1. ~Begun(x) /\ ready[x] # "open" /\ ~Has(toAgent, "send", x)
        BY <1>1, <1>2, <3>2 DEF Begun, Flow, Has
      <4> QED
        BY <2>1, <4>1, NoneChained DEF Keys
    <3> QED
      BY <3>1, <3>2
  <2> QED
    BY <2>2, <2>3 DEF Ordered
<1> QED
  BY <1>3, <1>4, <1>5 DEF Kept

LEMMA EndedKept ==
  ASSUME OInv, NEW s \in Socks, bridge[s] \in {"dialing", "up"}, Ended(s),
         toViewer' \in {toViewer, Append(toViewer, Msg("closed", s))},
         link = "off" => toViewer' = toViewer, got' = got
  PROVE  Kept'
<1> DEFINE m == Msg("closed", s)
<1>1. /\ bridge' = [bridge EXCEPT ![s] = "ended"]
      /\ hold' = hold \ {s} /\ inq' = [inq EXCEPT ![s] = <<>>]
      /\ toViewer' \in {toViewer, Append(toViewer, m)}
      /\ UNCHANGED <<line, conn, home, out, got, room, toAgent, linkVars,
                     sockVars>>
  BY DEF Ended
<1>2. TypeOK /\ Flow /\ \A x \in Socks : Ordered(x)
  BY DEF OInv, Kept
<1>3. m \in ViewerMsg /\ m.kind # "recv"
  BY DEF Msg, ViewerMsg, SockMsg
<1> HIDE DEF m
<1>4. TypeOK'
  <2>1. toViewer' \in Seq(ViewerMsg)
    BY <1>1, <1>2, <1>3, TellTyped
  <2>2. PageTypeOK'
    BY <1>1, <1>2 DEF TypeOK, PageTypeOK, sockVars
  <2>3. /\ bridge' \in [Socks -> {"none", "spawned", "dialing", "up", "ended"}]
        /\ inq' \in [Socks -> Seq(SockMsg)]
    BY <1>1, <1>2 DEF TypeOK, AgentTypeOK
  <2>5. hold' \subseteq {x \in Socks : bridge'[x] \in {"dialing", "up"}}
    BY <1>1, <1>2 DEF TypeOK, AgentTypeOK
  <2>4. AgentTypeOK'
    BY <1>1, <1>2, <2>3, <2>5 DEF TypeOK, AgentTypeOK
  <2> QED
    BY <1>1, <1>2, <2>1, <2>2, <2>4 DEF TypeOK, linkVars, ViewerMsg
<1>5. Flow'
  <2>1. toViewer' # <<>> => link = "up"
    BY <1>1, <1>2 DEF TypeOK, Flow
  <2>2. \A x \in Socks : Has(toViewer', "recv", x) => Has(toViewer, "recv", x)
    BY <1>1, <1>2, <1>3, TellTyped
  <2> QED
    BY <1>1, <1>2, <2>1, <2>2, BridgeMoves DEF TypeOK, AgentTypeOK
<1>6. ASSUME NEW x \in Socks PROVE Ordered(x)'
  <2>1. /\ UNCHANGED <<reg, got, typed, out, shown, line, conn, ready, home>>
        /\ toAgent' = toAgent
    BY <1>1 DEF sockVars
  <2>2. View(x)' /\ Counts(shown[x])'
    BY <1>1, <1>2, <1>3, <2>1, TellKept DEF View, Live, Ordered
  <2>3. CASE x = s
    <3>1. inq'[x] = <<>> /\ bridge'[x] = "ended"
      BY <1>1, <1>2, <2>3 DEF TypeOK, AgentTypeOK
    <3>2. Queued(x)' /\ Keys(x)'
      BY <1>2, <2>1, <3>1 DEF Queued, Keys, Ordered
    <3> QED
      BY <2>2, <3>2 DEF Ordered
  <2>4. CASE x # s
    <3>1. inq'[x] = inq[x] /\ bridge'[x] = bridge[x]
      BY <1>1, <1>2, <2>4 DEF TypeOK, AgentTypeOK
    <3>2. Queued(x)' /\ Keys(x)'
      BY <1>2, <2>1, <3>1, QueuedKept, KeysKept DEF Ordered
    <3> QED
      BY <2>2, <3>2 DEF Ordered
  <2> QED
    BY <2>3, <2>4
<1> QED
  BY <1>4, <1>5, <1>6 DEF Kept

LEMMA LocalEndsKept ==
  ASSUME OInv, NEW s \in Socks,
         DialFails(s) \/ LocalCloses(s) \/ LocalBreaks(s)
  PROVE  Kept'
<1>1. bridge[s] \in {"dialing", "up"} /\ Ended(s) /\ got' = got
  BY DEF DialFails, LocalCloses, LocalBreaks
<1>2. /\ toViewer' \in {toViewer, Append(toViewer, Msg("closed", s))}
      /\ link = "off" => toViewer' = toViewer
  BY DEF DialFails, LocalCloses, LocalBreaks, Emit, Tell
<1> QED
  BY <1>1, <1>2, EndedKept

\* The shell gets the keystroke at the head of the queue.
LEMMA QueueServed ==
  ASSUME TypeOK, NEW s \in Socks, Queued(s), Keys(s),
         inq[s] # <<>>, Head(inq[s]).kind = "send",
         got'[s] = Append(got[s], Head(inq[s]).n), inq'[s] = Tail(inq[s]),
         UNCHANGED <<typed, ready, bridge, line, home, conn, toAgent>>
  PROVE  Queued(s)' /\ Keys(s)' /\ got'[s] \in Seq(Nat)
         /\ inq'[s] \in Seq(SockMsg)
<1> DEFINE q == inq[s]
           r == Tail(q)
           g == got[s]
           k == Len(got[s])
           n == Head(inq[s]).n
<1>1. q \in Seq(SockMsg) /\ g \in Seq(Nat) /\ k = Len(g) /\ k \in Nat
      /\ typed[s] \in Nat
  BY DEF TypeOK, AgentTypeOK, PageTypeOK
<1>2. /\ r \in Seq(SockMsg) /\ Len(q) \in Nat /\ Len(q) # 0
      /\ DOMAIN q = 1..Len(q) /\ DOMAIN r = 1..(Len(q) - 1)
      /\ \A i \in DOMAIN r : r[i] = q[i + 1]
      /\ q[1].kind = "send" /\ n = q[1].n /\ q[1] \in SockMsg
      /\ Len(r) = Len(q) - 1
  BY <1>1, TailIs
<1>3. /\ inq'[s] = r /\ inq[s] = q /\ got[s] = g /\ got'[s] = Append(g, n)
  OBVIOUS
<1>4. n \in Nat
  BY <1>2 DEF SockMsg
<1>5. /\ \A i \in DOMAIN q :
           /\ q[i].kind \in {"send", "close"}
           /\ q[i].kind = "send" => q[i].n <= typed[s]
           /\ \/ \E j \in DOMAIN q : j <= i /\ q[j].kind = "close"
              \/ q[i].n = k + i
      /\ Counts(g)
  BY DEF Queued
<1> HIDE DEF q, r, n, k, g
<1>6. n = k + 1 /\ n <= typed[s]
  <2>1. 1 \in DOMAIN q /\ \A j \in DOMAIN q : j <= 1 => j = 1
    BY <1>2
  <2> QED
    BY <1>1, <1>2, <1>5, <2>1
<1>7. Counts(Append(g, n)) /\ Len(Append(g, n)) = k + 1
      /\ Append(g, n) \in Seq(Nat)
  BY <1>1, <1>4, <1>5, <1>6, CountsAppend
<1>8. ASSUME NEW i \in DOMAIN r
      PROVE  /\ r[i].kind \in {"send", "close"}
             /\ r[i].kind = "send" => r[i].n <= typed[s]
             /\ \/ \E j \in DOMAIN r : j <= i /\ r[j].kind = "close"
                \/ r[i].n = k + 1 + i
  <2>1. i + 1 \in DOMAIN q /\ r[i] = q[i + 1] /\ i \in Nat
    <3>1. i \in 1..Len(r) /\ Len(r) \in Nat
      BY <1>2
    <3> QED
      BY <1>2, <3>1
  <2>2. k + (i + 1) = k + 1 + i
    <3>1. k \in Nat /\ i \in Nat
      BY <1>1, <2>1
    <3> QED
      BY <3>1
  <2>3. ASSUME NEW j \in DOMAIN q, j <= i + 1, q[j].kind = "close"
        PROVE  \E h \in DOMAIN r : h <= i /\ r[h].kind = "close"
    <3>1. j - 1 \in DOMAIN r /\ r[j - 1] = q[j]
      BY <1>2, <2>3
    <3>2. j - 1 <= i
      BY <1>2, <2>1, <2>3
    <3> QED
      BY <2>3, <3>1, <3>2
  <2> QED
    BY <1>5, <2>1, <2>2, <2>3
<1>9. Queued(s)'
  <2>1. Len(got'[s]) = k + 1 /\ inq'[s] = r /\ typed'[s] = typed[s]
        /\ Counts(got'[s])
    BY <1>3, <1>7
  <2> QED
    BY <1>6, <1>8, <2>1 DEF Queued
<1>10. Taken(s)' = Taken(s)
  <2>1. Taken(s)' = (k + 1) + (Len(q) - 1) /\ Taken(s) = k + Len(q)
    BY <1>1, <1>2, <1>3, <1>7 DEF Taken
  <2> QED
    BY <1>1, <1>2, <2>1
<1>11. Closing(q) => Closing(r)
  <2> SUFFICES ASSUME NEW j \in DOMAIN q, q[j].kind = "close"
               PROVE  Closing(r)
    BY DEF Closing
  <2>1. j - 1 \in DOMAIN r /\ r[j - 1] = q[j]
    BY <1>2
  <2> QED
    BY <2>1 DEF Closing
<1>12. Keys(s)'
  BY <1>3, <1>10, <1>11 DEF Keys
<1> QED
  BY <1>2, <1>3, <1>7, <1>9, <1>12

LEMMA FromQueueKept ==
  ASSUME OInv, NEW s \in Socks, FromQueue(s) PROVE Kept'
<1> TypeOK /\ Flow /\ \A x \in Socks : Ordered(x)
  BY DEF OInv, Kept
<1>1. CASE inq[s] # <<>> /\ Head(inq[s]).kind = "send"
  <2>1. /\ bridge[s] = "up"
        /\ got' = [got EXCEPT ![s] = Append(@, Head(inq[s]).n)]
        /\ inq' = [inq EXCEPT ![s] = Tail(@)]
        /\ UNCHANGED <<line, conn, bridge, home, hold, out, netVars,
                       linkVars, sockVars>>
    BY <1>1 DEF FromQueue
  <2>2. /\ UNCHANGED <<reg, typed, out, shown, line, conn, ready, home>>
        /\ UNCHANGED <<toAgent, toViewer, bridge>>
    BY <2>1 DEF sockVars, netVars
  <2>3. /\ got'[s] = Append(got[s], Head(inq[s]).n) /\ inq'[s] = Tail(inq[s])
        /\ \A x \in Socks : x # s => got'[x] = got[x] /\ inq'[x] = inq[x]
    BY <2>1 DEF TypeOK, AgentTypeOK
  <2>4. /\ Queued(s)' /\ Keys(s)' /\ got'[s] \in Seq(Nat)
        /\ inq'[s] \in Seq(SockMsg)
    BY <1>1, <2>2, <2>3, QueueServed DEF Ordered
  <2>5. TypeOK'
    <3>1. got' \in [Socks -> Seq(Nat)] /\ inq' \in [Socks -> Seq(SockMsg)]
      BY <2>1, <2>3, <2>4 DEF TypeOK, AgentTypeOK
    <3> QED
      BY <2>1, <3>1 DEF TypeOK, AgentTypeOK, PageTypeOK, netVars, linkVars,
                        sockVars
  <2>6. Flow'
    BY <2>1 DEF Flow, Live, Begun, Has, netVars, linkVars, sockVars
  <2>7. ASSUME NEW x \in Socks PROVE Ordered(x)'
    <3>1. View(x)' /\ Counts(shown[x])'
      BY <2>2, ViewKept DEF Ordered, Live
    <3>2. Queued(x)' /\ Keys(x)'
      BY <2>2, <2>3, <2>4, QueuedKept, KeysKept DEF Ordered
    <3> QED
      BY <3>1, <3>2 DEF Ordered
  <2> QED
    BY <2>5, <2>6, <2>7 DEF Kept
<1>2. CASE ~(inq[s] # <<>> /\ Head(inq[s]).kind = "send")
  <2>1. bridge[s] = "up" /\ Ended(s) /\ UNCHANGED <<toViewer, got>>
    BY <1>2 DEF FromQueue
  <2> QED
    BY <2>1, EndedKept
<1> QED
  BY <1>1, <1>2

LEMMA OutputKept == ASSUME OInv, NEW s \in Socks, Output(s) PROVE Kept'
<1> DEFINE m == Piece("recv", s, out[s] + 1)
<1>1. /\ bridge[s] = "up"
      /\ out' = [out EXCEPT ![s] = @ + 1]
      /\ toViewer' = IF Live(s) /\ link = "up" THEN Append(toViewer, m)
                                               ELSE toViewer
      /\ UNCHANGED <<line, conn, bridge, home, hold, inq, got, room, toAgent,
                     linkVars, sockVars>>
  BY DEF Output, Emit, Tell
<1>2. TypeOK /\ Flow /\ \A x \in Socks : Ordered(x)
  BY DEF OInv, Kept
<1>3. out[s] \in Nat /\ toViewer \in Seq(ViewerMsg)
  BY <1>2 DEF TypeOK, AgentTypeOK, ViewerMsg
<1>4. /\ m \in ViewerMsg /\ Of(m, "recv", s) /\ m.n = out[s] + 1
      /\ \A x \in Socks : x # s => ~Of(m, "recv", x)
  BY <1>3 DEF Piece, ViewerMsg, SockMsg, Of
<1> HIDE DEF m
<1>5. toViewer' \in Seq(ViewerMsg) /\ out' \in [Socks -> Nat]
      /\ out'[s] = out[s] + 1 /\ \A x \in Socks : x # s => out'[x] = out[x]
  BY <1>1, <1>2, <1>3, <1>4 DEF TypeOK, AgentTypeOK
<1>6. TypeOK'
  BY <1>1, <1>2, <1>5
  DEF TypeOK, AgentTypeOK, PageTypeOK, linkVars, sockVars, ViewerMsg
<1>7. \A x \in Socks : x # s =>
        (Has(toViewer', "recv", x) => Has(toViewer, "recv", x))
  BY <1>1, <1>3, <1>4, AppendOther
<1>8. Flow'
  <2>1. Begun(s) /\ bridge' = [bridge EXCEPT ![s] = "up"]
    BY <1>1, <1>2 DEF Begun, TypeOK, AgentTypeOK
  <2>2. toViewer' # <<>> => link = "up"
    BY <1>1, <1>2 DEF Flow
  <2> QED
    BY <1>1, <1>2, <1>5, <1>7, <2>1, <2>2, BridgeMoves
<1>9. ASSUME NEW x \in Socks PROVE Ordered(x)'
  <2>1. /\ UNCHANGED <<reg, got, inq, typed, shown, line, conn, ready, home>>
        /\ UNCHANGED <<toAgent, bridge, link>>
    BY <1>1 DEF sockVars, linkVars
  <2>2. Queued(x)' /\ Keys(x)' /\ Counts(shown[x])'
    BY <1>2, <2>1, QueuedKept, KeysKept DEF Ordered
  <2>3. View(x)'
    <3>1. CASE x # s
      <4>1. ~Of(m, "recv", x) /\ out'[x] = out[x]
        BY <1>4, <1>5, <3>1
      <4>2. \A lo, hi :
             /\ Chained(toViewer, "recv", x, lo, hi)
                  => Chained(toViewer', "recv", x, lo, hi)
             /\ Complete(toViewer, "recv", x, lo, hi)
                  => Complete(toViewer', "recv", x, lo, hi)
        BY <1>1, <1>3, <1>4, <4>1, AppendOther
      <4> QED
        BY <1>2, <2>1, <4>1, <4>2, ViewKept DEF Ordered, Live
    <3>2. CASE x = s /\ x \in reg
      <4> DEFINE lo == Len(shown[s])
                 hi == out[s]
      <4>1. Chained(toViewer, "recv", s, lo, hi)
            /\ (Live(s) => Complete(toViewer, "recv", s, lo, hi))
        BY <1>2, <3>2 DEF Ordered, View
      <4>2. lo \in Nat /\ hi \in Nat
        BY <1>2, <1>3 DEF TypeOK, PageTypeOK
      <4>3. link = "up"
        BY <1>1, <1>2, <3>2 DEF Flow
      <4>4. lo' = lo /\ hi' = hi + 1 /\ (Live(s)' <=> Live(s))
        BY <1>5, <2>1 DEF Live
      <4> HIDE DEF lo, hi
      <4>5. CASE Live(s)
        <5>1. toViewer' = Append(toViewer, m)
          BY <1>1, <4>3, <4>5
        <5>2. lo <= hi
          BY <1>3, <4>1, <4>2, <4>5 DEF Complete, Chained
        <5>3. m.n = hi + 1
          BY <1>4 DEF hi
        <5>4. /\ Chained(toViewer', "recv", s, lo, hi + 1)
              /\ Complete(toViewer', "recv", s, lo, hi + 1)
          BY <1>3, <1>4, <4>1, <4>2, <4>5, <5>1, <5>2, <5>3, AppendNext
        <5> QED
          BY <3>2, <4>4, <5>4 DEF View, lo, hi
      <4>6. CASE ~Live(s)
        <5>1. Chained(toViewer', "recv", s, lo, hi + 1)
          BY <1>1, <1>3, <4>1, <4>2, <4>6, ChainedGrows
        <5> QED
          BY <3>2, <4>4, <4>6, <5>1 DEF View, lo, hi
      <4> QED
        BY <4>5, <4>6
    <3>3. CASE x \notin reg
      BY <2>1, <3>3 DEF View
    <3> QED
      BY <3>1, <3>2, <3>3
  <2> QED
    BY <2>2, <2>3 DEF Ordered
<1> QED
  BY <1>6, <1>8, <1>9 DEF Kept

----------------------------------------------------------------------------
(* Steps of the page that carry neither keystrokes nor output *)

LEMMA QuietChannels ==
  ASSUME TypeOK,
         \/ toViewer' = toViewer
         \/ /\ toViewer # <<>> /\ Head(toViewer).kind # "recv"
            /\ toViewer' = Tail(toViewer),
         \/ toAgent' = toAgent
         \/ \E m \in SockMsg : m.kind = "close" /\ toAgent' = Append(toAgent, m)
  PROVE  /\ toViewer' \in Seq(ViewerMsg) /\ toAgent' \in Seq(SockMsg)
         /\ toViewer' # <<>> => toViewer # <<>>
         /\ \A x : Has(toViewer', "recv", x) => Has(toViewer, "recv", x)
         /\ \A x, lo, hi :
              /\ Chained(toViewer, "recv", x, lo, hi)
                   => Chained(toViewer', "recv", x, lo, hi)
              /\ Complete(toViewer, "recv", x, lo, hi)
                   => Complete(toViewer', "recv", x, lo, hi)
              /\ Chained(toAgent, "send", x, lo, hi)
                   => Chained(toAgent', "send", x, lo, hi)
              /\ Complete(toAgent, "send", x, lo, hi)
                   => Complete(toAgent', "send", x, lo, hi)
         /\ \A j \in DOMAIN toAgent' :
              \/ toAgent'[j].kind = "close"
              \/ j \in DOMAIN toAgent /\ toAgent'[j] = toAgent[j]
<1>1. toViewer \in Seq(ViewerMsg) /\ toAgent \in Seq(SockMsg)
  BY DEF TypeOK, ViewerMsg
<1>2. /\ toViewer' \in Seq(ViewerMsg)
      /\ toViewer' # <<>> => toViewer # <<>>
      /\ \A x : Has(toViewer', "recv", x) => Has(toViewer, "recv", x)
      /\ \A x, lo, hi :
           /\ Chained(toViewer, "recv", x, lo, hi)
                => Chained(toViewer', "recv", x, lo, hi)
           /\ Complete(toViewer, "recv", x, lo, hi)
                => Complete(toViewer', "recv", x, lo, hi)
  <2>1. CASE toViewer' = toViewer
    BY <1>1, <2>1
  <2>2. CASE toViewer # <<>> /\ Head(toViewer).kind # "recv"
               /\ toViewer' = Tail(toViewer)
    <3>1. \A x : ~Of(Head(toViewer), "recv", x)
      BY <2>2 DEF Of
    <3>2. /\ Tail(toViewer) \in Seq(ViewerMsg)
          /\ \A i \in DOMAIN Tail(toViewer) :
               i + 1 \in DOMAIN toViewer /\ Tail(toViewer)[i] = toViewer[i + 1]
      BY <1>1, <2>2, TailIs
    <3>3. \A x : Has(Tail(toViewer), "recv", x) => Has(toViewer, "recv", x)
      BY <3>2 DEF Has
    <3>4. \A x, lo, hi :
           /\ Chained(toViewer, "recv", x, lo, hi)
                => Chained(Tail(toViewer), "recv", x, lo, hi)
           /\ Complete(toViewer, "recv", x, lo, hi)
                => Complete(Tail(toViewer), "recv", x, lo, hi)
      BY <1>1, <2>2, <3>1, TailOther
    <3> QED
      BY <2>2, <3>2, <3>3, <3>4
  <2> QED
    BY <2>1, <2>2
<1>3. /\ toAgent' \in Seq(SockMsg)
      /\ \A x, lo, hi :
           /\ Chained(toAgent, "send", x, lo, hi)
                => Chained(toAgent', "send", x, lo, hi)
           /\ Complete(toAgent, "send", x, lo, hi)
                => Complete(toAgent', "send", x, lo, hi)
      /\ \A j \in DOMAIN toAgent' :
           \/ toAgent'[j].kind = "close"
           \/ j \in DOMAIN toAgent /\ toAgent'[j] = toAgent[j]
  <2>1. CASE toAgent' = toAgent
    BY <1>1, <2>1
  <2>2. ASSUME NEW m \in SockMsg, m.kind = "close",
               toAgent' = Append(toAgent, m)
        PROVE  <1>3
    <3>1. \A x : ~Of(m, "send", x)
      BY <2>2 DEF Of
    <3>2. /\ Append(toAgent, m) \in Seq(SockMsg)
          /\ \A j \in DOMAIN Append(toAgent, m) :
               \/ Append(toAgent, m)[j] = m
               \/ j \in DOMAIN toAgent /\ Append(toAgent, m)[j] = toAgent[j]
      BY <1>1
    <3>3. \A x, lo, hi :
           /\ Chained(toAgent, "send", x, lo, hi)
                => Chained(Append(toAgent, m), "send", x, lo, hi)
           /\ Complete(toAgent, "send", x, lo, hi)
                => Complete(Append(toAgent, m), "send", x, lo, hi)
      BY <1>1, <3>1, AppendOther
    <3> QED
      BY <2>2, <3>2, <3>3
  <2> QED
    BY <2>1, <2>2
<1> QED
  BY <1>2, <1>3

LEMMA QuietKept ==
  ASSUME OInv, PageTypeOK',
         UNCHANGED <<agentVars, room, link, links, shown, opened, typed>>,
         presence' \in {"unknown", "on", "off"},
         \/ toViewer' = toViewer
         \/ /\ toViewer # <<>> /\ Head(toViewer).kind # "recv"
            /\ toViewer' = Tail(toViewer),
         \/ toAgent' = toAgent
         \/ \E m \in SockMsg : m.kind = "close" /\ toAgent' = Append(toAgent, m),
         reg' \subseteq reg,
         \A x \in Socks : /\ ready'[x] = "open" => ready[x] = "open" /\ x \in reg'
                          /\ ready'[x] = "none" => ready[x] = "none"
                          /\ want[x] = "no" /\ ready[x] # "none"
                               => want'[x] = "no"
  PROVE  Kept'
<1>1. TypeOK /\ Flow /\ \A x \in Socks : Ordered(x)
  BY DEF OInv, Kept
<1>2. /\ toViewer' \in Seq(ViewerMsg) /\ toAgent' \in Seq(SockMsg)
      /\ toViewer' # <<>> => toViewer # <<>>
      /\ \A x : Has(toViewer', "recv", x) => Has(toViewer, "recv", x)
      /\ \A x, lo, hi :
           /\ Chained(toViewer, "recv", x, lo, hi)
                => Chained(toViewer', "recv", x, lo, hi)
           /\ Complete(toViewer, "recv", x, lo, hi)
                => Complete(toViewer', "recv", x, lo, hi)
           /\ Chained(toAgent, "send", x, lo, hi)
                => Chained(toAgent', "send", x, lo, hi)
           /\ Complete(toAgent, "send", x, lo, hi)
                => Complete(toAgent', "send", x, lo, hi)
      /\ \A j \in DOMAIN toAgent' :
           \/ toAgent'[j].kind = "close"
           \/ j \in DOMAIN toAgent /\ toAgent'[j] = toAgent[j]
  BY <1>1, QuietChannels
<1>3. /\ UNCHANGED <<line, conn, bridge, home, hold, inq, out, got>>
      /\ UNCHANGED <<room, link, links, shown, opened, typed>>
  BY DEF agentVars, bridgeVars
<1>4. TypeOK'
  BY <1>1, <1>2, <1>3 DEF TypeOK, AgentTypeOK, ViewerMsg
<1>5. Flow'
  <2>1. \A x \in Socks : Begun(x)' <=> Begun(x)
    BY <1>3 DEF Begun
  <2>2. \A j \in DOMAIN toAgent' : \A x \in Socks :
          Of(toAgent'[j], "open", x) =>
            /\ bridge[x] = "none" /\ want'[x] = "no" /\ ready'[x] # "none"
            /\ x \in reg' => link = "up"
            /\ \A i \in DOMAIN toAgent' : Of(toAgent'[i], "open", x) => i = j
    BY <1>1, <1>2 DEF Flow, Of
  <2>3. \A j \in DOMAIN toAgent' : \A x \in Socks :
          Of(toAgent'[j], "send", x) => Begun(x) /\ toAgent'[j].n <= typed[x]
    BY <1>1, <1>2 DEF Flow, Of
  <2>4. \A x \in Socks :
          /\ Has(toViewer', "recv", x) => Begun(x)
          /\ bridge[x] # "none" => /\ want'[x] = "no" /\ ready'[x] # "none"
                                   /\ x \in reg' => link = "up"
          /\ ready'[x] = "open" => x \in reg' /\ opened[x]
    BY <1>1, <1>2 DEF Flow
  <2> QED
    BY <1>1, <1>2, <1>3, <2>1, <2>2, <2>3, <2>4 DEF Flow, Has, Live
<1>6. ASSUME NEW x \in Socks PROVE Ordered(x)'
  <2>1. Queued(x)' /\ Counts(shown[x])'
    BY <1>1, <1>3, QueuedKept DEF Ordered
  <2>2. Keys(x)'
    BY <1>1, <1>2, <1>3, KeysKept DEF Ordered
  <2>3. View(x)'
    BY <1>1, <1>2, <1>3, ViewKept DEF Ordered, Live
  <2> QED
    BY <2>1, <2>2, <2>3 DEF Ordered
<1> QED
  BY <1>4, <1>5, <1>6 DEF Kept

LEMMA NewKept == ASSUME OInv, NEW s \in Socks, New(s) PROVE Kept'
<1>1. /\ ready[s] = "none"
      /\ ready' = [ready EXCEPT ![s] = "connecting"]
      /\ timers' = [timers EXCEPT ![s] = {"open"}]
      /\ want' = [want EXCEPT ![s] = "link"]
      /\ UNCHANGED <<agentVars, room, toAgent, toViewer, link, links, presence>>
      /\ UNCHANGED <<reg, opened, typed, shown, ends, told>>
  BY DEF New, netVars, linkVars
<1>2. TypeOK /\ Flow
  BY DEF OInv, Kept
<1>3. PageTypeOK' /\ presence' \in {"unknown", "on", "off"}
  BY <1>1, <1>2 DEF TypeOK, PageTypeOK
<1>4. \A x \in Socks :
        /\ ready'[x] = "open" => ready[x] = "open" /\ x \in reg
        /\ ready'[x] = "none" => ready[x] = "none"
        /\ want[x] = "no" /\ ready[x] # "none" => want'[x] = "no"
  BY <1>1, <1>2 DEF TypeOK, PageTypeOK, Flow
<1> QED
  BY <1>1, <1>3, <1>4, QuietKept

LEMMA CloseKept == ASSUME OInv, NEW s \in Socks, Close(s) PROVE Kept'
<1>1. /\ ready[s] \in {"connecting", "open"}
      /\ ready' = [ready EXCEPT ![s] = "closing"]
      /\ timers' = [timers EXCEPT ![s] = @ \cup {"close"}]
      /\ toAgent' \in {toAgent, Append(toAgent, Msg("close", s))}
      /\ UNCHANGED <<agentVars, room, toViewer, link, links, presence>>
      /\ UNCHANGED <<want, reg, opened, typed, shown, ends, told>>
  BY DEF Close, Send, linkVars
<1>2. TypeOK /\ Flow
  BY DEF OInv, Kept
<1>3. PageTypeOK' /\ presence' \in {"unknown", "on", "off"}
  BY <1>1, <1>2 DEF TypeOK, PageTypeOK
<1>4. Msg("close", s) \in SockMsg /\ Msg("close", s).kind = "close"
  BY DEF Msg, SockMsg
<1>5. \A x \in Socks :
        /\ ready'[x] = "open" => ready[x] = "open" /\ x \in reg
        /\ ready'[x] = "none" => ready[x] = "none"
        /\ want[x] = "no" /\ ready[x] # "none" => want'[x] = "no"
  BY <1>1, <1>2 DEF TypeOK, PageTypeOK, Flow
<1> QED
  BY <1>1, <1>3, <1>4, <1>5, QuietKept

LEMMA OpenTimeoutKept ==
  ASSUME OInv, NEW s \in Socks, OpenTimeout(s) PROVE Kept'
<1>1. /\ "open" \in timers[s]
      /\ timers' = [timers EXCEPT ![s] = @ \ {"open"}]
      /\ ready' = [ready EXCEPT ![s] = "closed"]
      /\ ends' = [ends EXCEPT ![s] = @ + 1]
      /\ UNCHANGED <<agentVars, room, toAgent, toViewer, link, links, presence>>
      /\ UNCHANGED <<want, reg, opened, typed, shown, told>>
  BY DEF OpenTimeout, netVars, linkVars
<1>2. TypeOK /\ Flow
  BY DEF OInv, Kept
<1>3. PageTypeOK' /\ presence' \in {"unknown", "on", "off"}
  BY <1>1, <1>2 DEF TypeOK, PageTypeOK
<1>4. \A x \in Socks :
        /\ ready'[x] = "open" => ready[x] = "open" /\ x \in reg
        /\ ready'[x] = "none" => ready[x] = "none"
        /\ want[x] = "no" /\ ready[x] # "none" => want'[x] = "no"
  BY <1>1, <1>2 DEF TypeOK, PageTypeOK, Flow
<1> QED
  BY <1>1, <1>3, <1>4, QuietKept

LEMMA CloseTimeoutKept ==
  ASSUME OInv, NEW s \in Socks, CloseTimeout(s) PROVE Kept'
<1>1. /\ timers' = [timers EXCEPT ![s] = @ \ {"close"}]
      /\ \/ UNCHANGED <<ready, reg, ends>>
         \/ /\ ready' = [ready EXCEPT ![s] = "closed"]
            /\ reg' = reg \ {s}
            /\ ends' = [ends EXCEPT ![s] = @ + 1]
      /\ UNCHANGED <<agentVars, room, toAgent, toViewer, link, links, presence>>
      /\ UNCHANGED <<want, opened, typed, shown, told>>
  BY DEF CloseTimeout, netVars, linkVars
<1>2. TypeOK /\ Flow
  BY DEF OInv, Kept
<1>3. PageTypeOK' /\ presence' \in {"unknown", "on", "off"}
  <2>1. reg' \subseteq Socks /\ ready' \in [Socks -> States]
    BY <1>1, <1>2 DEF TypeOK, PageTypeOK, States
  <2>2. ends' \in [Socks -> Nat]
    <3>1. ends \in [Socks -> Nat]
      BY <1>2 DEF TypeOK, PageTypeOK
    <3>2. \/ ends' = ends
          \/ s \in Socks /\ ends' = [ends EXCEPT ![s] = @ + 1]
      BY <1>2, <1>1 DEF TypeOK, PageTypeOK
    <3> QED
      BY <3>1, <3>2
  <2>3. timers' \in [Socks -> SUBSET {"open", "close"}]
    <3>1. timers \in [Socks -> SUBSET {"open", "close"}]
      BY <1>2 DEF TypeOK, PageTypeOK
    <3>2. \/ timers' = timers
          \/ s \in Socks /\ timers' = [timers EXCEPT ![s] = @ \ {"close"}]
      BY <1>2, <1>1 DEF TypeOK, PageTypeOK
    <3> QED
      BY <3>1, <3>2
  <2> QED
    BY <1>1, <1>2, <2>1, <2>2, <2>3 DEF TypeOK, PageTypeOK, States
<1>4. /\ reg' \subseteq reg
      /\ \A x \in Socks :
           /\ ready'[x] = "open" => ready[x] = "open" /\ x \in reg'
           /\ ready'[x] = "none" => ready[x] = "none"
           /\ want[x] = "no" /\ ready[x] # "none" => want'[x] = "no"
  BY <1>1, <1>2 DEF TypeOK, PageTypeOK, Flow
<1> QED
  BY <1>1, <1>3, <1>4, QuietKept

\* relayClosed and relayFailed of sockets that are dropped or not registered.
LEMMA RingKept ==
  ASSUME OInv, NEW S, S \subseteq Socks, Ring(S),
         UNCHANGED <<agentVars, room, link, links, shown, opened, typed>>,
         presence' \in {"unknown", "on", "off"},
         \/ toViewer' = toViewer
         \/ /\ toViewer # <<>> /\ Head(toViewer).kind # "recv"
            /\ toViewer' = Tail(toViewer),
         toAgent' = toAgent, reg' \subseteq reg, reg \ reg' \subseteq S,
         want' \in [Socks -> {"no", "link", "pin"}],
         \A x \in Socks : want'[x] \in {want[x], "no"}
  PROVE  Kept'
<1>1. TypeOK /\ Flow
  BY DEF OInv, Kept
<1>2. /\ ready' \in [Socks -> States] /\ told' \subseteq Socks
      /\ timers' \in [Socks -> SUBSET {"open", "close"}]
      /\ ends' \in [Socks -> Nat]
      /\ \A x \in Socks : ready'[x] \in {ready[x], "closed"}
      /\ \A x \in S : ready'[x] = "closed"
  BY <1>1, RingTypes DEF TypeOK
<1>3. PageTypeOK'
  BY <1>1, <1>2 DEF TypeOK, PageTypeOK, States
<1>4. \A x \in Socks :
        /\ ready'[x] = "open" => ready[x] = "open" /\ x \in reg'
        /\ ready'[x] = "none" => ready[x] = "none"
        /\ want[x] = "no" /\ ready[x] # "none" => want'[x] = "no"
  BY <1>1, <1>2 DEF Flow
<1> QED
  BY <1>3, <1>4, QuietKept

LEMMA LinkFailsKept == ASSUME OInv, LinkFails PROVE Kept'
<1>1. /\ Ring(Awaiting)
      /\ want' = [x \in Socks |-> IF x \in Awaiting THEN "no" ELSE want[x]]
      /\ UNCHANGED <<agentVars, room, link, links, shown, opened, typed>>
      /\ UNCHANGED <<presence, toViewer, toAgent, reg>>
  BY DEF LinkFails, netVars, linkVars
<1>2. TypeOK
  BY DEF OInv, Kept
<1>3. Awaiting \subseteq Socks /\ want' \in [Socks -> {"no", "link", "pin"}]
      /\ \A x \in Socks : want'[x] \in {want[x], "no"}
  BY <1>1, <1>2 DEF Awaiting, TypeOK, PageTypeOK
<1> QED
  BY <1>1, <1>2, <1>3, RingKept DEF TypeOK

LEMMA OnPresenceKept == ASSUME OInv, OnPresence PROVE Kept'
<1>1. /\ toViewer # <<>> /\ Head(toViewer).kind # "recv"
      /\ toViewer' = Tail(toViewer) /\ presence' \in {"unknown", "on", "off"}
      /\ UNCHANGED <<agentVars, room, link, links, shown, opened, typed>>
      /\ UNCHANGED <<toAgent, want>>
  BY DEF OnPresence, ViewerTakes
<1>2. TypeOK /\ Flow
  BY DEF OInv, Kept
<1>3. CASE Head(toViewer).up
  <2>1. UNCHANGED <<reg, ready, timers, ends, told>>
    BY <1>3 DEF OnPresence
  <2>2. PageTypeOK'
    BY <1>1, <1>2, <2>1 DEF TypeOK, PageTypeOK
  <2> QED
    BY <1>1, <1>2, <2>1, <2>2, QuietKept DEF Flow
<1>4. CASE ~Head(toViewer).up
  <2>1. Ring(reg) /\ reg' = {}
    BY <1>4 DEF OnPresence
  <2>2. reg \subseteq Socks /\ want' \in [Socks -> {"no", "link", "pin"}]
    BY <1>1, <1>2 DEF TypeOK, PageTypeOK
  <2> QED
    BY <1>1, <2>1, <2>2, RingKept
<1> QED
  BY <1>3, <1>4

LEMMA EnsuredKept == ASSUME OInv, NEW s \in Socks, Ensured(s) PROVE Kept'
<1>1. /\ want[s] = "link"
      /\ UNCHANGED <<agentVars, room, link, links, shown, opened, typed>>
      /\ UNCHANGED <<presence, toViewer, toAgent, reg>>
  BY DEF Ensured, netVars, linkVars
<1>2. TypeOK /\ Flow
  BY DEF OInv, Kept
<1>3. CASE presence = "off"
  <2>1. Ring({s}) /\ want' = [want EXCEPT ![s] = "no"]
    BY <1>3 DEF Ensured
  <2>2. {s} \subseteq Socks /\ want' \in [Socks -> {"no", "link", "pin"}]
        /\ \A x \in Socks : want'[x] \in {want[x], "no"}
    BY <1>2, <2>1 DEF TypeOK, PageTypeOK
  <2> QED
    BY <1>1, <1>2, <2>1, <2>2, RingKept DEF TypeOK
<1>4. CASE presence # "off"
  <2>1. want' = [want EXCEPT ![s] = "pin"]
        /\ UNCHANGED <<ready, timers, ends, told>>
    BY <1>4 DEF Ensured
  <2>2. PageTypeOK'
    BY <1>1, <1>2, <2>1 DEF TypeOK, PageTypeOK
  <2>3. \A x \in Socks :
          /\ ready'[x] = "open" => ready[x] = "open" /\ x \in reg'
          /\ ready'[x] = "none" => ready[x] = "none"
          /\ want[x] = "no" /\ ready[x] # "none" => want'[x] = "no"
    BY <1>1, <1>2, <2>1 DEF TypeOK, PageTypeOK, Flow
  <2> QED
    BY <1>1, <1>2, <2>2, <2>3, QuietKept DEF TypeOK
<1> QED
  BY <1>3, <1>4

LEMMA PinFailsKept == ASSUME OInv, NEW s \in Socks, PinFails(s) PROVE Kept'
<1>1. /\ Ring({s}) /\ want' = [want EXCEPT ![s] = "no"]
      /\ UNCHANGED <<agentVars, room, link, links, shown, opened, typed>>
      /\ UNCHANGED <<presence, toViewer, toAgent, reg>>
  BY DEF PinFails, netVars, linkVars
<1>2. TypeOK
  BY DEF OInv, Kept
<1>3. {s} \subseteq Socks /\ want' \in [Socks -> {"no", "link", "pin"}]
      /\ \A x \in Socks : want'[x] \in {want[x], "no"}
  BY <1>1, <1>2 DEF TypeOK, PageTypeOK
<1> QED
  BY <1>1, <1>2, <1>3, RingKept DEF TypeOK

LEMMA OnClosedKept == ASSUME OInv, OnClosed PROVE Kept'
<1> DEFINE s == Head(toViewer).s
<1>1. /\ toViewer # <<>> /\ Head(toViewer).kind # "recv"
      /\ toViewer' = Tail(toViewer)
      /\ UNCHANGED <<agentVars, room, link, links, shown, opened, typed>>
      /\ UNCHANGED <<presence, toAgent, want>>
  BY DEF OnClosed, ViewerTakes, linkVars
<1>2. TypeOK /\ Flow
  BY DEF OInv, Kept
<1>3. \/ UNCHANGED <<reg, ready, timers, ends, told>>
      \/ /\ s \in reg /\ reg' = reg \ {s}
         /\ ready' = [ready EXCEPT ![s] = "closed"]
         /\ timers' = [timers EXCEPT ![s] = @ \ {"open"}]
         /\ ends' = [ends EXCEPT ![s] = @ + 1]
         /\ told' = told \cup {s}
  BY DEF OnClosed
<1> HIDE DEF s
<1>4. PageTypeOK' /\ presence' \in {"unknown", "on", "off"}
  <2>1. /\ reg' \subseteq Socks /\ told' \subseteq Socks
        /\ ready' \in [Socks -> States]
    <3>1. reg \subseteq Socks /\ told \subseteq Socks /\ ready \in [Socks -> States]
      BY <1>2 DEF TypeOK, PageTypeOK, States
    <3>2. reg' \subseteq Socks /\ told' \subseteq Socks
      BY <1>3, <3>1
    <3>3. ready' = ready \/ ready' = [ready EXCEPT ![s] = "closed"]
      BY <1>3
    <3>4. ready' \in [Socks -> States]
      BY <3>1, <3>3 DEF States
    <3> QED
      BY <3>2, <3>4
  <2>2. ends' \in [Socks -> Nat]
    <3>1. ends \in [Socks -> Nat]
      BY <1>2 DEF TypeOK, PageTypeOK
    <3>2. \/ ends' = ends
          \/ s \in Socks /\ ends' = [ends EXCEPT ![s] = @ + 1]
      BY <1>2, <1>3 DEF TypeOK, PageTypeOK
    <3> QED
      BY <3>1, <3>2
  <2>3. timers' \in [Socks -> SUBSET {"open", "close"}]
    <3>1. timers \in [Socks -> SUBSET {"open", "close"}]
      BY <1>2 DEF TypeOK, PageTypeOK
    <3>2. \/ timers' = timers
          \/ s \in Socks /\ timers' = [timers EXCEPT ![s] = @ \ {"open"}]
      BY <1>2, <1>3 DEF TypeOK, PageTypeOK
    <3> QED
      BY <3>1, <3>2
  <2> QED
    BY <1>1, <1>2, <2>1, <2>2, <2>3 DEF TypeOK, PageTypeOK, States
<1>5. /\ reg' \subseteq reg
      /\ \A x \in Socks :
           /\ ready'[x] = "open" => ready[x] = "open" /\ x \in reg'
           /\ ready'[x] = "none" => ready[x] = "none"
           /\ want[x] = "no" /\ ready[x] # "none" => want'[x] = "no"
  BY <1>1, <1>2, <1>3 DEF TypeOK, PageTypeOK, Flow
<1> QED
  BY <1>1, <1>4, <1>5, QuietKept

----------------------------------------------------------------------------
(* The browser's link comes and goes *)

LEMMA LinkUpKept == ASSUME OInv, LinkUp PROVE Kept'
<1>1. /\ link = "off" /\ link' = "up" /\ links' = links + 1
      /\ toViewer' = <<Presence(room)>>
      /\ UNCHANGED <<line, conn, bridge, home, hold, inq, out, got, room>>
      /\ UNCHANGED <<toAgent, presence, sockVars>>
  BY DEF LinkUp, agentVars, bridgeVars
<1>2. TypeOK /\ Flow /\ \A x \in Socks : Ordered(x)
  BY DEF OInv, Kept
<1>3. /\ toViewer' \in Seq(ViewerMsg)
      /\ \A x : ~Has(toViewer', "recv", x)
  BY <1>1, <1>2 DEF Presence, ViewerMsg, TypeOK, Has, Of
<1>4. TypeOK'
  BY <1>1, <1>2, <1>3
  DEF TypeOK, AgentTypeOK, PageTypeOK, sockVars, ViewerMsg
<1>5. Flow'
  BY <1>1, <1>2, <1>3 DEF Flow, Begun, Has, Live, sockVars
<1>6. ASSUME NEW x \in Socks PROVE Ordered(x)'
  <2>1. /\ UNCHANGED <<reg, inq, got, typed, out, shown, line, conn, ready>>
        /\ UNCHANGED <<home, toAgent, bridge>>
    BY <1>1 DEF sockVars
  <2>2. Queued(x)' /\ Keys(x)' /\ Counts(shown[x])'
    BY <1>2, <2>1, QueuedKept, KeysKept DEF Ordered
  <2>3. View(x)'
    <3>1. Chained(toViewer', "recv", x, Len(shown[x]), out[x])
      BY <1>3, NoneChained
    <3>2. ASSUME x \in reg
          PROVE  Complete(toViewer', "recv", x, Len(shown[x]), out[x])
      <4>1. bridge[x] = "none"
        BY <1>1, <1>2, <3>2 DEF Flow
      <4>2. out[x] = 0 /\ Len(shown[x]) = 0
        BY <1>2, <4>1 DEF Flow, Begun
      <4> QED
        BY <4>2 DEF Complete
    <3> QED
      BY <2>1, <3>1, <3>2 DEF View
  <2> QED
    BY <2>2, <2>3 DEF Ordered
<1> QED
  BY <1>4, <1>5, <1>6 DEF Kept

LEMMA LinkDropKeeps == ASSUME OInv, LinkDrop PROVE Kept'
<1>1. /\ link' = "off" /\ presence' = "unknown" /\ toViewer' = <<>>
      /\ Ring(reg) /\ reg' = {}
      /\ UNCHANGED <<line, conn, bridge, home, hold, inq, out, got, room>>
      /\ UNCHANGED <<links, want, opened, typed, shown>>
  BY DEF LinkDrop, agentVars, bridgeVars
<1>2. TypeOK /\ Flow /\ \A x \in Socks : Ordered(x)
  BY DEF OInv, Kept
<1>3. PICK k \in 0..Len(toAgent) : toAgent' = SubSeq(toAgent, 1, k)
  BY DEF LinkDrop
<1>4. /\ toAgent' \in Seq(SockMsg)
      /\ \A j \in DOMAIN toAgent' : /\ j \in DOMAIN toAgent
                                   /\ toAgent'[j] = toAgent[j]
      /\ \A x, lo, hi : Chained(toAgent, "send", x, lo, hi)
                           => Chained(toAgent', "send", x, lo, hi)
  BY <1>2, <1>3, PrefixOK DEF TypeOK
<1>5. /\ ready' \in [Socks -> States] /\ told' \subseteq Socks
      /\ timers' \in [Socks -> SUBSET {"open", "close"}]
      /\ ends' \in [Socks -> Nat]
      /\ \A x \in Socks : ready'[x] \in {ready[x], "closed"}
      /\ \A x \in reg : ready'[x] = "closed"
  BY <1>1, <1>2, RingTypes DEF TypeOK, PageTypeOK
<1>6. \A x \in Socks : ready'[x] # "open" /\ (ready'[x] = "none" => ready[x] = "none")
  BY <1>2, <1>5 DEF Flow
<1>7. TypeOK'
  <2>1. PageTypeOK'
    BY <1>1, <1>2, <1>5 DEF TypeOK, PageTypeOK, States
  <2>2. AgentTypeOK'
    BY <1>1, <1>2 DEF TypeOK, AgentTypeOK
  <2> QED
    BY <1>1, <1>2, <1>4, <2>1, <2>2 DEF TypeOK
<1>8. Flow'
  <2>1. \A j \in DOMAIN toAgent' : \A x \in Socks :
          Of(toAgent'[j], "open", x) =>
            /\ bridge[x] = "none" /\ want[x] = "no" /\ ready'[x] # "none"
            /\ \A i \in DOMAIN toAgent' : Of(toAgent'[i], "open", x) => i = j
    BY <1>2, <1>4, <1>6 DEF Flow
  <2>2. \A j \in DOMAIN toAgent' : \A x \in Socks :
          Of(toAgent'[j], "send", x) => Begun(x) /\ toAgent'[j].n <= typed[x]
    BY <1>2, <1>4 DEF Flow
  <2> QED
    BY <1>1, <1>2, <1>6, <2>1, <2>2 DEF Flow, Begun, Has, Live
<1>9. ASSUME NEW x \in Socks PROVE Ordered(x)'
  <2>1. Queued(x)' /\ Counts(shown[x])'
    BY <1>1, <1>2, QueuedKept DEF Ordered
  <2>2. Keys(x)'
    BY <1>1, <1>2, <1>4, <1>6, KeysKept DEF Ordered
  <2>3. View(x)'
    BY <1>1 DEF View
  <2> QED
    BY <2>1, <2>2, <2>3 DEF Ordered
<1> QED
  BY <1>7, <1>8, <1>9 DEF Kept

----------------------------------------------------------------------------
(* The socket asks for its bridge, takes output and sends keystrokes *)

LEMMA RegisterKept == ASSUME OInv, NEW s \in Socks, Register(s) PROVE Kept'
<1> DEFINE m == Msg("open", s)
<1>1. /\ want[s] = "pin" /\ want' = [want EXCEPT ![s] = "no"]
      /\ reg' = reg \cup {s}
      /\ toAgent' = IF link = "up" /\ line = "up" THEN Append(toAgent, m)
                                                   ELSE toAgent
      /\ UNCHANGED <<line, conn, bridge, home, hold, inq, out, got, room>>
      /\ UNCHANGED <<toViewer, link, links, presence, ready, opened, timers>>
      /\ UNCHANGED <<typed, shown, ends, told>>
  BY DEF Register, Send, agentVars, bridgeVars, linkVars
<1>2. TypeOK /\ Flow /\ Registered /\ \A x \in Socks : Ordered(x)
  BY DEF OInv, Kept, IInv
<1>3. m \in SockMsg /\ m.kind = "open" /\ m.s = s
  BY DEF Msg, SockMsg
<1>4. /\ bridge[s] = "none" /\ ready[s] # "none" /\ ~Begun(s)
      /\ \A j \in DOMAIN toAgent : ~Of(toAgent[j], "open", s)
  BY <1>1, <1>2 DEF Flow, Registered, Begun
<1>5. toAgent \in Seq(SockMsg)
  BY <1>2 DEF TypeOK
<1> HIDE DEF m
<1>6. /\ toAgent' \in Seq(SockMsg)
      /\ \A j \in DOMAIN toAgent' :
           \/ j \in DOMAIN toAgent /\ toAgent'[j] = toAgent[j]
           \/ j = Len(toAgent) + 1 /\ toAgent'[j] = m /\ link = "up"
  BY <1>1, <1>3, <1>5
<1>7. \A x, lo, hi :
        /\ Chained(toAgent, "send", x, lo, hi)
             => Chained(toAgent', "send", x, lo, hi)
        /\ Complete(toAgent, "send", x, lo, hi)
             => Complete(toAgent', "send", x, lo, hi)
  <2>1. \A x : ~Of(m, "send", x)
    BY <1>3 DEF Of
  <2> QED
    BY <1>1, <1>3, <1>5, <2>1, AppendOther
<1>8. TypeOK'
  BY <1>1, <1>2, <1>6 DEF TypeOK, AgentTypeOK, PageTypeOK
<1>9. Flow'
  <2>1. /\ want'[s] = "no"
        /\ \A x \in Socks : want[x] = "no" => want'[x] = "no"
    BY <1>1, <1>2 DEF TypeOK, PageTypeOK
  <2>2. ASSUME NEW j \in DOMAIN toAgent', NEW x \in Socks,
               Of(toAgent'[j], "open", x)
        PROVE  /\ bridge[x] = "none" /\ want'[x] = "no" /\ ready[x] # "none"
               /\ x \in reg' => link = "up"
               /\ \A i \in DOMAIN toAgent' : Of(toAgent'[i], "open", x) => i = j
    <3>1. CASE x = s
      <4>1. \A i \in DOMAIN toAgent' : Of(toAgent'[i], "open", s) =>
               i = Len(toAgent) + 1 /\ link = "up"
        BY <1>4, <1>6
      <4> QED
        BY <1>4, <2>1, <2>2, <3>1, <4>1
    <3>2. CASE x # s
      <4>1. ~Of(m, "open", x)
        BY <1>3, <3>2 DEF Of
      <4> QED
        BY <1>1, <1>2, <1>6, <2>1, <2>2, <3>2, <4>1 DEF Flow
    <3> QED
      BY <3>1, <3>2
  <2>3. \A j \in DOMAIN toAgent' : \A x \in Socks :
          Of(toAgent'[j], "send", x) => Begun(x) /\ toAgent'[j].n <= typed[x]
    <3>1. \A x : ~Of(m, "send", x)
      BY <1>3 DEF Of
    <3> QED
      BY <1>2, <1>6, <3>1 DEF Flow
  <2>4. \A x \in Socks :
         /\ bridge[x] # "none" => /\ want'[x] = "no" /\ ready[x] # "none"
                                  /\ x \in reg' => link = "up"
         /\ ready[x] = "open" => x \in reg' /\ opened[x]
    BY <1>1, <1>2, <1>4, <2>1 DEF Flow
  <2> QED
    BY <1>1, <1>2, <2>2, <2>3, <2>4 DEF Flow, Begun, Has, Live
<1>10. ASSUME NEW x \in Socks PROVE Ordered(x)'
  <2>1. Queued(x)' /\ Counts(shown[x])' /\ Keys(x)'
    BY <1>1, <1>2, <1>7, QueuedKept, KeysKept DEF Ordered
  <2>2. View(x)'
    <3>1. CASE x # s
      BY <1>1, <1>2, <3>1, ViewKept DEF Ordered, Live
    <3>2. CASE x = s
      <4>1. ~Has(toViewer, "recv", s) /\ out[s] = 0 /\ Len(shown[s]) = 0
        BY <1>2, <1>4 DEF Flow
      <4>2. Complete(toViewer, "recv", s, Len(shown[s]), out[s])
        BY <4>1 DEF Complete
      <4>3. Chained(toViewer, "recv", s, Len(shown[s]), out[s])
        BY <4>1, NoneChained
      <4> QED
        BY <1>1, <3>2, <4>2, <4>3 DEF View
    <3> QED
      BY <3>1, <3>2
  <2> QED
    BY <2>1, <2>2 DEF Ordered
<1> QED
  BY <1>8, <1>9, <1>10 DEF Kept

LEMMA TypeKept == ASSUME OInv, NEW s \in Socks, Type(s) PROVE Kept'
<1> DEFINE m == Piece("send", s, typed[s] + 1)
<1>1. /\ ready[s] = "open" /\ typed' = [typed EXCEPT ![s] = @ + 1]
      /\ toAgent' = IF link = "up" /\ line = "up" THEN Append(toAgent, m)
                                                   ELSE toAgent
      /\ UNCHANGED <<line, conn, bridge, home, hold, inq, out, got, room>>
      /\ UNCHANGED <<toViewer, link, links, presence, ready, opened, timers>>
      /\ UNCHANGED <<want, reg, shown, ends, told>>
  BY DEF Type, Send, agentVars, bridgeVars, linkVars
<1>2. TypeOK /\ Flow /\ \A x \in Socks : Ordered(x)
  BY DEF OInv, Kept
<1>3. typed[s] \in Nat /\ toAgent \in Seq(SockMsg)
  BY <1>2 DEF TypeOK, PageTypeOK
<1>4. m \in SockMsg /\ m.kind = "send" /\ m.s = s /\ m.n = typed[s] + 1
  BY <1>3 DEF Piece, SockMsg
<1>5. opened[s] /\ Begun(s) /\ link = "up"
  BY <1>1, <1>2 DEF Flow, Begun
<1> HIDE DEF m
<1>6. /\ toAgent' \in Seq(SockMsg)
      /\ \A j \in DOMAIN toAgent' :
           \/ j \in DOMAIN toAgent /\ toAgent'[j] = toAgent[j]
           \/ toAgent'[j] = m
  BY <1>1, <1>3, <1>4
<1>7. /\ typed' \in [Socks -> Nat] /\ typed'[s] = typed[s] + 1
      /\ \A x \in Socks : x # s => typed'[x] = typed[x]
  BY <1>1, <1>2 DEF TypeOK, PageTypeOK
<1>8. TypeOK'
  BY <1>1, <1>2, <1>6, <1>7 DEF TypeOK, AgentTypeOK, PageTypeOK
<1>9. Flow'
  <2>1. \A j \in DOMAIN toAgent' : \A x \in Socks :
          Of(toAgent'[j], "open", x) =>
            /\ bridge[x] = "none" /\ want[x] = "no" /\ ready[x] # "none"
            /\ x \in reg => link = "up"
            /\ \A i \in DOMAIN toAgent' : Of(toAgent'[i], "open", x) => i = j
    BY <1>2, <1>4, <1>6 DEF Flow, Of
  <2>2. ASSUME NEW j \in DOMAIN toAgent', NEW x \in Socks,
               Of(toAgent'[j], "send", x)
        PROVE  Begun(x) /\ toAgent'[j].n <= typed'[x]
    <3>1. CASE toAgent'[j] = m
      BY <1>3, <1>4, <1>5, <1>7, <2>2, <3>1 DEF Of
    <3>2. CASE j \in DOMAIN toAgent /\ toAgent'[j] = toAgent[j]
      <4>1. Begun(x) /\ toAgent[j].n <= typed[x] /\ toAgent[j].n \in Nat
        BY <1>2, <1>3, <2>2, <3>2 DEF Flow, Of, SockMsg
      <4>2. typed[x] \in Nat /\ typed'[x] \in {typed[x], typed[x] + 1}
        BY <1>2, <1>7 DEF TypeOK, PageTypeOK
      <4> QED
        BY <3>2, <4>1, <4>2
    <3> QED
      BY <1>6, <3>1, <3>2
  <2>3. \A x \in Socks : ~opened[x] => typed'[x] = 0
    BY <1>2, <1>5, <1>7 DEF Flow
  <2> QED
    BY <1>1, <1>2, <2>1, <2>2, <2>3 DEF Flow, Begun, Has, Live
<1>10. ASSUME NEW x \in Socks, x # s PROVE Ordered(x)'
  <2>1. ~Of(m, "send", x) /\ typed'[x] = typed[x]
    BY <1>4, <1>7, <1>10 DEF Of
  <2>2. \A lo, hi :
          /\ Chained(toAgent, "send", x, lo, hi)
               => Chained(toAgent', "send", x, lo, hi)
          /\ Complete(toAgent, "send", x, lo, hi)
               => Complete(toAgent', "send", x, lo, hi)
    BY <1>1, <1>3, <1>4, <2>1, AppendOther
  <2>3. Queued(x)' /\ Keys(x)' /\ View(x)' /\ Counts(shown[x])'
    BY <1>1, <1>2, <2>1, <2>2, QueuedKept, KeysKept, ViewKept DEF Ordered, Live
  <2> QED
    BY <2>3 DEF Ordered
<1>11. Ordered(s)'
  <2>1. View(s)' /\ Counts(shown[s])'
    BY <1>1, <1>2, ViewKept DEF Ordered, Live
  <2>2. Queued(s)'
    <3>1. Len(got[s]) \in Nat
      BY <1>2 DEF TypeOK, AgentTypeOK
    <3>2. \A i \in DOMAIN inq[s] :
            inq[s][i].kind = "send" => inq[s][i].n \in Nat
      <4>1. \A i \in DOMAIN inq[s] : inq[s][i] \in SockMsg
        BY <1>2 DEF TypeOK, AgentTypeOK
      <4> QED
        BY <4>1 DEF SockMsg
    <3>3. Queued(s)
      BY <1>2 DEF Ordered
    <3>4. /\ Counts(got[s]) /\ Len(got[s]) <= typed'[s]
          /\ \A i \in DOMAIN inq[s] :
                inq[s][i].kind = "send" => inq[s][i].n <= typed'[s]
      BY <1>3, <1>7, <3>1, <3>2, <3>3 DEF Queued
    <3> QED
      BY <1>1, <3>3, <3>4 DEF Queued
  <2>3. Keys(s)'
    <3> SUFFICES ASSUME bridge[s] = "up", line = "up", home[s] = conn,
                        ~Closing(inq[s])
                 PROVE  /\ Chained(toAgent', "send", s, Taken(s), typed'[s])
                        /\ Complete(toAgent', "send", s, Taken(s), typed'[s])
      BY <1>1 DEF Keys, Taken
    <3>1. /\ Chained(toAgent, "send", s, Taken(s), typed[s])
          /\ Complete(toAgent, "send", s, Taken(s), typed[s])
      BY <1>1, <1>2 DEF Ordered, Keys
    <3>2. Taken(s) \in Nat
      <4> DEFINE g == Len(got[s])
                 q == Len(inq[s])
      <4>1. g \in Nat /\ q \in Nat
        BY <1>2 DEF TypeOK, AgentTypeOK
      <4>2. Taken(s) = g + q
        BY DEF Taken
      <4> HIDE DEF g, q
      <4> QED
        BY <4>1, <4>2
    <3>3. Taken(s) <= typed[s]
      BY <1>3, <3>1, <3>2 DEF Complete, Chained
    <3>4. toAgent' = Append(toAgent, m) /\ Of(m, "send", s)
      BY <1>1, <1>4, <1>5 DEF Of
    <3> QED
      BY <1>3, <1>4, <1>7, <3>1, <3>2, <3>3, <3>4, AppendNext
  <2> QED
    BY <2>1, <2>2, <2>3 DEF Ordered
<1> QED
  BY <1>8, <1>9, <1>10, <1>11 DEF Kept

\* Of a socket that has never opened, the shell has got nothing.
LEMMA NothingTaken ==
  ASSUME OInv, NEW s \in Socks, ~opened[s], ~Closing(inq[s])
  PROVE  Taken(s) = 0 /\ typed[s] = 0
<1> DEFINE q == inq[s]
           k == Len(got[s])
<1>1. TypeOK /\ Flow /\ Queued(s)
  BY DEF OInv, Kept, Ordered
<1>2. q \in Seq(SockMsg) /\ k \in Nat /\ Len(q) \in Nat
      /\ DOMAIN q = 1..Len(q)
  BY <1>1 DEF TypeOK, AgentTypeOK
<1>3. typed[s] = 0
  BY <1>1 DEF Flow
<1>4. /\ k <= typed[s] /\ Taken(s) = k + Len(q)
      /\ \A j \in DOMAIN q : /\ q[j].kind = "send" /\ q[j].n <= typed[s]
                            /\ q[j].n = k + j
  BY <1>1 DEF Queued, Taken, Closing
<1> HIDE DEF q, k
<1>5. k = 0
  BY <1>2, <1>3, <1>4
<1>6. Len(q) = 0
  <2> SUFFICES ASSUME Len(q) # 0 PROVE FALSE
    OBVIOUS
  <2>1. 1 \in DOMAIN q
    BY <1>2
  <2> QED
    BY <1>3, <1>4, <1>5, <2>1
<1> QED
  BY <1>3, <1>4, <1>5, <1>6

LEMMA OnRecvKept == ASSUME OInv, OnRecv PROVE Kept'
<1> DEFINE m == Head(toViewer)
           s == m.s
<1>1. /\ toViewer # <<>> /\ m.kind = "recv" /\ toViewer' = Tail(toViewer)
      /\ UNCHANGED <<line, conn, bridge, home, hold, inq, out, got, room>>
      /\ UNCHANGED <<toAgent, link, links, presence, want, reg, typed, ends,
                     told>>
  BY DEF OnRecv, ViewerTakes, agentVars, bridgeVars, linkVars
<1>2. \/ s \notin reg /\ UNCHANGED <<ready, opened, timers, shown>>
      \/ /\ s \in reg
         /\ shown' = [shown EXCEPT ![s] = Append(@, m.n)]
         /\ opened' = [opened EXCEPT ![s] = TRUE]
         /\ \/ opened[s] /\ UNCHANGED <<ready, timers>>
            \/ /\ ~opened[s] /\ ready' = [ready EXCEPT ![s] = "open"]
               /\ timers' = [timers EXCEPT ![s] = @ \ {"open"}]
  BY DEF OnRecv
<1>3. TypeOK /\ Flow /\ \A x \in Socks : Ordered(x)
  BY DEF OInv, Kept
<1>4. /\ toViewer \in Seq(ViewerMsg)
      /\ m \in ViewerMsg /\ Tail(toViewer) \in Seq(ViewerMsg)
      /\ m = toViewer[1] /\ 1 \in DOMAIN toViewer
      /\ \A i \in DOMAIN Tail(toViewer) :
           i + 1 \in DOMAIN toViewer /\ Tail(toViewer)[i] = toViewer[i + 1]
  <2>1. toViewer \in Seq(ViewerMsg)
    BY <1>3 DEF TypeOK, ViewerMsg
  <2> QED
    BY <1>1, <2>1, TailIs
<1>5. s \in Socks /\ m.n \in Nat /\ Of(m, "recv", s)
  BY <1>1, <1>4 DEF ViewerMsg, SockMsg, Of
<1>6. Begun(s)
  BY <1>3, <1>4, <1>5 DEF Flow, Has
<1>7. ASSUME NEW x \in Socks, x # s
      PROVE  \A lo, hi :
               /\ Chained(toViewer, "recv", x, lo, hi)
                    => Chained(toViewer', "recv", x, lo, hi)
               /\ Complete(toViewer, "recv", x, lo, hi)
                    => Complete(toViewer', "recv", x, lo, hi)
  <2>1. ~Of(m, "recv", x)
    BY <1>7 DEF Of
  <2> QED
    BY <1>1, <1>4, <2>1, TailOther
<1>8. \A x : Has(toViewer', "recv", x) => Has(toViewer, "recv", x)
  BY <1>1, <1>4 DEF Has
<1>9. ASSUME NEW x \in Socks, x = s, x \in reg
      PROVE  /\ shown[x] \in Seq(Nat) /\ Counts(shown[x])
             /\ m.n = Len(shown[x]) + 1
             /\ Chained(toViewer', "recv", x, Len(shown[x]) + 1, out[x])
             /\ Live(x) =>
                  Complete(toViewer', "recv", x, Len(shown[x]) + 1, out[x])
  <2>1. shown[x] \in Seq(Nat) /\ out[x] \in Nat /\ Len(shown[x]) \in Nat
    BY <1>3 DEF TypeOK, AgentTypeOK, PageTypeOK
  <2>2. View(x) /\ Counts(shown[x])
    BY <1>3 DEF Ordered
  <2>3. /\ Chained(toViewer, "recv", x, Len(shown[x]), out[x])
        /\ Live(x) => Complete(toViewer, "recv", x, Len(shown[x]), out[x])
    BY <1>9, <2>2 DEF View
  <2> QED
    BY <1>1, <1>4, <1>5, <1>9, <2>1, <2>2, <2>3, TailThis
<1>10. toViewer' \in Seq(ViewerMsg) /\ (toViewer' # <<>> => link = "up")
  BY <1>1, <1>3, <1>4 DEF Flow
<1> HIDE DEF m, s
<1>11. /\ ready' \in [Socks -> States] /\ opened' \in [Socks -> BOOLEAN]
       /\ timers' \in [Socks -> SUBSET {"open", "close"}]
       /\ shown' \in [Socks -> Seq(Nat)]
  <2>1. CASE s \notin reg
    BY <1>2, <1>3, <2>1 DEF TypeOK, PageTypeOK, States
  <2>2. CASE s \in reg
    <3>1. /\ shown \in [Socks -> Seq(Nat)] /\ opened \in [Socks -> BOOLEAN]
          /\ ready \in [Socks -> States]
          /\ timers \in [Socks -> SUBSET {"open", "close"}]
      BY <1>3 DEF TypeOK, PageTypeOK, States
    <3>2. shown' \in [Socks -> Seq(Nat)]
      <4>1. Append(shown[s], m.n) \in Seq(Nat)
        BY <1>5, <3>1
      <4>2. shown' = [shown EXCEPT ![s] = Append(shown[s], m.n)]
        BY <1>2, <2>2
      <4> QED
        BY <1>5, <3>1, <4>1, <4>2
    <3>3. opened' \in [Socks -> BOOLEAN]
      BY <1>2, <1>5, <2>2, <3>1
    <3>4. ready' \in [Socks -> States]
      BY <1>2, <1>5, <2>2, <3>1 DEF States
    <3>5. timers' \in [Socks -> SUBSET {"open", "close"}]
      <4>1. \/ timers' = timers
            \/ timers' = [timers EXCEPT ![s] = @ \ {"open"}]
        BY <1>2, <2>2
      <4> QED
        BY <1>5, <3>1, <4>1
    <3> QED
      BY <3>2, <3>3, <3>4, <3>5
  <2> QED
    BY <2>1, <2>2
<1>12. TypeOK'
  BY <1>1, <1>3, <1>10, <1>11
  DEF TypeOK, AgentTypeOK, PageTypeOK, States, ViewerMsg
<1>13. /\ \A x \in Socks : x # s => UNCHANGED <<ready[x], opened[x], shown[x]>>
       /\ \A x \in Socks : opened[x] => opened'[x]
       /\ \A x \in Socks :
             \/ UNCHANGED <<ready[x], opened[x], shown[x]>>
             \/ x \in reg /\ opened'[x]
       /\ \A x \in Socks : ready'[x] = "none" => ready[x] = "none"
  <2>1. CASE s \notin reg
    BY <1>2, <2>1
  <2>2. CASE s \in reg
    <3>1. /\ ready \in [Socks -> States] /\ opened \in [Socks -> BOOLEAN]
          /\ shown \in [Socks -> Seq(Nat)]
      BY <1>3 DEF TypeOK, PageTypeOK, States
    <3>2. opened'[s] /\ (ready'[s] = "none" => ready[s] = "none")
      BY <1>2, <1>5, <2>2, <3>1
    <3>3. \A x \in Socks : x # s => UNCHANGED <<ready[x], opened[x], shown[x]>>
      BY <1>2, <1>5, <2>2, <3>1
    <3> QED
      BY <2>2, <3>2, <3>3
  <2> QED
    BY <2>1, <2>2
<1>14. Flow'
  <2>1. \A x \in Socks : ~Begun(x) => x # s
    BY <1>6
  <2>2. \A x \in Socks :
         /\ bridge[x] # "none" => ready'[x] # "none"
         /\ ~Begun(x) => out[x] = 0 /\ shown'[x] = <<>> /\ ~opened'[x]
         /\ ready'[x] = "open" => x \in reg /\ opened'[x]
         /\ ~opened'[x] => typed[x] = 0
    BY <1>3, <1>13, <2>1 DEF Flow
  <2>3. \A j \in DOMAIN toAgent : \A x \in Socks :
          Of(toAgent[j], "open", x) => ready'[x] # "none"
    BY <1>3, <1>13 DEF Flow
  <2>4. UNCHANGED <<bridge, link, reg, toAgent, want, typed, conn, hold, home>>
        /\ UNCHANGED <<out, line>>
    BY <1>1
  <2> QED
    BY <1>3, <1>8, <1>10, <2>2, <2>3, <2>4 DEF Flow, Begun, Live, Has
<1>15. ASSUME NEW x \in Socks, x # s PROVE Ordered(x)'
  <2>1. UNCHANGED <<ready[x], shown[x]>>
    BY <1>13, <1>15
  <2>2. Queued(x)' /\ Keys(x)' /\ View(x)' /\ Counts(shown[x])'
    BY <1>1, <1>3, <1>7, <1>15, <2>1, QueuedKept, KeysKept, ViewKept
    DEF Ordered, Live
  <2> QED
    BY <2>2 DEF Ordered
<1>16. ASSUME NEW x \in Socks, x = s PROVE Ordered(x)'
  <2>1. Queued(x)'
    BY <1>1, <1>3, QueuedKept DEF Ordered
  <2>2. Keys(x)'
    <3>1. CASE opened[x] \/ s \notin reg
      <4>1. UNCHANGED ready[x]
        BY <1>2, <1>3, <1>16, <3>1 DEF TypeOK, PageTypeOK, Flow
      <4> QED
        BY <1>1, <1>3, <4>1, KeysKept DEF Ordered
    <3>2. CASE ~opened[x]
      <4> SUFFICES ASSUME bridge[x] = "up", line = "up", home[x] = conn,
                          ~Closing(inq[x])
                   PROVE  /\ Chained(toAgent, "send", x, Taken(x), typed[x])
                          /\ Complete(toAgent, "send", x, Taken(x), typed[x])
        BY <1>1 DEF Keys, Taken
      <4>1. Chained(toAgent, "send", x, Taken(x), typed[x])
        BY <1>3 DEF Ordered, Keys
      <4>2. Taken(x) = typed[x]
        BY <3>2, NothingTaken
      <4> QED
        BY <4>1, <4>2 DEF Complete
    <3> QED
      BY <3>1, <3>2
  <2>3. CASE s \notin reg
    <3>1. Counts(shown[x])' /\ View(x)'
      BY <1>1, <1>2, <1>3, <1>16, <2>3 DEF Ordered, View
    <3> QED
      BY <2>1, <2>2, <3>1 DEF Ordered
  <2>4. CASE s \in reg
    <3>1. shown'[x] = Append(shown[x], m.n)
      BY <1>2, <1>3, <1>5, <1>16, <2>4 DEF TypeOK, PageTypeOK
    <3>2. /\ shown[x] \in Seq(Nat) /\ Counts(shown[x])
          /\ m.n = Len(shown[x]) + 1
          /\ Chained(toViewer', "recv", x, Len(shown[x]) + 1, out[x])
          /\ Live(x) =>
               Complete(toViewer', "recv", x, Len(shown[x]) + 1, out[x])
      BY <1>9, <1>16, <2>4
    <3>3. Counts(shown'[x]) /\ Len(shown'[x]) = Len(shown[x]) + 1
      BY <1>5, <3>1, <3>2, CountsAppend
    <3>4. View(x)'
      BY <1>1, <3>2, <3>3 DEF View, Live
    <3> QED
      BY <2>1, <2>2, <3>3, <3>4 DEF Ordered
  <2> QED
    BY <2>3, <2>4
<1> QED
  BY <1>12, <1>14, <1>15, <1>16 DEF Kept

----------------------------------------------------------------------------
(* The invariant and what it says of the runs' properties *)

LEMMA StutterKept == ASSUME OInv, UNCHANGED vars PROVE Kept'
<1>1. /\ UNCHANGED <<line, conn, bridge, home, hold, inq, out, got, room>>
      /\ UNCHANGED <<toAgent, toViewer, link, links, presence>>
      /\ UNCHANGED <<want, reg, ready, opened, timers, typed, shown, ends, told>>
  BY DEF vars, agentVars, bridgeVars, netVars, linkVars, sockVars
<1>2. TypeOK /\ Flow /\ \A x \in Socks : Ordered(x)
  BY DEF OInv, Kept
<1>3. TypeOK' /\ Flow'
  BY <1>1, <1>2 DEF TypeOK, AgentTypeOK, PageTypeOK, Flow, Begun, Live, Has
<1>4. ASSUME NEW x \in Socks PROVE Ordered(x)'
  BY <1>1, <1>2 DEF Ordered, Queued, Keys, View, Live, Taken
<1> QED
  BY <1>3, <1>4 DEF Kept

LEMMA OrderStep == OInv /\ [Next]_vars => OInv'
<1> SUFFICES ASSUME OInv, [Next]_vars PROVE OInv'
  OBVIOUS
<1>1. IInv'
  BY NextOK DEF OInv
<1>2. Kept'
  <2>1. CASE UNCHANGED vars
    BY <2>1, StutterKept
  <2>2. CASE AgentDrop \/ AgentClear \/ AgentConnect \/ RoomNotices
    BY <2>2, AgentDropKept, AgentClearKept, AgentConnectKept, RoomNoticesKept
  <2>3. CASE AgentReads
    BY <2>3, OnShellOpenKept, OnShellRefusedKept, OnShellInputKept
    DEF AgentReads
  <2>4. CASE LinkUp \/ LinkFails \/ LinkDrop \/ OnPresence \/ OnRecv \/ OnClosed
    BY <2>4, LinkUpKept, LinkFailsKept, LinkDropKeeps, OnPresenceKept,
       OnRecvKept, OnClosedKept
  <2>5. ASSUME NEW s \in Socks, Run(s) \/ Local(s) PROVE Kept'
    BY <2>5, InsertKept, DialedKept, FromQueueKept, LocalEndsKept, OutputKept
    DEF Run, Local
  <2>6. ASSUME NEW s \in Socks, Page(s) PROVE Kept'
    BY <2>6, NewKept, TypeKept, CloseKept, EnsuredKept, PinFailsKept,
       RegisterKept, OpenTimeoutKept, CloseTimeoutKept
    DEF Page
  <2> QED
    BY <2>1, <2>2, <2>3, <2>4, <2>5, <2>6 DEF Next
<1> QED
  BY <1>1, <1>2 DEF OInv

LEMMA OrderInvariant == Spec => []OInv
<1>1. Init => OInv
  BY InitOK, OrderInit DEF OInv
<1> QED
  BY <1>1, OrderStep, PTL DEF Spec

\* Every variable keeps its type, and an id in the agent's map has a task
\* that runs.
THEOREM TypesOfBridges == Spec => []TypeOK
<1>1. OInv => TypeOK
  BY DEF OInv, Kept
<1> QED
  BY <1>1, OrderInvariant, PTL

\* What a shell gets of a socket is the beginning of what was typed into it,
\* however often the agent's connection and the browser's link are lost.
THEOREM KeysInOrder == Spec => []TypedInOrder
<1>1. OInv => TypedInOrder
  BY DEF OInv, Kept, Ordered, Queued, TypedInOrder
<1> QED
  BY <1>1, OrderInvariant, PTL

\* What a page is shown is the beginning of the output, without a gap.
THEOREM OutputInOrder == Spec => []ShownInOrder
<1>1. OInv => ShownInOrder
  BY DEF OInv, Kept, Ordered, ShownInOrder
<1> QED
  BY <1>1, OrderInvariant, PTL
=============================================================================
