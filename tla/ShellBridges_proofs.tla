--------------------------- MODULE ShellBridges_proofs ---------------------------
(***************************************************************************)
(* Proofs about ShellBridges, for any sockets, keystrokes, output and      *)
(* numbers of connections: the relay's last word is the last word.         *)
(***************************************************************************)
EXTENDS ShellBridges, TLAPS

States == {"none", "connecting", "open", "closing", "closed"}

\* The types of what the page's side of a socket is made of.
PageShape ==
  /\ want \in [Socks -> {"no", "link", "pin"}]
  /\ reg \subseteq Socks /\ told \subseteq Socks
  /\ ready \in [Socks -> States]
  /\ timers \in [Socks -> SUBSET {"open", "close"}]
  /\ ends \in [Socks -> Nat]
  /\ DOMAIN shown = Socks

\* A socket is registered at the end of openShell, not before, and openShell
\* begins when the socket is made.
Registered ==
  /\ \A s \in reg : want[s] = "no"
  /\ \A s \in Socks : ready[s] = "none" => want[s] = "no" /\ s \notin reg

\* A socket that the relay has closed is out of reach of whatever could
\* disturb it: messages, its open timer, and openShell.
Final ==
  \A s \in told : /\ ready[s] = "closed" /\ s \notin reg
                  /\ "open" \notin timers[s] /\ want[s] = "no"

IInv == PageShape /\ Registered /\ Final

\* Nothing happens to the sockets the relay has closed.
Silent ==
  \A s \in told : /\ ready'[s] = "closed" /\ ends'[s] = ends[s]
                  /\ shown'[s] = shown[s]

----------------------------------------------------------------------------
\* A step that leaves the sockets alone.
LEMMA Undisturbed == IInv /\ UNCHANGED sockVars => IInv' /\ Silent
  BY DEF IInv, PageShape, Registered, Final, Silent, sockVars

\* relayClosed and relayFailed of sockets of which none will be registered
\* or awaited when the step is over.
LEMMA RingOK ==
  ASSUME IInv, NEW S, S \subseteq Socks, Ring(S),
         want' \in [Socks -> {"no", "link", "pin"}],
         reg' \subseteq reg, S \cap reg' = {},
         \A s \in Socks : want'[s] \in {want[s], "no"},
         \A s \in S : want'[s] = "no",
         shown' = shown
  PROVE  IInv' /\ Silent
<1> DEFINE R == {s \in S : ready[s] # "closed"}
<1>1. /\ ready' = [s \in Socks |-> IF s \in R THEN "closed" ELSE ready[s]]
      /\ timers' = [s \in Socks |->
                      IF s \in R THEN timers[s] \ {"open"} ELSE timers[s]]
      /\ ends' = [s \in Socks |-> IF s \in R THEN ends[s] + 1 ELSE ends[s]]
      /\ told' = told \cup R
  BY DEF Ring
<1>2. PageShape /\ Registered /\ Final /\ R \subseteq S
  BY DEF IInv
<1>3. told \cap R = {}
  BY <1>2 DEF Final
<1> HIDE DEF R
<1>4. PageShape'
  <2>1. ready' \in [Socks -> States] /\ told' \subseteq Socks
    BY <1>1, <1>2 DEF PageShape, States
  <2>2. timers' \in [Socks -> SUBSET {"open", "close"}]
    BY <1>1, <1>2 DEF PageShape
  <2>3. ends' \in [Socks -> Nat]
    BY <1>1, <1>2 DEF PageShape
  <2> QED
    BY <1>2, <2>1, <2>2, <2>3 DEF PageShape
<1>5. Registered'
  <2>1. \A s \in reg' : want'[s] = "no"
    BY <1>2 DEF Registered, PageShape
  <2>2. \A s \in Socks : ready'[s] = "none" => ready[s] = "none"
    BY <1>1
  <2> QED
    BY <1>2, <2>1, <2>2 DEF Registered
<1>6. Final'
  <2> SUFFICES ASSUME NEW s \in told'
               PROVE  /\ ready'[s] = "closed" /\ s \notin reg'
                      /\ "open" \notin timers'[s] /\ want'[s] = "no"
    BY DEF Final
  <2>1. CASE s \in told
    BY <1>1, <1>2, <1>3, <2>1 DEF Final, PageShape
  <2>2. CASE s \in R
    BY <1>1, <1>2, <2>2 DEF PageShape
  <2> QED
    BY <1>1, <2>1, <2>2
<1>7. Silent
  BY <1>1, <1>2, <1>3 DEF Silent, Final, PageShape
<1> QED
  BY <1>4, <1>5, <1>6, <1>7 DEF IInv

LEMMA InitOK == Init => IInv
  BY DEF Init, IInv, PageShape, Registered, Final, States

----------------------------------------------------------------------------
(* The browser's connection *)

LEMMA LinkFailsOK == ASSUME IInv, LinkFails PROVE IInv' /\ Silent
<1>1. /\ Ring(Awaiting) /\ UNCHANGED <<reg, shown>>
      /\ want' = [s \in Socks |-> IF s \in Awaiting THEN "no" ELSE want[s]]
  BY DEF LinkFails
<1>2. Awaiting \subseteq Socks /\ Awaiting \cap reg = {}
  BY DEF IInv, Registered, Awaiting
<1>3. want' \in [Socks -> {"no", "link", "pin"}]
  BY <1>1 DEF IInv, PageShape
<1> QED
  BY <1>1, <1>2, <1>3, RingOK

LEMMA LinkDropOK == ASSUME IInv, LinkDrop PROVE IInv' /\ Silent
<1>1. Ring(reg) /\ reg' = {} /\ UNCHANGED <<want, shown>>
  BY DEF LinkDrop
<1>2. /\ want' \in [Socks -> {"no", "link", "pin"}]
      /\ \A s \in reg : want'[s] = "no"
      /\ reg \subseteq Socks
  BY <1>1 DEF IInv, PageShape, Registered
<1> QED
  BY <1>1, <1>2, RingOK

LEMMA OnPresenceOK == ASSUME IInv, OnPresence PROVE IInv' /\ Silent
<1>1. UNCHANGED <<want, shown, typed, opened>>
  BY DEF OnPresence
<1>2. CASE Head(toViewer).up
  <2>1. UNCHANGED sockVars
    BY <1>1, <1>2 DEF OnPresence, sockVars
  <2> QED
    BY <2>1, Undisturbed
<1>3. CASE ~Head(toViewer).up
  <2>1. Ring(reg) /\ reg' = {}
    BY <1>3 DEF OnPresence
  <2>2. /\ want' \in [Socks -> {"no", "link", "pin"}]
        /\ \A s \in reg : want'[s] = "no"
        /\ reg \subseteq Socks
    BY <1>1 DEF IInv, PageShape, Registered
  <2> QED
    BY <1>1, <2>1, <2>2, RingOK
<1> QED
  BY <1>2, <1>3

\* A socket still on its way through openShell fails.
LEMMA AwaitingFails ==
  ASSUME IInv, NEW s \in Socks, want[s] \in {"link", "pin"},
         want' = [want EXCEPT ![s] = "no"], Ring({s}), UNCHANGED <<reg, shown>>
  PROVE  IInv' /\ Silent
<1>1. s \notin reg /\ {s} \subseteq Socks
  BY DEF IInv, Registered
<1>2. /\ want' \in [Socks -> {"no", "link", "pin"}] /\ want'[s] = "no"
      /\ \A x \in Socks : want'[x] \in {want[x], "no"}
  BY DEF IInv, PageShape
<1> QED
  BY <1>1, <1>2, RingOK

LEMMA EnsuredOK ==
  ASSUME IInv, NEW s \in Socks, Ensured(s) PROVE IInv' /\ Silent
<1>1. want[s] = "link" /\ UNCHANGED <<reg, shown>>
  BY DEF Ensured
<1>2. CASE presence = "off"
  BY <1>1, <1>2, AwaitingFails DEF Ensured
<1>3. CASE presence # "off"
  <2>1. /\ want' = [want EXCEPT ![s] = "pin"]
        /\ UNCHANGED <<ready, timers, ends, told>>
    BY <1>3 DEF Ensured
  <2>2. s \notin reg /\ s \notin told
    BY <1>1 DEF IInv, Registered, Final
  <2> QED
    BY <1>1, <2>1, <2>2
    DEF IInv, PageShape, Registered, Final, Silent
<1> QED
  BY <1>2, <1>3

LEMMA PinFailsOK ==
  ASSUME IInv, NEW s \in Socks, PinFails(s) PROVE IInv' /\ Silent
  BY AwaitingFails DEF PinFails

LEMMA RegisterOK ==
  ASSUME IInv, NEW s \in Socks, Register(s) PROVE IInv' /\ Silent
<1>1. /\ want[s] = "pin" /\ want' = [want EXCEPT ![s] = "no"]
      /\ reg' = reg \cup {s}
      /\ UNCHANGED <<ready, timers, shown, ends, told>>
  BY DEF Register
<1>2. s \notin told
  BY <1>1 DEF IInv, Final
<1> QED
  BY <1>1, <1>2 DEF IInv, PageShape, Registered, Final, Silent

----------------------------------------------------------------------------
(* The façade *)

LEMMA NewOK == ASSUME IInv, NEW s \in Socks, New(s) PROVE IInv' /\ Silent
<1>1. /\ ready[s] = "none"
      /\ ready' = [ready EXCEPT ![s] = "connecting"]
      /\ timers' = [timers EXCEPT ![s] = {"open"}]
      /\ want' = [want EXCEPT ![s] = "link"]
      /\ UNCHANGED <<reg, shown, ends, told>>
  BY DEF New
<1>2. s \notin told
  BY <1>1 DEF IInv, Final
<1>3. s \notin reg
  BY <1>1 DEF IInv, Registered
<1> QED
  BY <1>1, <1>2, <1>3 DEF IInv, PageShape, Registered, Final, Silent, States

LEMMA OpenTimeoutOK ==
  ASSUME IInv, NEW s \in Socks, OpenTimeout(s) PROVE IInv' /\ Silent
<1>1. /\ "open" \in timers[s]
      /\ timers' = [timers EXCEPT ![s] = @ \ {"open"}]
      /\ ready' = [ready EXCEPT ![s] = "closed"]
      /\ ends' = [ends EXCEPT ![s] = @ + 1]
      /\ UNCHANGED <<want, reg, shown, told>>
  BY DEF OpenTimeout
<1>2. s \notin told
  BY <1>1 DEF IInv, Final
<1> QED
  BY <1>1, <1>2 DEF IInv, PageShape, Registered, Final, Silent, States

LEMMA CloseOK == ASSUME IInv, NEW s \in Socks, Close(s) PROVE IInv' /\ Silent
<1>1. /\ ready[s] \in {"connecting", "open"}
      /\ ready' = [ready EXCEPT ![s] = "closing"]
      /\ timers' = [timers EXCEPT ![s] = @ \cup {"close"}]
      /\ UNCHANGED <<want, reg, shown, ends, told>>
  BY DEF Close
<1>2. s \notin told
  BY <1>1 DEF IInv, Final
<1> QED
  BY <1>1, <1>2 DEF IInv, PageShape, Registered, Final, Silent, States

LEMMA CloseTimeoutOK ==
  ASSUME IInv, NEW s \in Socks, CloseTimeout(s) PROVE IInv' /\ Silent
<1>1. /\ timers' = [timers EXCEPT ![s] = @ \ {"close"}]
      /\ UNCHANGED <<want, shown, told>>
  BY DEF CloseTimeout
<1>2. CASE ready[s] = "closed"
  <2>1. UNCHANGED <<ready, reg, ends>>
    BY <1>2 DEF CloseTimeout
  <2> QED
    BY <1>1, <2>1 DEF IInv, PageShape, Registered, Final, Silent
<1>3. CASE ready[s] # "closed"
  <2>1. /\ ready' = [ready EXCEPT ![s] = "closed"]
        /\ reg' = reg \ {s}
        /\ ends' = [ends EXCEPT ![s] = @ + 1]
    BY <1>3 DEF CloseTimeout
  <2>2. s \notin told
    BY <1>3 DEF IInv, Final
  <2> QED
    BY <1>1, <2>1, <2>2
    DEF IInv, PageShape, Registered, Final, Silent, States
<1> QED
  BY <1>2, <1>3

LEMMA TypeStepOK == ASSUME IInv, NEW s \in Socks, Type(s) PROVE IInv' /\ Silent
<1>1. UNCHANGED <<want, reg, ready, timers, shown, ends, told>>
  BY DEF Type
<1> QED
  BY <1>1 DEF IInv, PageShape, Registered, Final, Silent

LEMMA OnRecvOK == ASSUME IInv, OnRecv PROVE IInv' /\ Silent
<1> DEFINE s == Head(toViewer).s
<1>1. UNCHANGED <<want, reg, ends, told>>
  BY DEF OnRecv
<1>2. CASE s \notin reg
  <2>1. UNCHANGED <<ready, timers, shown>>
    BY <1>2 DEF OnRecv
  <2> QED
    BY <1>1, <2>1 DEF IInv, PageShape, Registered, Final, Silent
<1>3. CASE s \in reg
  <2>1. \E n : shown' = [shown EXCEPT ![s] = Append(@, n)]
    BY <1>3 DEF OnRecv
  <2>2. \/ UNCHANGED <<ready, timers>>
        \/ /\ ready' = [ready EXCEPT ![s] = "open"]
           /\ timers' = [timers EXCEPT ![s] = @ \ {"open"}]
    BY <1>3 DEF OnRecv
  <2>3. s \in Socks /\ s \notin told
    BY <1>3 DEF IInv, PageShape, Final
  <2> HIDE DEF s
  <2>4. DOMAIN shown' = Socks /\ \A x \in told : shown'[x] = shown[x]
    BY <2>1, <2>3 DEF IInv, PageShape
  <2>5. /\ ready' \in [Socks -> States]
        /\ timers' \in [Socks -> SUBSET {"open", "close"}]
        /\ \A x \in told : ready'[x] = ready[x] /\ timers'[x] = timers[x]
        /\ \A x \in Socks : ready'[x] = "none" => ready[x] = "none"
    BY <2>2, <2>3 DEF IInv, PageShape, States
  <2> QED
    BY <1>1, <2>4, <2>5 DEF IInv, PageShape, Registered, Final, Silent
<1> QED
  BY <1>2, <1>3

LEMMA OnClosedOK == ASSUME IInv, OnClosed PROVE IInv' /\ Silent
<1> DEFINE s == Head(toViewer).s
<1>1. UNCHANGED <<want, shown>>
  BY DEF OnClosed
<1>2. CASE s \notin reg
  <2>1. UNCHANGED <<reg, ready, timers, ends, told>>
    BY <1>2 DEF OnClosed
  <2> QED
    BY <1>1, <2>1 DEF IInv, PageShape, Registered, Final, Silent
<1>3. CASE s \in reg
  <2>1. /\ reg' = reg \ {s}
        /\ ready' = [ready EXCEPT ![s] = "closed"]
        /\ timers' = [timers EXCEPT ![s] = @ \ {"open"}]
        /\ ends' = [ends EXCEPT ![s] = @ + 1]
        /\ told' = told \cup {s}
    BY <1>3 DEF OnClosed
  <2>2. s \in Socks /\ s \notin told /\ want[s] = "no"
    BY <1>3 DEF IInv, PageShape, Registered, Final
  <2> HIDE DEF s
  <2> QED
    BY <1>1, <2>1, <2>2
    DEF IInv, PageShape, Registered, Final, Silent, States
<1> QED
  BY <1>2, <1>3

----------------------------------------------------------------------------

\* The agent and its bridges do not touch the sockets.
LEMMA AgentStepOK ==
  ASSUME IInv,
         \/ AgentDrop \/ AgentClear \/ AgentConnect \/ RoomNotices
         \/ AgentReads \/ LinkUp
         \/ \E s \in Socks : Run(s) \/ Local(s)
  PROVE  IInv' /\ Silent
<1>1. CASE AgentDrop \/ AgentClear \/ AgentConnect \/ RoomNotices \/ LinkUp
  BY <1>1, Undisturbed
  DEF AgentDrop, AgentClear, AgentConnect, RoomNotices, LinkUp
<1>2. CASE AgentReads
  BY <1>2, Undisturbed
  DEF AgentReads, OnShellOpen, OnShellRefused, OnShellInput
<1>3. ASSUME NEW s \in Socks, Run(s) \/ Local(s) PROVE IInv' /\ Silent
  <2>1. CASE Run(s)
    BY <2>1, Undisturbed DEF Run, Insert, Dialed, FromQueue, Ended
  <2>2. CASE Local(s)
    BY <2>2, Undisturbed
    DEF Local, DialFails, Output, LocalCloses, LocalBreaks, Ended
  <2> QED
    BY <1>3, <2>1, <2>2
<1> QED
  BY <1>1, <1>2, <1>3

LEMMA PageStepOK ==
  ASSUME IInv, NEW s \in Socks, Page(s) PROVE IInv' /\ Silent
  BY NewOK, TypeStepOK, CloseOK, EnsuredOK, PinFailsOK, RegisterOK,
     OpenTimeoutOK, CloseTimeoutOK
  DEF Page

LEMMA NextOK == IInv /\ [Next]_vars => IInv' /\ (Silent \/ UNCHANGED vars)
<1> SUFFICES ASSUME IInv, [Next]_vars
             PROVE  IInv' /\ (Silent \/ UNCHANGED vars)
  OBVIOUS
<1>1. CASE UNCHANGED vars
  BY <1>1, Undisturbed DEF vars, sockVars
<1>2. CASE LinkFails \/ LinkDrop \/ OnPresence \/ OnRecv \/ OnClosed
  BY <1>2, LinkFailsOK, LinkDropOK, OnPresenceOK, OnRecvOK, OnClosedOK
<1>3. CASE \/ AgentDrop \/ AgentClear \/ AgentConnect \/ RoomNotices
           \/ AgentReads \/ LinkUp
           \/ \E s \in Socks : Run(s) \/ Local(s)
  BY <1>3, AgentStepOK
<1>4. CASE \E s \in Socks : Page(s)
  BY <1>4, PageStepOK
<1> QED
  BY <1>1, <1>2, <1>3, <1>4 DEF Next

LEMMA Invariant == Spec => []IInv
<1> QED
  BY InitOK, NextOK, PTL DEF Spec

\* However often links, agents and timers come and go, a socket the relay has
\* closed is not closed again, shows nothing more and does not open again.
THEOREM LastWord == Spec => FinalWord
<1>1. IInv /\ [Next]_vars =>
        [\A s \in told : /\ ready'[s] = "closed" /\ ends'[s] = ends[s]
                         /\ shown'[s] = shown[s]]_vars
  BY NextOK DEF Silent
<1> QED
  BY <1>1, Invariant, PTL DEF Spec, FinalWord
=============================================================================
