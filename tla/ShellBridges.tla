------------------------------ MODULE ShellBridges ------------------------------
(***************************************************************************)
(* Terminals over the relay: the RelaySocket a page uses in place of a     *)
(* WebSocket (src/cli/frontend/src/relay-shim.ts), and the bridge the      *)
(* agent keeps for it, a loopback WebSocket to its own server              *)
(* (src/cli/backend/src/relay.rs).                                         *)
(*                                                                         *)
(* One browser; a message is the number of a keystroke or of a piece of    *)
(* output, so that a gap or a repetition shows.  Envelopes arrive in the   *)
(* order they were sealed in (SealedRelay says when they do not), and the  *)
(* server behind the loopback socket may do what it likes.                 *)
(***************************************************************************)
EXTENDS Integers, Sequences

CONSTANTS
  Socks,     \* RelaySockets of a page; each has a random channelId
  MaxKeys,   \* bound: keystrokes sent on one socket
  MaxOut,    \* bound: pieces of output of one loopback socket
  MaxConns,  \* bound: connections of the agent
  MaxLinks   \* bound: connections of the browser

ASSUME BridgeBoundAssumption ==
  MaxKeys \in Nat /\ MaxOut \in Nat /\ MaxConns \in Nat /\ MaxLinks \in Nat

VARIABLES
  line,     \* agent_session: "up" in its loop, "ending" after it, "down"
  conn,     \* number of that connection
  bridge,   \* "none", "spawned", "dialing", "up", "ended"
  home,     \* the connection a bridge was spawned by
  hold,     \* the sockets whose ids are in the shells map of that connection
  inq,      \* in_rx of each bridge
  out,      \* pieces of output the server has sent on each loopback socket
  typed,    \* keystrokes each page has sent
  got,      \* those the server has received
  room,     \* the room has an agent
  toAgent,  \* messages in flight to the agent
  toViewer, \* messages in flight to the browser
  link,     \* the browser's socket: "off", "up"
  links,    \* how often it has been opened
  presence, \* agentOnline
  want,     \* openShell waits: "no", "link" (ensure), "pin" (ensureAuthed)
  reg,      \* RelayConnection.shells
  ready,    \* readyState, "none" before the socket is made
  opened,   \* RelaySocket.opened
  timers,   \* its armed timers, of "open" and "close"
  shown,    \* output the page has been given
  ends,     \* close events the page has been given
  told      \* one of them came from the relay, not from a timer

bridgeVars == <<bridge, home, hold, inq, out, got>>
netVars == <<room, toAgent, toViewer>>
agentVars == <<line, conn, bridgeVars>>
linkVars == <<link, links, presence>>
sockVars == <<want, reg, ready, opened, timers, typed, shown, ends, told>>
vars == <<agentVars, netVars, linkVars, sockVars>>

Presence(up) == [kind |-> "agent", up |-> up]
Msg(kind, s) == [kind |-> kind, s |-> s]
Piece(kind, s, n) == [kind |-> kind, s |-> s, n |-> n]

\* send: through the room, to an agent that is there, or nowhere.
Send(m) == toAgent' = IF link = "up" /\ line = "up" THEN Append(toAgent, m)
                                                    ELSE toAgent

Tell(m) == toViewer' = IF link = "up" THEN Append(toViewer, m) ELSE toViewer

\* A bridge sends through the connection it was spawned by, if that lasts.
Live(s) == line = "up" /\ home[s] = conn
Emit(s, m) == IF Live(s) THEN Tell(m) ELSE UNCHANGED toViewer

----------------------------------------------------------------------------
(* The agent: agent_session and the messages it reads *)

\* The connection is lost; whether and when the room notices is its affair.
AgentDrop ==
  /\ line = "up" /\ conn < MaxConns
  /\ line' = "ending"
  /\ toAgent' = <<>>
  /\ UNCHANGED <<conn, bridgeVars, room, toViewer, linkVars, sockVars>>

\* shells.lock().await.clear(): the senders of the bridges' queues are gone.
AgentClear ==
  /\ line = "ending"
  /\ line' = "down"
  /\ hold' = {s \in hold : home[s] # conn}
  /\ UNCHANGED <<conn, bridge, home, inq, out, got, netVars, linkVars,
                 sockVars>>

\* The next connection; it replaces the last one if the room still has it,
\* and all the browser hears is that there is an agent.
AgentConnect ==
  /\ line = "down"
  /\ line' = "up" /\ conn' = conn + 1
  /\ room' = TRUE
  /\ Tell(Presence(TRUE))
  /\ UNCHANGED <<bridgeVars, toAgent, linkVars, sockVars>>

RoomNotices ==
  /\ line # "up" /\ room
  /\ room' = FALSE
  /\ Tell(Presence(FALSE))
  /\ UNCHANGED <<agentVars, toAgent, linkVars, sockVars>>

AgentTakes(kind) ==
  /\ line = "up" /\ toAgent # <<>> /\ Head(toAgent).kind = kind
  /\ toAgent' = Tail(toAgent)

InMap(s) == s \in hold /\ home[s] = conn

\* shell-open: a task of its own makes the bridge.
OnShellOpen ==
  LET s == Head(toAgent).s IN
  /\ AgentTakes("open")
  /\ IF InMap(s) THEN UNCHANGED <<bridge, home>>
     ELSE /\ bridge' = [bridge EXCEPT ![s] = "spawned"]
          /\ home' = [home EXCEPT ![s] = conn]
  /\ UNCHANGED <<line, conn, hold, inq, out, got, room, toViewer, linkVars,
                 sockVars>>

\* shell-open of a viewer whose PIN is not verified, or without E2E.
OnShellRefused ==
  /\ AgentTakes("open")
  /\ Tell(Msg("closed", Head(toAgent).s))
  /\ UNCHANGED <<agentVars, room, linkVars, sockVars>>

\* shell-send and shell-close: into the queue of a bridge that is listed.
OnShellInput ==
  LET m == Head(toAgent) IN
  /\ AgentTakes("send") \/ AgentTakes("close")
  /\ inq' = IF InMap(m.s) THEN [inq EXCEPT ![m.s] = Append(@, m)] ELSE inq
  /\ UNCHANGED <<line, conn, bridge, home, hold, out, got, room, toViewer,
                 linkVars, sockVars>>

----------------------------------------------------------------------------
(* One bridge: spawn_shell_bridge *)

Insert(s) ==
  /\ bridge[s] = "spawned"
  /\ bridge' = [bridge EXCEPT ![s] = "dialing"]
  /\ hold' = hold \cup {s}
  /\ UNCHANGED <<line, conn, home, inq, out, got, netVars, linkVars, sockVars>>

Dialed(s) ==
  /\ bridge[s] = "dialing"
  /\ bridge' = [bridge EXCEPT ![s] = "up"]
  /\ UNCHANGED <<line, conn, home, hold, inq, out, got, netVars, linkVars,
                 sockVars>>

\* Faulty variant: the id stays in the map.
EndedListed(s) ==
  /\ bridge' = [bridge EXCEPT ![s] = "ended"]
  /\ UNCHANGED hold
  /\ inq' = [inq EXCEPT ![s] = <<>>]
  /\ UNCHANGED <<line, conn, home, out, room, toAgent, linkVars, sockVars>>

\* The task is over: the id leaves the map, the queue is dropped.
Ended(s) ==
  /\ bridge' = [bridge EXCEPT ![s] = "ended"]
  /\ hold' = hold \ {s}
  /\ inq' = [inq EXCEPT ![s] = <<>>]
  /\ UNCHANGED <<line, conn, home, out, room, toAgent, linkVars, sockVars>>

DialFails(s) ==
  /\ bridge[s] = "dialing"
  /\ Ended(s)
  /\ Emit(s, Msg("closed", s))
  /\ UNCHANGED got

\* Faulty variant: the close is passed on, and the loop goes on.
FromQueueStays(s) ==
  /\ bridge[s] = "up" /\ inq[s] # <<>>
  /\ inq' = [inq EXCEPT ![s] = Tail(@)]
  /\ got' = IF Head(inq[s]).kind = "send"
              THEN [got EXCEPT ![s] = Append(@, Head(inq[s]).n)] ELSE got
  /\ UNCHANGED <<line, conn, bridge, home, hold, out, netVars, linkVars,
                 sockVars>>

\* in_rx.recv(): a keystroke, a close, or None once nobody can send any more.
\* Neither of the two ends is reported.
FromQueue(s) ==
  /\ bridge[s] = "up"
  /\ IF inq[s] # <<>> /\ Head(inq[s]).kind = "send"
       THEN /\ got' = [got EXCEPT ![s] = Append(@, Head(inq[s]).n)]
            /\ inq' = [inq EXCEPT ![s] = Tail(@)]
            /\ UNCHANGED <<line, conn, bridge, home, hold, out, netVars,
                           linkVars, sockVars>>
       ELSE /\ inq[s] # <<>> \/ s \notin hold
            /\ Ended(s)
            /\ UNCHANGED <<toViewer, got>>

\* local_rx.next(): output, the server's close frame, or an end without one.
Output(s) ==
  /\ bridge[s] = "up" /\ out[s] < MaxOut
  /\ out' = [out EXCEPT ![s] = @ + 1]
  /\ Emit(s, Piece("recv", s, out[s] + 1))
  /\ UNCHANGED <<line, conn, bridge, home, hold, inq, got, room, toAgent,
                 linkVars, sockVars>>

LocalCloses(s) ==
  /\ bridge[s] = "up"
  /\ Ended(s)
  /\ Emit(s, Msg("closed", s))
  /\ UNCHANGED got

LocalBreaks(s) ==
  /\ bridge[s] = "up"
  /\ Ended(s)
  /\ UNCHANGED <<toViewer, got>>

Run(s) == Insert(s) \/ Dialed(s) \/ FromQueue(s)

----------------------------------------------------------------------------
(* The browser's connection: RelayConnection *)

Awaiting == {s \in Socks : want[s] = "link"}

\* Faulty variant: the sockets that fail keep their open timers.
RingArmed(S) ==
  LET R == {s \in S : ready[s] # "closed"} IN
  /\ ready' = [s \in Socks |-> IF s \in R THEN "closed" ELSE ready[s]]
  /\ UNCHANGED timers
  /\ ends' = [s \in Socks |-> IF s \in R THEN ends[s] + 1 ELSE ends[s]]
  /\ told' = told \cup R

\* relayClosed and relayFailed of every socket in S: one that is closed
\* already hears nothing.
Ring(S) ==
  LET R == {s \in S : ready[s] # "closed"} IN
  /\ ready' = [s \in Socks |-> IF s \in R THEN "closed" ELSE ready[s]]
  /\ timers' = [s \in Socks |->
                  IF s \in R THEN timers[s] \ {"open"} ELSE timers[s]]
  /\ ends' = [s \in Socks |-> IF s \in R THEN ends[s] + 1 ELSE ends[s]]
  /\ told' = told \cup R

\* ensure, for a socket or for a request of the page: the room greets the
\* browser with the presence of its agent.
LinkUp ==
  /\ link = "off" /\ links < MaxLinks
  /\ link' = "up" /\ links' = links + 1
  /\ toViewer' = <<Presence(room)>>
  /\ UNCHANGED <<agentVars, room, toAgent, presence, sockVars>>

\* ensure rejects: whoever awaits it fails.
LinkFails ==
  /\ link = "off" /\ Awaiting # {}
  /\ Ring(Awaiting)
  /\ want' = [s \in Socks |-> IF s \in Awaiting THEN "no" ELSE want[s]]
  /\ UNCHANGED <<agentVars, netVars, linkVars, reg, opened, typed, shown>>

\* Faulty variant: the sockets stay registered.
LinkDropKept ==
  /\ link = "up"
  /\ link' = "off" /\ presence' = "unknown"
  /\ toViewer' = <<>>
  /\ \E k \in 0..Len(toAgent) : toAgent' = SubSeq(toAgent, 1, k)
  /\ Ring(reg)
  /\ UNCHANGED <<agentVars, room, links, want, reg, opened, typed, shown>>

\* onClose: what was on its way is lost, the open sockets are closed.
LinkDrop ==
  /\ link = "up"
  /\ link' = "off" /\ presence' = "unknown"
  /\ toViewer' = <<>>
  /\ \E k \in 0..Len(toAgent) : toAgent' = SubSeq(toAgent, 1, k)
  /\ Ring(reg) /\ reg' = {}
  /\ UNCHANGED <<agentVars, room, links, want, opened, typed, shown>>

ViewerTakes(kind) ==
  /\ link = "up" /\ toViewer # <<>> /\ Head(toViewer).kind = kind
  /\ toViewer' = Tail(toViewer)

\* paired and agent: without an agent every open socket is closed.
OnPresence ==
  LET up == Head(toViewer).up IN
  /\ ViewerTakes("agent")
  /\ presence' = IF up THEN "on" ELSE "off"
  /\ IF up THEN UNCHANGED <<reg, ready, timers, ends, told>>
           ELSE Ring(reg) /\ reg' = {}
  /\ UNCHANGED <<agentVars, room, toAgent, link, links, want, opened, typed,
                 shown>>

\* openShell after ensure: refused without an agent, else on to the PIN.
Ensured(s) ==
  /\ want[s] = "link" /\ link = "up"
  /\ IF presence = "off" THEN /\ want' = [want EXCEPT ![s] = "no"]
                              /\ Ring({s})
     ELSE /\ want' = [want EXCEPT ![s] = "pin"]
          /\ UNCHANGED <<ready, timers, ends, told>>
  /\ UNCHANGED <<agentVars, netVars, linkVars, reg, opened, typed, shown>>

PinFails(s) ==
  /\ want[s] = "pin"
  /\ want' = [want EXCEPT ![s] = "no"]
  /\ Ring({s})
  /\ UNCHANGED <<agentVars, netVars, linkVars, reg, opened, typed, shown>>

\* Faulty variant: the socket is open as soon as its open is sent.
RegisterOpens(s) ==
  /\ want[s] = "pin"
  /\ want' = [want EXCEPT ![s] = "no"]
  /\ reg' = reg \cup {s}
  /\ Send(Msg("open", s))
  /\ ready' = [ready EXCEPT ![s] = "open"]
  /\ opened' = [opened EXCEPT ![s] = TRUE]
  /\ UNCHANGED <<agentVars, room, toViewer, linkVars, timers, typed, shown,
                 ends, told>>

\* The socket is registered and its bridge asked for, whatever has become of
\* the socket and of the link meanwhile.
Register(s) ==
  /\ want[s] = "pin"
  /\ want' = [want EXCEPT ![s] = "no"]
  /\ reg' = reg \cup {s}
  /\ Send(Msg("open", s))
  /\ UNCHANGED <<agentVars, room, toViewer, linkVars, ready, opened, timers,
                 typed, shown, ends, told>>

----------------------------------------------------------------------------
(* The façade: RelaySocket *)

New(s) ==
  /\ ready[s] = "none"
  /\ ready' = [ready EXCEPT ![s] = "connecting"]
  /\ timers' = [timers EXCEPT ![s] = {"open"}]
  /\ want' = [want EXCEPT ![s] = "link"]
  /\ UNCHANGED <<agentVars, netVars, linkVars, reg, opened, typed, shown, ends,
                 told>>

\* SHELL_OPEN_TIMEOUT_MS: the page is told; the registration stays.
OpenTimeout(s) ==
  /\ "open" \in timers[s]
  /\ timers' = [timers EXCEPT ![s] = @ \ {"open"}]
  /\ ready' = [ready EXCEPT ![s] = "closed"]
  /\ ends' = [ends EXCEPT ![s] = @ + 1]
  /\ UNCHANGED <<agentVars, netVars, linkVars, want, reg, opened, typed, shown,
                 told>>

\* onRelay, shell-recv: the first one opens the socket, whatever its state.
OnRecv ==
  LET s == Head(toViewer).s IN
  /\ ViewerTakes("recv")
  /\ IF s \notin reg THEN UNCHANGED <<ready, opened, timers, shown>>
     ELSE /\ shown' = [shown EXCEPT ![s] = Append(@, Head(toViewer).n)]
          /\ opened' = [opened EXCEPT ![s] = TRUE]
          /\ IF opened[s] THEN UNCHANGED <<ready, timers>>
             ELSE /\ ready' = [ready EXCEPT ![s] = "open"]
                  /\ timers' = [timers EXCEPT ![s] = @ \ {"open"}]
  /\ UNCHANGED <<agentVars, room, toAgent, linkVars, want, reg, typed, ends,
                 told>>

\* onRelay, shell-closed.
OnClosed ==
  LET s == Head(toViewer).s IN
  /\ ViewerTakes("closed")
  /\ IF s \notin reg THEN UNCHANGED <<reg, ready, timers, ends, told>>
     ELSE /\ reg' = reg \ {s}
          /\ ready' = [ready EXCEPT ![s] = "closed"]
          /\ timers' = [timers EXCEPT ![s] = @ \ {"open"}]
          /\ ends' = [ends EXCEPT ![s] = @ + 1]
          /\ told' = told \cup {s}
  /\ UNCHANGED <<agentVars, room, toAgent, linkVars, want, opened, typed,
                 shown>>

\* send and sendShell.
Type(s) ==
  /\ ready[s] = "open" /\ typed[s] < MaxKeys
  /\ typed' = [typed EXCEPT ![s] = @ + 1]
  /\ Send(Piece("send", s, typed[s] + 1))
  /\ UNCHANGED <<agentVars, room, toViewer, linkVars, want, reg, ready, opened,
                 timers, shown, ends, told>>

\* close: the agent is asked at once, even before it is asked to open.  A
\* page calls it once.
Close(s) ==
  /\ ready[s] \in {"connecting", "open"}
  /\ ready' = [ready EXCEPT ![s] = "closing"]
  /\ timers' = [timers EXCEPT ![s] = @ \cup {"close"}]
  /\ Send(Msg("close", s))
  /\ UNCHANGED <<agentVars, room, toViewer, linkVars, want, reg, opened, typed,
                 shown, ends, told>>

\* 2 s later.
CloseTimeout(s) ==
  /\ "close" \in timers[s]
  /\ timers' = [timers EXCEPT ![s] = @ \ {"close"}]
  /\ IF ready[s] = "closed" THEN UNCHANGED <<ready, reg, ends>>
     ELSE /\ ready' = [ready EXCEPT ![s] = "closed"]
          /\ reg' = reg \ {s}
          /\ ends' = [ends EXCEPT ![s] = @ + 1]
  /\ UNCHANGED <<agentVars, netVars, linkVars, want, opened, typed, shown,
                 told>>

----------------------------------------------------------------------------
(* The specification *)

Init ==
  /\ line = "up" /\ conn = 1 /\ room = TRUE
  /\ bridge = [s \in Socks |-> "none"]
  /\ home = [s \in Socks |-> 0]
  /\ hold = {}
  /\ inq = [s \in Socks |-> <<>>]
  /\ out = [s \in Socks |-> 0] /\ typed = [s \in Socks |-> 0]
  /\ got = [s \in Socks |-> <<>>] /\ shown = [s \in Socks |-> <<>>]
  /\ toAgent = <<>> /\ toViewer = <<>>
  /\ link = "off" /\ links = 0 /\ presence = "unknown"
  /\ want = [s \in Socks |-> "no"]
  /\ reg = {}
  /\ ready = [s \in Socks |-> "none"]
  /\ opened = [s \in Socks |-> FALSE]
  /\ timers = [s \in Socks |-> {}]
  /\ ends = [s \in Socks |-> 0] /\ told = {}

\* Sealed or in plaintext, shell messages are handled alike.
AgentReads == OnShellOpen \/ OnShellRefused \/ OnShellInput
Local(s) == DialFails(s) \/ Output(s) \/ LocalCloses(s) \/ LocalBreaks(s)
Page(s) == \/ New(s) \/ Type(s) \/ Close(s)
           \/ Ensured(s) \/ PinFails(s) \/ Register(s)
           \/ OpenTimeout(s) \/ CloseTimeout(s)

Next ==
  \/ AgentDrop \/ AgentClear \/ AgentConnect \/ RoomNotices \/ AgentReads
  \/ LinkUp \/ LinkFails \/ LinkDrop \/ OnPresence \/ OnRecv \/ OnClosed
  \/ \E s \in Socks : Run(s) \/ Local(s) \/ Page(s)

Spec == Init /\ [][Next]_vars

\* The agent reads what it is sent, ends a session it has begun to end, and
\* runs its tasks.
Fairness ==
  /\ WF_vars(AgentReads) /\ WF_vars(AgentClear)
  /\ \A s \in Socks : WF_vars(Run(s))

FairSpec == Spec /\ Fairness

----------------------------------------------------------------------------
(* Properties *)

SockMsg ==
  [kind : {"open", "close", "closed"}, s : Socks]
  \cup [kind : {"send", "recv"}, s : Socks, n : Nat]

AgentTypeOK ==
  /\ line \in {"up", "ending", "down"} /\ conn \in Nat
  /\ bridge \in [Socks -> {"none", "spawned", "dialing", "up", "ended"}]
  /\ home \in [Socks -> 0..conn]
  /\ hold \subseteq {s \in Socks : bridge[s] \in {"dialing", "up"}}
  /\ inq \in [Socks -> Seq(SockMsg)]
  /\ out \in [Socks -> Nat] /\ got \in [Socks -> Seq(Nat)]

PageTypeOK ==
  /\ want \in [Socks -> {"no", "link", "pin"}]
  /\ reg \subseteq Socks /\ told \subseteq Socks
  /\ ready \in [Socks -> {"none", "connecting", "open", "closing", "closed"}]
  /\ opened \in [Socks -> BOOLEAN]
  /\ timers \in [Socks -> SUBSET {"open", "close"}]
  /\ typed \in [Socks -> Nat] /\ ends \in [Socks -> Nat]
  /\ shown \in [Socks -> Seq(Nat)]

\* Every variable keeps its type; an id in the map has a task that runs.
TypeOK ==
  /\ AgentTypeOK /\ PageTypeOK
  /\ room \in BOOLEAN
  /\ toAgent \in Seq(SockMsg)
  /\ toViewer \in Seq(SockMsg \cup [kind : {"agent"}, up : BOOLEAN])
  /\ link \in {"off", "up"} /\ links \in Nat
  /\ presence \in {"unknown", "on", "off"}

Counts(q) == \A i \in DOMAIN q : q[i] = i

\* What a shell gets of a socket is the beginning of what was typed into it:
\* the first keystroke is never lost to a bridge still being made, and none
\* reaches a later connection of the agent after an earlier one was lost.
TypedInOrder == \A s \in Socks : Counts(got[s])

\* What a page is shown is the beginning of the output, without a gap,
\* across lost links, replaced agents and both timers.
ShownInOrder == \A s \in Socks : Counts(shown[s])

\* The relay's last word is the last word (relay-shim.ts 422, "close live
\* shells so the UI retries cleanly"): a socket it closed is not closed a
\* second time, shows nothing more and does not open again.
FinalWord ==
  [][\A s \in told : /\ ready'[s] = "closed" /\ ends'[s] = ends[s]
                     /\ shown'[s] = shown[s]]_vars

\* A terminal that is closed after it had opened lets go of its shell: its
\* bridge ends, unless the browser loses its link first.
Released ==
  \A s \in Socks : (ready[s] = "closing" /\ opened[s])
                     ~> (bridge[s] = "ended" \/ link = "off")

\* A closed socket stays closed.  The code does not keep this (README, 3.2).
ClosedForGood ==
  [][\A s \in Socks : ready[s] = "closed" => ready'[s] = "closed"]_vars

\* "Drop all shell bridges (their tasks notice the closed out_tx / abort)"
\* (relay.rs 399): none outlives its connection.  The code does not keep
\* this (README, 3.2).
BridgesDropped ==
  \A s \in Socks : (bridge[s] # "none" /\ home[s] < conn)
                     ~> (bridge[s] = "ended")

\* A shell is not held by a socket that is closed.  The code does not keep
\* this (README, 3.2).
LetGo ==
  \A s \in Socks : (ready[s] = "closed") ~> (bridge[s] \in {"none", "ended"})
=============================================================================
