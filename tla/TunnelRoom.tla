------------------------------- MODULE TunnelRoom -------------------------------
(***************************************************************************)
(* The room that pairs one agent with its viewers (src/cf/worker/room.ts): *)
(* a Durable Object that may be evicted and woken at any time.  The        *)
(* sockets and the storage survive, the fields of the object do not.       *)
(*                                                                         *)
(* The object handles one event at a time, and no event is delivered while *)
(* it waits for its storage, so every handler is one step.  A socket that  *)
(* the room has closed delivers nothing more.                              *)
(***************************************************************************)
EXTENDS Integers, FiniteSets

CONSTANTS
  Agents,       \* sockets of agents, one per connection
  Clients,      \* sockets of viewers, one per connection
  None,         \* no agent, no caps, no chunk
  Chunks,       \* ui-chunk messages of one upload
  RespMax,      \* bound: envelopes of one response
  MaxMsg,       \* MAX_MSG_PER_WINDOW
  MaxWakes,     \* bound: evictions
  Gates,        \* the agents run with --relay-auth
  StorageFails  \* a put or a get of the storage may fail

ASSUME RoomNoneAssumption == None \notin Agents \cup Clients
ASSUME RoomDisjointAssumption == Agents \cap Clients = {}
ASSUME RoomBoundAssumption ==
  /\ Chunks \in Nat \ {0} /\ RespMax \in Nat /\ MaxMsg \in Nat \ {0}
  /\ MaxWakes \in Nat /\ Gates \in BOOLEAN /\ StorageFails \in BOOLEAN

VARIABLES
  sock,    \* each socket: "new", "live", "closing" (closed by us), "gone"
  agent,   \* this.agent
  clients, \* this.clients
  gated,   \* authGated
  caps,    \* lastAgentHello: the agent that said it
  pending, \* uiPending: the upload each chunk belongs to
  ui,      \* uiHtml
  loaded,  \* uiLoaded
  stored,  \* the UI in the storage
  count,   \* msgCount
  told,    \* the presence each viewer was told last
  seen,    \* the agent whose caps each viewer was sent last
  step,    \* an agent's next message: 0 hello, 1 ui-begin, then chunks, ui-end
  owes,    \* envelopes an agent has still to send
  newest,  \* the last complete upload
  wakes    \* evictions so far

memory == <<agent, clients, gated, caps, pending, ui, loaded, count>>
outside == <<sock, told, seen, step, owes>>
vars == <<memory, outside, stored, newest, wakes>>

Sockets == Agents \cup Clients
NoUpload == [i \in {} |-> None]
Blank == [i \in 1..Chunks |-> None]
EndStep == Chunks + 2
Live(s) == sock[s] = "live"

\* broadcast of the agent's presence.
Tell(what) == told' = [c \in Clients |-> IF c \in clients THEN what ELSE told[c]]

\* A storage call succeeds, or fails where that is considered.
Outcome == IF StorageFails THEN BOOLEAN ELSE {TRUE}

\* ensureUiLoaded: one attempt per life of the object.
LoadUi ==
  /\ loaded' = TRUE
  /\ IF loaded THEN UNCHANGED ui
     ELSE \E ok \in Outcome :
            ui' = IF ok /\ stored # NoUpload THEN stored ELSE ui

----------------------------------------------------------------------------
(* Sockets come and go *)

\* A new agent replaces the one before, whose socket is closed with 4001;
\* the caps, the gate and the upload of the one before stay.
AgentJoins(a) ==
  /\ sock[a] = "new"
  /\ sock' = [s \in Sockets |-> IF s = a THEN "live"
                                ELSE IF s = agent THEN "closing" ELSE sock[s]]
  /\ agent' = a
  /\ Tell("on")
  /\ LoadUi
  /\ UNCHANGED <<clients, gated, caps, pending, count, seen, step, owes,
                 stored, newest, wakes>>

\* A viewer is greeted with the caps and with the agent's presence.
ClientJoins(c) ==
  /\ sock[c] = "new"
  /\ sock' = [sock EXCEPT ![c] = "live"]
  /\ clients' = clients \cup {c}
  /\ LoadUi
  /\ told' = [told EXCEPT ![c] = IF agent = None THEN "off" ELSE "on"]
  /\ seen' = [seen EXCEPT ![c] = caps]
  /\ UNCHANGED <<agent, gated, caps, pending, count, step, owes, stored,
                 newest, wakes>>

\* Faulty variant: any agent socket that closes takes the agent down.
LeavesForAll(s) ==
  /\ sock[s] \in {"live", "closing"}
  /\ sock' = [sock EXCEPT ![s] = "gone"]
  /\ count' = [count EXCEPT ![s] = 0]
  /\ IF s \in Agents
       THEN /\ agent' = None /\ caps' = None /\ gated' = FALSE
            /\ pending' = NoUpload
            /\ Tell("off")
       ELSE UNCHANGED <<agent, caps, gated, pending, told>>
  /\ clients' = clients \ {s}
  /\ UNCHANGED <<ui, loaded, seen, step, owes, stored, newest, wakes>>

\* webSocketClose, webSocketError and drop: only the current agent matters.
Leaves(s) ==
  /\ sock[s] \in {"live", "closing"}
  /\ sock' = [sock EXCEPT ![s] = "gone"]
  /\ count' = [count EXCEPT ![s] = 0]
  /\ IF s = agent
       THEN /\ agent' = None /\ caps' = None /\ gated' = FALSE
            /\ pending' = NoUpload
            /\ Tell("off")
       ELSE UNCHANGED <<agent, caps, gated, pending, told>>
  /\ clients' = clients \ {s}
  /\ UNCHANGED <<ui, loaded, seen, step, owes, stored, newest, wakes>>

\* The object is evicted and, with the next event, constructed again from
\* the sockets it still has. Closed sockets have finished their handshake.
Wakes ==
  /\ wakes < MaxWakes
  /\ \A s \in Sockets : sock[s] # "closing"
  /\ wakes' = wakes + 1
  /\ agent' \in IF \E a \in Agents : Live(a) THEN {a \in Agents : Live(a)}
                ELSE {None}
  /\ clients' = {c \in Clients : Live(c)}
  /\ gated' = FALSE /\ caps' = None /\ pending' = NoUpload
  /\ ui' = NoUpload /\ loaded' = FALSE
  /\ count' = [s \in Sockets |-> 0]
  /\ UNCHANGED <<outside, stored, newest>>

----------------------------------------------------------------------------
(* webSocketMessage *)

\* Faulty variant: one message more than the limit passes.
PassLate(s) ==
  /\ Live(s) /\ count[s] <= MaxMsg
  /\ count' = [count EXCEPT ![s] = @ + 1]

\* The flood guard lets a message of s through.
Pass(s) ==
  /\ Live(s) /\ count[s] < MaxMsg
  /\ count' = [count EXCEPT ![s] = @ + 1]

\* The flood guard closes s with 4408 and drops the message.
Flood(s) ==
  /\ Live(s) /\ count[s] = MaxMsg
  /\ s \in Agents => step[s] <= EndStep \/ owes[s] > 0
  /\ sock' = [sock EXCEPT ![s] = "closing"]
  /\ UNCHANGED <<memory, told, seen, step, owes, stored, newest, wakes>>

\* MSG_WINDOW_MS is over.
WindowEnds(s) ==
  /\ count[s] > 0
  /\ count' = [count EXCEPT ![s] = 0]
  /\ UNCHANGED <<agent, clients, gated, caps, pending, ui, loaded, outside,
                 stored, newest, wakes>>

Advance(a) == step' = [step EXCEPT ![a] = @ + 1]

\* The room sends what comes from an agent to every viewer.
Relay(a) == seen' = [c \in Clients |-> IF c \in clients THEN a ELSE seen[c]]

\* Faulty variant: caps that are there already are kept.
HelloKept(a) ==
  /\ step[a] = 0 /\ Advance(a) /\ Pass(a)
  /\ gated' = Gates
  /\ caps' = IF caps = None THEN a ELSE caps
  /\ Relay(a)
  /\ UNCHANGED <<agent, clients, pending, ui, loaded, sock, told, owes,
                 stored, newest, wakes>>

\* The agent's hello goes to the viewers, and its caps are copied for those
\* that come later.
Hello(a) ==
  /\ step[a] = 0 /\ Advance(a) /\ Pass(a)
  /\ gated' = Gates
  /\ caps' = a
  /\ Relay(a)
  /\ UNCHANGED <<agent, clients, pending, ui, loaded, sock, told, owes,
                 stored, newest, wakes>>

\* A new upload starts from nothing, whatever the one before has left.
UiBegin(a) ==
  /\ step[a] = 1 /\ Advance(a) /\ Pass(a)
  /\ pending' = Blank
  /\ UNCHANGED <<agent, clients, gated, caps, ui, loaded, sock, told, seen,
                 owes, stored, newest, wakes>>

UiChunk(a) ==
  /\ step[a] \in 2..(Chunks + 1) /\ Advance(a) /\ Pass(a)
  /\ pending' = IF pending = NoUpload THEN pending
                ELSE [pending EXCEPT ![step[a] - 1] = a]
  /\ UNCHANGED <<agent, clients, gated, caps, ui, loaded, sock, told, seen,
                 owes, stored, newest, wakes>>

Complete == pending # NoUpload /\ \A i \in 1..Chunks : pending[i] # None

\* Faulty variant: the UI is kept in memory and never stored.
UiEndUnstored(a) ==
  /\ step[a] = EndStep /\ Advance(a) /\ Pass(a)
  /\ pending' = NoUpload
  /\ IF Complete THEN ui' = pending /\ newest' = pending
                 ELSE UNCHANGED <<ui, newest>>
  /\ UNCHANGED <<agent, clients, gated, caps, loaded, sock, told, seen,
                 owes, stored, wakes>>

\* A complete upload becomes the UI, in memory and in the storage.
UiEnd(a) ==
  /\ step[a] = EndStep /\ Advance(a) /\ Pass(a)
  /\ pending' = NoUpload
  /\ IF Complete
       THEN /\ ui' = pending /\ newest' = pending
            /\ \E ok \in Outcome : stored' = IF ok THEN pending ELSE stored
       ELSE UNCHANGED <<ui, stored, newest>>
  /\ UNCHANGED <<agent, clients, gated, caps, loaded, sock, told, seen,
                 owes, wakes>>

\* A viewer asks the agent for something: its answer takes several messages.
ClientAsks(c) ==
  /\ Pass(c)
  /\ owes' = IF agent # None /\ Live(agent) /\ owes[agent] = 0
               THEN [owes EXCEPT ![agent] = RespMax] ELSE owes
  /\ UNCHANGED <<agent, clients, gated, caps, pending, ui, loaded, sock,
                 told, seen, step, stored, newest, wakes>>

AgentAnswers(a) ==
  /\ step[a] > EndStep /\ owes[a] > 0
  /\ Pass(a)
  /\ owes' = [owes EXCEPT ![a] = @ - 1]
  /\ UNCHANGED <<agent, clients, gated, caps, pending, ui, loaded, sock,
                 told, seen, step, stored, newest, wakes>>

\* A viewer asks the room for its UI, through its socket or over HTTP.
UiRequest(c) ==
  /\ Pass(c) /\ LoadUi
  /\ UNCHANGED <<agent, clients, gated, caps, pending, outside, stored,
                 newest, wakes>>

Fetches ==
  /\ LoadUi
  /\ UNCHANGED <<agent, clients, gated, caps, pending, count, outside,
                 stored, newest, wakes>>

AgentSends(a) == Hello(a) \/ UiBegin(a) \/ UiChunk(a) \/ UiEnd(a)
                 \/ AgentAnswers(a)

----------------------------------------------------------------------------

Init ==
  /\ sock = [s \in Sockets |-> "new"]
  /\ agent = None /\ clients = {} /\ gated = FALSE /\ caps = None
  /\ pending = NoUpload /\ ui = NoUpload /\ loaded = FALSE
  /\ stored = NoUpload /\ newest = NoUpload
  /\ count = [s \in Sockets |-> 0]
  /\ told = [c \in Clients |-> "nothing"]
  /\ seen = [c \in Clients |-> None]
  /\ step = [a \in Agents |-> 0] /\ owes = [a \in Agents |-> 0]
  /\ wakes = 0

Next ==
  \/ \E a \in Agents : AgentJoins(a) \/ AgentSends(a)
  \/ \E c \in Clients : ClientJoins(c) \/ ClientAsks(c) \/ UiRequest(c)
  \/ \E s \in Sockets : Leaves(s) \/ Flood(s) \/ WindowEnds(s)
  \/ Wakes \/ Fetches

Spec == Init /\ [][Next]_vars

----------------------------------------------------------------------------
(* Properties *)

Uploads == {NoUpload} \cup [1..Chunks -> Agents \cup {None}]

\* Every variable keeps its type; a stored or served UI has all its chunks.
TypeOK ==
  /\ sock \in [Sockets -> {"new", "live", "closing", "gone"}]
  /\ agent \in Agents \cup {None} /\ clients \subseteq Clients
  /\ gated \in BOOLEAN /\ caps \in Agents \cup {None}
  /\ pending \in Uploads
  /\ {ui, stored, newest} \subseteq {NoUpload} \cup [1..Chunks -> Agents]
  /\ loaded \in BOOLEAN
  /\ count \in [Sockets -> 0..MaxMsg]
  /\ told \in [Clients -> {"nothing", "on", "off"}]
  /\ seen \in [Clients -> Agents \cup {None}]
  /\ step \in [Agents -> 0..(EndStep + 1)] /\ owes \in [Agents -> 0..RespMax]
  /\ wakes \in 0..MaxWakes

\* Every connected viewer was told last what is true of the sockets
\* (room.ts 130, 155-161, 416): "on" while an agent is connected, "off" when
\* no agent's socket is left, across replacements, late closes and evictions.
PresenceTold ==
  \A c \in Clients : Live(c) =>
    /\ (\E a \in Agents : Live(a)) => told[c] = "on"
    /\ (\A a \in Agents : sock[a] \in {"new", "gone"}) => told[c] = "off"

\* Once the connected agent has said hello no connected viewer is left with
\* the caps of another one, "stale caps would seal viewers to a dead
\* (sess,epoch)" (room.ts 411-412), whether it came before the hello or after
\* it; when the agent goes, its caps, its gate and its half upload go too.
\* Between a replacement and that hello the code greets viewers with the caps
\* of the agent replaced (README, 3.2).
FreshCaps ==
  /\ \A c \in Clients :
       (Live(c) /\ agent # None /\ step[agent] > 0) => seen[c] \in {None, agent}
  /\ agent = None => caps = None /\ ~gated /\ pending = NoUpload

\* No viewer is greeted with the caps of an agent that is not the room's.
\* The code does not keep this (README, 3.2): room.ts 121-130 leaves them.
NoStaleGreeting ==
  [][\A c \in Clients : (sock[c] = "new" /\ sock'[c] = "live")
       => seen'[c] \in {None, agent}]_vars

\* What the room serves is the last complete upload, across evictions
\* (room.ts 5-7), as long as its storage works.
UiCurrent == ~StorageFails /\ loaded => ui = newest

\* A response within the protocol's own cap goes through (README.md 37 of
\* the backend: "chunked at 48KB raw (32MB cap per request/response)"): the
\* room's agent is not cut off by it.  The code does not keep this (README, 3.2).
AgentKeepsLine == agent # None => Live(agent)
=============================================================================
