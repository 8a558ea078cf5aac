------------------------------ MODULE SealedRelay ------------------------------
(***************************************************************************)
(* Sealed requests through the relay: the agent's side of the channel      *)
(* (src/cli/backend/src/relay.rs and e2e.rs) and the browsers' side        *)
(* (src/cli/frontend/src/relay-shim.ts and relay-e2e.ts).  The tunnel room *)
(* in the middle is a broadcast to the viewers that stay connected, a      *)
(* queue to the agent, and a copy of the agent's last hello.               *)
(*                                                                         *)
(* The agent keeps ONE pair of counters for all viewers; a viewer keeps a  *)
(* pair per channel object.  An envelope opens under the key, the session  *)
(* and the direction it was sealed for, which never differ here, and under *)
(* its epoch and its seq, which may.  Every crypto call of the browser is  *)
(* asynchronous: it is one step to start and another to finish.            *)
(***************************************************************************)
EXTENDS Integers, Sequences, FiniteSets

CONSTANTS
  Viewers,     \* browser tabs
  Reqs,        \* requests of one tab, with an empty body each
  Parts,       \* envelopes of one response: rpc-begin, chunks, rpc-end
  MaxEpoch,    \* bound: how often the agent reconnects
  MaxConnects  \* bound: how often one tab opens its socket

ASSUME PartsAssumption == Parts \in Nat /\ Parts >= 2
ASSUME RelayBoundAssumption == MaxEpoch \in Nat /\ MaxConnects \in Nat

VARIABLES
  online,      \* the agent's socket is the room's agent
  epoch,       \* epoch of the agent's connection
  tx, rx,      \* E2e.tx_seq and E2e.rx_next of that connection
  peer,        \* the connection has seen a client hello that offers E2E
  greeting,    \* how far it is with one: "no", "noted", "reset"
  task,        \* proxy_rpc: next part of each response, 0 when none runs
  caps,        \* the room's lastAgentHello: its epoch, None when cleared
  toAgent,     \* messages in flight to the agent
  toViewer,    \* messages in flight to each viewer
  link,        \* a viewer's socket: "off", "hello" (waits), "up" (helloDone)
  connects,    \* how often it has been opened
  known,       \* agentEpoch
  presence,    \* agentOnline: "unknown", "on", "off"
  chans,       \* channel objects made so far; the last one is this.e2e
  making,      \* channel creations under way
  buffer,      \* upgradePending
  drain,       \* what upgradeLate has still to open
  opening,     \* envelopes being decrypted
  sealing,     \* requests being encrypted
  req,         \* each request: "idle", "pending", "done", "failed"
  got          \* parts of its response that have arrived

agentVars == <<online, epoch, tx, rx, peer, greeting, task>>
netVars == <<caps, toAgent, toViewer>>
linkVars == <<link, connects, known, presence>>
cryptoVars == <<chans, making, buffer, drain, opening, sealing>>
reqVars == <<req, got>>
vars == <<agentVars, netVars, linkVars, cryptoVars, reqVars>>

None == -1

----------------------------------------------------------------------------
(* Messages *)

ClientHello == [kind |-> "hello"]
Request(v, r, e, n) ==
  [kind |-> "enc", v |-> v, r |-> r, epoch |-> e, seq |-> n]
Plain(v, r) == [kind |-> "plain", v |-> v, r |-> r]

AgentHello(e) == [kind |-> "hello", epoch |-> e]
Presence(up) == [kind |-> "agent", online |-> up]
Part(v, r, p, e, n) ==
  [kind |-> "enc", v |-> v, r |-> r, part |-> p, epoch |-> e, seq |-> n]
Refusal(v, r) == [kind |-> "error", v |-> v, r |-> r]

Requests == Viewers \X Reqs

\* The room sends what comes from the agent to every connected viewer.
Broadcast(q, ms) ==
  [v \in Viewers |-> IF link[v] = "off" THEN q[v] ELSE q[v] \o ms]

\* What a viewer sends reaches the room's agent, or nobody.
ToAgent(m) == toAgent' = IF online THEN Append(toAgent, m) ELSE toAgent

Pending(v) == {r \in Reqs : req[v][r] = "pending"}

\* Reject every pending request of v.
RejectAll(v) ==
  req' = [req EXCEPT ![v] =
            [r \in Reqs |-> IF @[r] = "pending" THEN "failed" ELSE @[r]]]

Sealed(v) == chans[v] # <<>>

----------------------------------------------------------------------------
(* The agent: run_agent and agent_session *)

\* The connection is lost: the room clears what it knows of the agent and
\* tells the viewers; the session ends with everything it had started.
AgentDrop ==
  /\ online /\ epoch < MaxEpoch
  /\ online' = FALSE
  /\ epoch' = epoch + 1
  /\ greeting' = "no"
  /\ task' = [q \in Requests |-> 0]
  /\ caps' = None
  /\ toAgent' = <<>>
  /\ toViewer' = Broadcast(toViewer, <<Presence(FALSE)>>)
  /\ UNCHANGED <<tx, rx, peer, linkVars, cryptoVars, reqVars>>

\* The next connection starts with fresh counters and says hello.
AgentConnect ==
  /\ ~online
  /\ online' = TRUE
  /\ tx' = 0 /\ rx' = 0 /\ peer' = FALSE
  /\ caps' = epoch
  /\ toViewer' = Broadcast(toViewer, <<Presence(TRUE), AgentHello(epoch)>>)
  /\ UNCHANGED <<epoch, greeting, task, toAgent, linkVars, cryptoVars, reqVars>>

\* The agent is back before the room has noticed that it was gone: the room
\* replaces it, and all the viewers hear is that there is an agent.
AgentReplace ==
  /\ online /\ epoch < MaxEpoch
  /\ epoch' = epoch + 1
  /\ tx' = 0 /\ rx' = 0 /\ peer' = FALSE /\ greeting' = "no"
  /\ task' = [q \in Requests |-> 0]
  /\ caps' = epoch + 1
  /\ toAgent' = <<>>
  /\ toViewer' = Broadcast(toViewer, <<Presence(TRUE), AgentHello(epoch + 1)>>)
  /\ UNCHANGED <<online, linkVars, cryptoVars, reqVars>>

\* agent_session handles one message after the other.
AgentTake(kind) ==
  /\ online /\ greeting = "no"
  /\ toAgent # <<>> /\ Head(toAgent).kind = kind
  /\ toAgent' = Tail(toAgent)

\* A client hello: note that the peer has E2E.
HelloNoted ==
  /\ AgentTake("hello")
  /\ peer' = TRUE /\ greeting' = "noted"
  /\ UNCHANGED <<online, epoch, tx, rx, task, caps, toViewer, linkVars,
                 cryptoVars, reqVars>>

\* Then restart the counters of all viewers, once their lock is free.
HelloReset ==
  /\ greeting = "noted" /\ greeting' = "reset"
  /\ tx' = 0 /\ rx' = 0
  /\ UNCHANGED <<online, epoch, peer, task, netVars, linkVars, cryptoVars,
                 reqVars>>

\* Last, answer with our own hello, which the room copies and sends to all.
HelloReply ==
  /\ greeting = "reset" /\ greeting' = "no"
  /\ toViewer' = Broadcast(toViewer, <<AgentHello(epoch)>>)
  /\ caps' = epoch
  /\ UNCHANGED <<online, epoch, tx, rx, peer, task, toAgent, linkVars,
                 cryptoVars, reqVars>>

OnClientHello == HelloNoted \/ HelloReset \/ HelloReply

\* A request is handed to a task of its own.
Spawn(v, r) == task' = [task EXCEPT ![<<v, r>>] = 1]

\* A sealed request: decrypt_next wants the very next seq of this epoch.
OnRequest ==
  LET m == Head(toAgent) IN
  /\ AgentTake("enc")
  /\ IF m.seq = rx /\ m.epoch = epoch
       THEN rx' = rx + 1 /\ Spawn(m.v, m.r)
       ELSE UNCHANGED <<rx, task>>
  /\ UNCHANGED <<online, epoch, tx, peer, greeting, caps, toViewer, linkVars,
                 cryptoVars, reqVars>>

\* A request in plaintext: refused before a client hello, served after one.
OnPlain ==
  LET m == Head(toAgent) IN
  /\ AgentTake("plain")
  /\ IF peer THEN Spawn(m.v, m.r) /\ UNCHANGED toViewer
             ELSE /\ toViewer' = Broadcast(toViewer, <<Refusal(m.v, m.r)>>)
                  /\ UNCHANGED task
  /\ UNCHANGED <<online, epoch, tx, rx, peer, greeting, caps, linkVars,
                 cryptoVars, reqVars>>

\* proxy_rpc refuses the whole response while no client hello was seen.
Withhold(v, r) ==
  /\ task[<<v, r>>] = 1 /\ ~peer
  /\ task' = [task EXCEPT ![<<v, r>>] = 0]
  /\ UNCHANGED <<online, epoch, tx, rx, peer, greeting, netVars, linkVars,
                 cryptoVars, reqVars>>

\* Faulty variant: the loop over the parts runs once too often.
RespondPastEnd(v, r) ==
  LET p == task[<<v, r>>] IN
  /\ p > 0
  /\ p = 1 => peer
  /\ task' = [task EXCEPT ![<<v, r>>] = IF p > Parts THEN 0 ELSE p + 1]
  /\ tx' = tx + 1
  /\ toViewer' = Broadcast(toViewer, <<Part(v, r, p, epoch, tx)>>)
  /\ UNCHANGED <<online, epoch, rx, peer, greeting, caps, toAgent, linkVars,
                 cryptoVars, reqVars>>

\* Seal and send the next part; other tasks may seal in between.
Respond(v, r) ==
  LET p == task[<<v, r>>] IN
  /\ p > 0
  /\ p = 1 => peer
  /\ task' = [task EXCEPT ![<<v, r>>] = IF p = Parts THEN 0 ELSE p + 1]
  /\ tx' = tx + 1
  /\ toViewer' = Broadcast(toViewer, <<Part(v, r, p, epoch, tx)>>)
  /\ UNCHANGED <<online, epoch, rx, peer, greeting, caps, toAgent, linkVars,
                 cryptoVars, reqVars>>

Serve == \/ OnClientHello \/ OnRequest \/ OnPlain
         \/ \E q \in Requests : Withhold(q[1], q[2]) \/ Respond(q[1], q[2])

----------------------------------------------------------------------------
(* A viewer's socket *)

\* ensure and sendHello: the room greets with the agent's caps, if it has
\* any, and with its presence; the hello goes to the agent, if there is one.
Open(v) ==
  /\ link[v] = "off" /\ connects[v] < MaxConnects
  /\ link' = [link EXCEPT ![v] = "hello"]
  /\ connects' = [connects EXCEPT ![v] = @ + 1]
  /\ toViewer' = [toViewer EXCEPT ![v] =
       (IF caps = None THEN <<>> ELSE <<AgentHello(caps)>>)
         \o <<Presence(online)>>]
  /\ ToAgent(ClientHello)
  /\ UNCHANGED <<agentVars, caps, known, presence, cryptoVars, reqVars>>

\* onClose, after a close by the network or by the connect timer: channel
\* creations that are under way run on.
Close(v) ==
  /\ link[v] # "off"
  /\ link' = [link EXCEPT ![v] = "off"]
  /\ presence' = [presence EXCEPT ![v] = "unknown"]
  /\ toViewer' = [toViewer EXCEPT ![v] = <<>>]
  /\ chans' = [chans EXCEPT ![v] = <<>>]
  /\ buffer' = [buffer EXCEPT ![v] = <<>>]
  /\ drain' = [drain EXCEPT ![v] = <<>>]
  /\ opening' = [opening EXCEPT ![v] = {}]
  /\ sealing' = [sealing EXCEPT ![v] = {}]
  /\ RejectAll(v)
  /\ UNCHANGED <<agentVars, caps, toAgent, connects, known, making, got>>

Take(v, kind) ==
  /\ link[v] # "off"
  /\ toViewer[v] # <<>> /\ Head(toViewer[v]).kind = kind
  /\ toViewer' = [toViewer EXCEPT ![v] = Tail(@)]

\* Start to create a channel: first the fingerprint, then the key.
Make(v, late) ==
  making' = [making EXCEPT ![v] = Append(@, [late |-> late, epoch |-> None])]

\* The agent's hello: it ends the handshake (helloResolve, finishHandshake),
\* or upgrades a viewer that has no channel yet (upgradeLate); a viewer
\* with a channel keeps it, whatever the epoch.
OnAgentHello(v) ==
  /\ Take(v, "hello")
  /\ known' = [known EXCEPT ![v] = Head(toViewer[v]).epoch]
  /\ link' = [link EXCEPT ![v] = "up"]
  /\ IF link[v] = "hello" THEN Make(v, FALSE)
     ELSE IF ~Sealed(v) THEN Make(v, TRUE)
     ELSE UNCHANGED making
  /\ UNCHANGED <<agentVars, caps, toAgent, connects, presence, chans, buffer,
                 drain, opening, sealing, reqVars>>

\* Faulty variant: the pending requests are left to their timers.
OnPresenceWaiting(v) ==
  /\ Take(v, "agent")
  /\ presence' = [presence EXCEPT ![v] =
                    IF Head(toViewer[v]).online THEN "on" ELSE "off"]
  /\ UNCHANGED <<agentVars, caps, toAgent, link, connects, known, cryptoVars,
                 reqVars>>

\* paired and agent: an agent that goes offline fails what is pending.
OnPresence(v) ==
  /\ Take(v, "agent")
  /\ presence' = [presence EXCEPT ![v] =
                    IF Head(toViewer[v]).online THEN "on" ELSE "off"]
  /\ IF Head(toViewer[v]).online THEN UNCHANGED req ELSE RejectAll(v)
  /\ UNCHANGED <<agentVars, caps, toAgent, link, connects, known, cryptoVars,
                 got>>

\* A plaintext rpc-error.
OnRefusal(v) ==
  LET m == Head(toViewer[v]) IN
  /\ Take(v, "error")
  /\ req' = IF m.v = v /\ req[v][m.r] = "pending"
              THEN [req EXCEPT ![v][m.r] = "failed"] ELSE req
  /\ UNCHANGED <<agentVars, caps, toAgent, linkVars, cryptoVars, got>>

----------------------------------------------------------------------------
(* A viewer's channel *)

Drop(seq, i) == SubSeq(seq, 1, i - 1) \o SubSeq(seq, i + 1, Len(seq))

\* The fingerprint is there; the agent's epoch is read now.
MakeKey(v) ==
  \E i \in DOMAIN making[v] :
    /\ making[v][i].epoch = None
    /\ making' = [making EXCEPT ![v][i].epoch = known[v]]
    /\ UNCHANGED <<agentVars, netVars, linkVars, chans, buffer, drain,
                   opening, sealing, reqVars>>

\* The channel is there and becomes this.e2e, in place of any earlier one;
\* upgradeLate goes on to what has been buffered meanwhile.
MakeDone(v) ==
  \E i \in DOMAIN making[v] :
    LET m == making[v][i] IN
    /\ m.epoch # None
    /\ chans' = [chans EXCEPT ![v] =
                   Append(@, [epoch |-> m.epoch, tx |-> 0, rx |-> 0])]
    /\ making' = [making EXCEPT ![v] = Drop(@, i)]
    /\ IF m.late
         THEN /\ drain' = [drain EXCEPT ![v] = @ \o buffer[v]]
              /\ buffer' = [buffer EXCEPT ![v] = <<>>]
         ELSE UNCHANGED <<drain, buffer>>
    /\ UNCHANGED <<agentVars, netVars, linkVars, opening, sealing, reqVars>>

\* open: the seq is checked before the decryption starts.
StartOpen(v, m, drained) ==
  LET c == Len(chans[v]) IN
  opening' = IF m.seq = chans[v][c].rx
               THEN [opening EXCEPT ![v] =
                       @ \cup {[ch |-> c, m |-> m, drained |-> drained]}]
               ELSE opening

\* An envelope: opened, or buffered while there is no channel.
OnEnvelope(v) ==
  LET m == Head(toViewer[v]) IN
  /\ Take(v, "enc")
  /\ IF Sealed(v) THEN StartOpen(v, m, FALSE) /\ UNCHANGED buffer
     ELSE buffer' = [buffer EXCEPT ![v] = Append(@, m)] /\ UNCHANGED opening
  /\ UNCHANGED <<agentVars, caps, toAgent, linkVars, chans, making, drain,
                 sealing, reqVars>>

\* upgradeLate opens the buffer one by one and gives up at the first error.
Drain(v) ==
  /\ drain[v] # <<>>
  /\ \A o \in opening[v] : ~o.drained
  /\ StartOpen(v, Head(drain[v]), TRUE)
  /\ drain' = [drain EXCEPT ![v] =
                 IF Head(@).seq = chans[v][Len(chans[v])].rx
                   THEN Tail(@) ELSE <<>>]
  /\ UNCHANGED <<agentVars, netVars, linkVars, chans, making, buffer,
                 sealing, reqVars>>

\* onRpc: the first part makes the request ready for the others, the last
\* one settles it: without a part it fails.
Collect(v, m) ==
  LET parts == IF m.part = 1 THEN {1} ELSE got[v][m.r] \cup {m.part} IN
  IF m.v = v /\ req[v][m.r] = "pending" /\ (m.part = 1 \/ 1 \in got[v][m.r])
    THEN /\ got' = [got EXCEPT ![v][m.r] = parts]
         /\ req' = IF m.part < Parts THEN req
                   ELSE [req EXCEPT ![v][m.r] =
                           IF parts = 1..Parts THEN "done" ELSE "failed"]
    ELSE UNCHANGED reqVars

\* The decryption is over: the counter moves on, the part is delivered; an
\* envelope of another epoch does not open.
OpenDone(v) ==
  \E o \in opening[v] :
    /\ opening' = [opening EXCEPT ![v] = @ \ {o}]
    /\ IF o.m.epoch = chans[v][o.ch].epoch
         THEN /\ chans' = [chans EXCEPT ![v][o.ch].rx = @ + 1]
              /\ Collect(v, o.m)
              /\ UNCHANGED drain
         ELSE /\ drain' = [drain EXCEPT ![v] = IF o.drained THEN <<>> ELSE @]
              /\ UNCHANGED <<chans, reqVars>>
    /\ UNCHANGED <<agentVars, netVars, linkVars, making, buffer, sealing>>

\* rpc and send: sealed when there is a channel, in plaintext when there is
\* none: helloDone is set before the channel is made.
Rpc(v, r) ==
  /\ link[v] = "up"
  /\ req[v][r] = "idle"
  /\ IF presence[v] = "off"
       THEN /\ req' = [req EXCEPT ![v][r] = "failed"]
            /\ UNCHANGED <<toAgent, sealing>>
       ELSE /\ req' = [req EXCEPT ![v][r] = "pending"]
            /\ IF Sealed(v)
                 THEN /\ sealing' = [sealing EXCEPT ![v] =
                           @ \cup {[ch |-> Len(chans[v]), r |-> r]}]
                      /\ UNCHANGED toAgent
                 ELSE ToAgent(Plain(v, r)) /\ UNCHANGED sealing
  /\ UNCHANGED <<agentVars, caps, toViewer, linkVars, chans, making, buffer,
                 drain, opening, got>>

\* seal: the seq is taken when the encryption is over.
SealDone(v) ==
  \E s \in sealing[v] :
    LET c == chans[v][s.ch] IN
    /\ sealing' = [sealing EXCEPT ![v] = @ \ {s}]
    /\ chans' = [chans EXCEPT ![v][s.ch].tx = @ + 1]
    /\ ToAgent(Request(v, s.r, c.epoch, c.tx))
    /\ UNCHANGED <<agentVars, caps, toViewer, linkVars, making, buffer, drain,
                   opening, reqVars>>

\* RPC_TIMEOUT_MS is over.
RpcTimeout(v, r) ==
  /\ req[v][r] = "pending"
  /\ req' = [req EXCEPT ![v][r] = "failed"]
  /\ UNCHANGED <<agentVars, netVars, linkVars, cryptoVars, got>>

Receive(v) == OnAgentHello(v) \/ OnPresence(v) \/ OnRefusal(v) \/ OnEnvelope(v)
Crypto(v) == MakeKey(v) \/ MakeDone(v) \/ Drain(v) \/ OpenDone(v) \/ SealDone(v)

----------------------------------------------------------------------------

\* The CLI prints the link when it starts: the agent is there first.
Init ==
  /\ online = TRUE /\ epoch = 0 /\ tx = 0 /\ rx = 0 /\ peer = FALSE
  /\ greeting = "no"
  /\ task = [q \in Requests |-> 0]
  /\ caps = 0
  /\ toAgent = <<>>
  /\ toViewer = [v \in Viewers |-> <<>>]
  /\ link = [v \in Viewers |-> "off"]
  /\ connects = [v \in Viewers |-> 0]
  /\ known = [v \in Viewers |-> 0]
  /\ presence = [v \in Viewers |-> "unknown"]
  /\ chans = [v \in Viewers |-> <<>>]
  /\ making = [v \in Viewers |-> <<>>]
  /\ buffer = [v \in Viewers |-> <<>>]
  /\ drain = [v \in Viewers |-> <<>>]
  /\ opening = [v \in Viewers |-> {}]
  /\ sealing = [v \in Viewers |-> {}]
  /\ req = [v \in Viewers |-> [r \in Reqs |-> "idle"]]
  /\ got = [v \in Viewers |-> [r \in Reqs |-> {}]]

Next ==
  \/ AgentDrop \/ AgentConnect \/ AgentReplace \/ Serve
  \/ \E v \in Viewers : Open(v) \/ Close(v) \/ Receive(v) \/ Crypto(v)
  \/ \E v \in Viewers, r \in Reqs : Rpc(v, r) \/ RpcTimeout(v, r)

Spec == Init /\ [][Next]_vars

\* The agent reconnects and answers, the browser reads its socket, crypto
\* finishes; nobody has to open, close, ask or lose a connection, and no
\* timer has to expire.
Fairness ==
  /\ WF_vars(AgentConnect) /\ WF_vars(Serve)
  /\ \A v \in Viewers : WF_vars(Receive(v)) /\ WF_vars(Crypto(v))

FairSpec == Spec /\ Fairness

----------------------------------------------------------------------------
(* Properties *)

Epochs == Nat \cup {None}

ToAgentMsgs ==
  {ClientHello}
  \cup [kind : {"enc"}, v : Viewers, r : Reqs, epoch : Nat, seq : Nat]
  \cup [kind : {"plain"}, v : Viewers, r : Reqs]

Parcel ==
  [kind : {"enc"}, v : Viewers, r : Reqs, part : 1..Parts, epoch : Nat,
   seq : Nat]
ToViewerMsgs ==
  [kind : {"hello"}, epoch : Nat] \cup [kind : {"agent"}, online : BOOLEAN]
  \cup Parcel \cup [kind : {"error"}, v : Viewers, r : Reqs]

AgentTypeOK ==
  /\ online \in BOOLEAN /\ peer \in BOOLEAN
  /\ epoch \in Nat /\ tx \in Nat /\ rx \in Nat
  /\ greeting \in {"no", "noted", "reset"}
  /\ task \in [Requests -> 0..Parts]

NetTypeOK ==
  /\ caps \in Epochs
  /\ toAgent \in Seq(ToAgentMsgs)
  /\ toViewer \in [Viewers -> Seq(ToViewerMsgs)]

LinkTypeOK ==
  /\ link \in [Viewers -> {"off", "hello", "up"}]
  /\ connects \in [Viewers -> Nat] /\ known \in [Viewers -> Nat]
  /\ presence \in [Viewers -> {"unknown", "on", "off"}]

CryptoTypeOK ==
  /\ chans \in [Viewers -> Seq([epoch : Nat, tx : Nat, rx : Nat])]
  /\ making \in [Viewers -> Seq([late : BOOLEAN, epoch : Epochs])]
  /\ buffer \in [Viewers -> Seq(Parcel)]
  /\ drain \in [Viewers -> Seq(Parcel)]
  /\ DOMAIN opening = Viewers /\ DOMAIN sealing = Viewers
  /\ \A v \in Viewers :
       /\ opening[v] \subseteq
            [ch : DOMAIN chans[v], m : Parcel, drained : BOOLEAN]
       /\ sealing[v] \subseteq [ch : DOMAIN chans[v], r : Reqs]

ReqTypeOK ==
  /\ req \in [Viewers -> [Reqs -> {"idle", "pending", "done", "failed"}]]
  /\ got \in [Viewers -> [Reqs -> SUBSET (1..Parts)]]

\* Every variable keeps its type; no decryption or encryption is under way
\* on a channel that does not exist.
TypeOK == AgentTypeOK /\ NetTypeOK /\ LinkTypeOK /\ CryptoTypeOK /\ ReqTypeOK

\* An agent that is gone leaves nobody waiting (relay-shim.ts 526-527, "fail
\* fast when the CLI is offline instead of hanging"): once its viewer has
\* read all the room sent, a connected tab has no pending request.
FailFast ==
  \A v \in Viewers :
    (link[v] = "up" /\ ~online /\ toViewer[v] = <<>>) => Pending(v) = {}

\* "seq stays strictly increasing per direction within one (sess,epoch,dir)"
\* (e2e.rs 49-51): of two envelopes of one connection that are on the way to
\* a viewer the later one has the higher seq.  The code does not keep this:
\* every client hello restarts the agent's counters within the epoch, with
\* responses under way (relay.rs 1200-1207).
SeqRises ==
  \A v \in Viewers : LET q == toViewer[v] IN
    \A i, j \in DOMAIN q :
      (/\ i < j /\ q[i].kind = "enc" /\ q[j].kind = "enc"
       /\ q[i].epoch = q[j].epoch) => q[i].seq < q[j].seq

\* The channel refuses only "replays/duplicates/out-of-order" envelopes
\* (relay-e2e.ts 229-232): one that arrives in its turn, as the successor of
\* those opened or being opened, is opened.  The code does not keep this
\* (README, 3.2).
InTurn(v) ==
  LET m == Head(toViewer[v])
      c == chans[v][Len(chans[v])]
  IN
  /\ Sealed(v) /\ toViewer[v] # <<>> /\ m.kind = "enc"
  /\ m.epoch = c.epoch
  /\ m.seq = c.rx + Cardinality({o \in opening[v] : o.ch = Len(chans[v])})
InTurnOpened ==
  [][\A v \in Viewers :
       (InTurn(v) /\ link'[v] = "up" /\ toViewer'[v] = Tail(toViewer[v]))
         => opening'[v] # opening[v]]_vars

\* A request that reached the wire is answered, or its tab is told that it
\* failed, without anybody having to wait for the 120 s timer.  The code does
\* not keep this (README, 3.2).
Answered ==
  \A v \in Viewers, r \in Reqs :
    (req[v][r] = "pending") ~> (req[v][r] \in {"done", "failed"})
=============================================================================
