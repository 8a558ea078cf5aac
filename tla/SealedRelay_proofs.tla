--------------------------- MODULE SealedRelay_proofs ---------------------------
(***************************************************************************)
(* Proofs about SealedRelay, for any tabs, requests, parts of a response,  *)
(* reconnects of the agent and of the tabs: the types, and that an agent   *)
(* that is gone leaves no request waiting.                                 *)
(***************************************************************************)
EXTENDS SealedRelay, SequenceTheorems, TLAPS

Chan == [epoch : Nat, tx : Nat, rx : Nat]
Creation == [late : BOOLEAN, epoch : Epochs]

\* upgradeLate drains into the channel it has made.
DrainSealed == \A v \in Viewers : drain[v] # <<>> => chans[v] # <<>>

Types == TypeOK /\ DrainSealed

----------------------------------------------------------------------------
(* Which part of the state a step may touch *)

AgentSteps ==
  \/ AgentDrop \/ AgentConnect \/ AgentReplace
  \/ OnClientHello \/ OnRequest \/ OnPlain
  \/ \E v \in Viewers, r \in Reqs : Withhold(v, r) \/ Respond(v, r)
ViewerSteps(v) == Open(v) \/ Close(v) \/ Receive(v) \/ Crypto(v)

LEMMA StepsAre ==
  ASSUME Next
  PROVE  \/ AgentSteps \/ \E v \in Viewers : ViewerSteps(v)
         \/ \E v \in Viewers, r \in Reqs : Rpc(v, r) \/ RpcTimeout(v, r)
<1>1. CASE \E q \in Requests : Withhold(q[1], q[2]) \/ Respond(q[1], q[2])
  <2>1. PICK q \in Requests : Withhold(q[1], q[2]) \/ Respond(q[1], q[2])
    BY <1>1
  <2>2. q[1] \in Viewers /\ q[2] \in Reqs
    BY DEF Requests
  <2> QED
    BY <2>1, <2>2 DEF AgentSteps
<1> QED
  BY <1>1 DEF Next, Serve, AgentSteps, ViewerSteps

LEMMA AgentFrame ==
  ASSUME AgentSteps PROVE UNCHANGED <<linkVars, cryptoVars, reqVars>>
BY DEF AgentSteps, AgentDrop, AgentConnect, AgentReplace, OnClientHello, HelloNoted, HelloReset,
       HelloReply, OnRequest, OnPlain, Withhold, Respond

LEMMA ViewerFrame ==
  ASSUME NEW v \in Viewers, ViewerSteps(v)
  PROVE  UNCHANGED <<agentVars, caps>>
BY DEF ViewerSteps, Open, Close, Receive, OnAgentHello, OnPresence, OnRefusal, OnEnvelope,
       Crypto, MakeKey, MakeDone, Drain, OpenDone, SealDone, netVars

LEMMA RpcFrame ==
  ASSUME NEW v \in Viewers, NEW r \in Reqs, Rpc(v, r) \/ RpcTimeout(v, r)
  PROVE  /\ UNCHANGED <<agentVars, caps, toViewer, linkVars, got>>
         /\ UNCHANGED <<chans, making, buffer, drain, opening>>
BY DEF Rpc, RpcTimeout, netVars, cryptoVars

----------------------------------------------------------------------------
(* Messages *)

LEMMA MsgsTyped ==
  ASSUME NEW v \in Viewers, NEW r \in Reqs, NEW p \in 1..Parts, NEW e \in Nat, NEW n \in Nat,
         NEW b \in BOOLEAN
  PROVE  /\ ClientHello \in ToAgentMsgs /\ Request(v, r, e, n) \in ToAgentMsgs
         /\ Plain(v, r) \in ToAgentMsgs
         /\ AgentHello(e) \in ToViewerMsgs /\ Presence(b) \in ToViewerMsgs
         /\ Part(v, r, p, e, n) \in Parcel /\ Part(v, r, p, e, n) \in ToViewerMsgs
         /\ Refusal(v, r) \in ToViewerMsgs
BY DEF ClientHello, Request, Plain, AgentHello, Presence, Part, Refusal, ToAgentMsgs,
       ToViewerMsgs, Parcel

LEMMA KindsOf ==
  ASSUME NEW m \in ToViewerMsgs
  PROVE  /\ m.kind = "hello" => m.epoch \in Nat
         /\ m.kind = "agent" => m.online \in BOOLEAN
         /\ m.kind = "enc" => m \in Parcel
         /\ m.kind = "error" => m.v \in Viewers /\ m.r \in Reqs
BY DEF ToViewerMsgs, Parcel

LEMMA KindsToAgent ==
  ASSUME NEW m \in ToAgentMsgs
  PROVE  /\ m.kind = "enc" => m.v \in Viewers /\ m.r \in Reqs /\ m.epoch \in Nat /\ m.seq \in Nat
         /\ m.kind = "plain" => m.v \in Viewers /\ m.r \in Reqs
         /\ m.kind \in {"hello", "enc", "plain"}
BY DEF ToAgentMsgs, ClientHello

LEMMA ShortSeqs ==
  ASSUME NEW S, NEW x \in S, NEW y \in S
  PROVE  <<x>> \in Seq(S) /\ <<x, y>> \in Seq(S) /\ <<>> \in Seq(S)
OBVIOUS

LEMMA BroadcastTyped ==
  ASSUME NEW q \in [Viewers -> Seq(ToViewerMsgs)], NEW ms \in Seq(ToViewerMsgs)
  PROVE  Broadcast(q, ms) \in [Viewers -> Seq(ToViewerMsgs)]
BY ConcatProperties DEF Broadcast

LEMMA ToAgentTyped ==
  ASSUME toAgent \in Seq(ToAgentMsgs), NEW m \in ToAgentMsgs, ToAgent(m)
  PROVE  toAgent' \in Seq(ToAgentMsgs)
BY DEF ToAgent

LEMMA RejectedTyped ==
  ASSUME ReqTypeOK, NEW v \in Viewers, RejectAll(v), got' = got
  PROVE  /\ ReqTypeOK'
         /\ \A u \in Viewers, r \in Reqs :
              /\ req'[u][r] = IF u = v /\ req[u][r] = "pending" THEN "failed" ELSE req[u][r]
<1>1. req' = [req EXCEPT ![v] = [r \in Reqs |-> IF req[v][r] = "pending" THEN "failed" ELSE req[v][r]]]
  BY DEF RejectAll
<1>2. req \in [Viewers -> [Reqs -> {"idle", "pending", "done", "failed"}]]
  BY DEF ReqTypeOK
<1>3. [r \in Reqs |-> IF req[v][r] = "pending" THEN "failed" ELSE req[v][r]]
         \in [Reqs -> {"idle", "pending", "done", "failed"}]
  BY <1>2
<1> QED
  BY <1>1, <1>2, <1>3 DEF ReqTypeOK

----------------------------------------------------------------------------
(* Types: the agent *)

LEMMA AgentTakes ==
  ASSUME TypeOK, NEW kind, AgentTake(kind)
  PROVE  /\ toAgent' \in Seq(ToAgentMsgs) /\ toAgent' = Tail(toAgent)
         /\ Head(toAgent) \in ToAgentMsgs /\ Head(toAgent).kind = kind
         /\ toAgent # <<>> /\ online
BY HeadTailProperties DEF TypeOK, NetTypeOK, AgentTake

LEMMA SpawnTyped ==
  ASSUME AgentTypeOK, NEW v \in Viewers, NEW r \in Reqs, Spawn(v, r)
  PROVE  task' \in [Requests -> 0..Parts]
<1>1. <<v, r>> \in Requests
  BY DEF Requests
<1>2. 1 \in 0..Parts
  BY PartsAssumption
<1> QED
  BY <1>1, <1>2 DEF Spawn, AgentTypeOK

LEMMA AgentTypes == ASSUME TypeOK, AgentSteps PROVE TypeOK'
<1> USE DEF AgentTypeOK
<1>1. LinkTypeOK' /\ CryptoTypeOK' /\ ReqTypeOK'
  BY AgentFrame DEF TypeOK, LinkTypeOK, CryptoTypeOK, ReqTypeOK, linkVars, cryptoVars, reqVars
<1>2. /\ epoch \in Nat /\ tx \in Nat /\ rx \in Nat /\ greeting \in {"no", "noted", "reset"}
      /\ task \in [Requests -> 0..Parts] /\ Parts \in Nat /\ Parts >= 2
      /\ toAgent \in Seq(ToAgentMsgs) /\ caps \in Epochs
      /\ toViewer \in [Viewers -> Seq(ToViewerMsgs)]
  BY PartsAssumption DEF TypeOK, NetTypeOK
<1>3. /\ <<>> \in Seq(ToAgentMsgs) /\ [q \in Requests |-> 0] \in [Requests -> 0..Parts]
      /\ None \in Epochs /\ Nat \subseteq Epochs
  BY <1>2 DEF Epochs
<1>4. /\ \A e \in Nat : AgentHello(e) \in ToViewerMsgs
      /\ \A b \in BOOLEAN : Presence(b) \in ToViewerMsgs
      /\ \A v \in Viewers, r \in Reqs : Refusal(v, r) \in ToViewerMsgs
  BY DEF AgentHello, Presence, Refusal, ToViewerMsgs
<1>5. CASE AgentDrop
  <2>1. toViewer' \in [Viewers -> Seq(ToViewerMsgs)]
    <3>1. <<Presence(FALSE)>> \in Seq(ToViewerMsgs)
      BY <1>4, ShortSeqs
    <3> QED
      BY <1>2, <1>5, <3>1, BroadcastTyped DEF AgentDrop
  <2>2. AgentTypeOK'
    <3>1. online' \in BOOLEAN /\ peer' \in BOOLEAN
      BY <1>5 DEF AgentDrop, TypeOK
    <3>2. epoch' \in Nat /\ tx' \in Nat /\ rx' \in Nat
      BY <1>2, <1>5 DEF AgentDrop
    <3> QED
      BY <1>2, <1>3, <1>5, <3>1, <3>2 DEF AgentDrop
  <2> QED
    BY <1>1, <1>3, <1>5, <2>1, <2>2 DEF AgentDrop, TypeOK, NetTypeOK
<1>6. CASE AgentConnect
  <2>1. toViewer' \in [Viewers -> Seq(ToViewerMsgs)]
    <3>1. <<Presence(TRUE), AgentHello(epoch)>> \in Seq(ToViewerMsgs)
      BY <1>2, <1>4, ShortSeqs
    <3> QED
      BY <1>2, <1>6, <3>1, BroadcastTyped DEF AgentConnect
  <2>2. AgentTypeOK'
    BY <1>2, <1>6 DEF AgentConnect, TypeOK
  <2> QED
    BY <1>1, <1>2, <1>3, <1>6, <2>1, <2>2 DEF AgentConnect, TypeOK, NetTypeOK
<1>7. CASE AgentReplace
  <2>1. toViewer' \in [Viewers -> Seq(ToViewerMsgs)]
    <3>1. <<Presence(TRUE), AgentHello(epoch + 1)>> \in Seq(ToViewerMsgs)
      <4> DEFINE e == epoch + 1
      <4>1. e \in Nat
        BY <1>2
      <4> HIDE DEF e
      <4>2. Presence(TRUE) \in ToViewerMsgs /\ AgentHello(e) \in ToViewerMsgs
        BY <1>4, <4>1
      <4>3. <<Presence(TRUE), AgentHello(e)>> \in Seq(ToViewerMsgs)
        BY <4>2, ShortSeqs
      <4> QED
        BY <4>3 DEF e
    <3> QED
      BY <1>2, <1>7, <3>1, BroadcastTyped DEF AgentReplace
  <2>2. AgentTypeOK'
    <3>1. online' \in BOOLEAN /\ peer' \in BOOLEAN
      BY <1>7 DEF AgentReplace, TypeOK
    <3>2. epoch' \in Nat /\ tx' \in Nat /\ rx' \in Nat
      BY <1>2, <1>7 DEF AgentReplace
    <3> QED
      BY <1>2, <1>3, <1>7, <3>1, <3>2 DEF AgentReplace
  <2> QED
    BY <1>1, <1>2, <1>3, <1>7, <2>1, <2>2 DEF AgentReplace, TypeOK, NetTypeOK
<1>8. CASE OnClientHello
  <2>1. CASE HelloNoted
    <3>1. AgentTypeOK'
      BY <1>2, <2>1 DEF HelloNoted, TypeOK
    <3> QED
      BY <1>1, <1>2, <2>1, <3>1, AgentTakes DEF HelloNoted, TypeOK, NetTypeOK
  <2>2. CASE HelloReset
    <3>1. AgentTypeOK'
      BY <1>2, <2>2 DEF HelloReset, TypeOK
    <3> QED
      BY <1>1, <1>2, <2>2, <3>1 DEF HelloReset, TypeOK, NetTypeOK, netVars
  <2>3. CASE HelloReply
    <3>1. <<AgentHello(epoch)>> \in Seq(ToViewerMsgs)
      BY <1>2, <1>4, ShortSeqs
    <3>2. toViewer' \in [Viewers -> Seq(ToViewerMsgs)]
      BY <1>2, <2>3, <3>1, BroadcastTyped DEF HelloReply
    <3>3. AgentTypeOK'
      BY <1>2, <2>3 DEF HelloReply, TypeOK
    <3> QED
      BY <1>1, <1>2, <1>3, <2>3, <3>2, <3>3 DEF HelloReply, TypeOK, NetTypeOK
  <2> QED
    BY <1>8, <2>1, <2>2, <2>3 DEF OnClientHello
<1>9. CASE OnRequest
  <2> DEFINE m == Head(toAgent)
  <2>1. toAgent' \in Seq(ToAgentMsgs) /\ m \in ToAgentMsgs /\ m.kind = "enc"
    BY <1>9, AgentTakes DEF OnRequest
  <2>2. m.v \in Viewers /\ m.r \in Reqs
    BY <2>1, KindsToAgent
  <2>3. /\ \/ rx' = rx + 1 /\ Spawn(m.v, m.r)
           \/ UNCHANGED <<rx, task>>
        /\ UNCHANGED <<online, epoch, tx, peer, greeting, caps, toViewer>>
    BY <1>9 DEF OnRequest
  <2>4. task' \in [Requests -> 0..Parts] /\ rx' \in Nat
    <3>1. CASE rx' = rx + 1 /\ Spawn(m.v, m.r)
      BY <1>2, <2>2, <3>1, SpawnTyped DEF TypeOK
    <3>2. CASE UNCHANGED <<rx, task>>
      BY <1>2, <3>2
    <3> QED
      BY <2>3, <3>1, <3>2
  <2>5. AgentTypeOK'
    BY <2>3, <2>4 DEF TypeOK
  <2> QED
    BY <1>1, <2>1, <2>3, <2>5 DEF TypeOK, NetTypeOK
<1>10. CASE OnPlain
  <2> DEFINE m == Head(toAgent)
  <2>1. toAgent' \in Seq(ToAgentMsgs) /\ m \in ToAgentMsgs /\ m.kind = "plain"
    BY <1>10, AgentTakes DEF OnPlain
  <2>2. m.v \in Viewers /\ m.r \in Reqs
    BY <2>1, KindsToAgent
  <2>3. /\ \/ Spawn(m.v, m.r) /\ toViewer' = toViewer
           \/ toViewer' = Broadcast(toViewer, <<Refusal(m.v, m.r)>>) /\ UNCHANGED task
        /\ UNCHANGED <<online, epoch, tx, rx, peer, greeting, caps>>
    BY <1>10 DEF OnPlain
  <2>4. task' \in [Requests -> 0..Parts]
    BY <1>2, <2>2, <2>3, SpawnTyped DEF TypeOK
  <2>5. toViewer' \in [Viewers -> Seq(ToViewerMsgs)]
    <3>1. <<Refusal(m.v, m.r)>> \in Seq(ToViewerMsgs)
      BY <1>4, <2>2, ShortSeqs
    <3> QED
      BY <1>2, <2>3, <3>1, BroadcastTyped
  <2>6. AgentTypeOK'
    BY <2>3, <2>4 DEF TypeOK
  <2> QED
    BY <1>1, <2>1, <2>3, <2>5, <2>6 DEF TypeOK, NetTypeOK
<1>11. ASSUME NEW v \in Viewers, NEW r \in Reqs, Withhold(v, r) \/ Respond(v, r)
       PROVE  TypeOK'
  <2> DEFINE p == task[<<v, r>>]
  <2>1. <<v, r>> \in Requests /\ p \in 0..Parts
    BY <1>2 DEF Requests
  <2>2. CASE Withhold(v, r)
    BY <1>1, <1>2, <2>1, <2>2 DEF Withhold, TypeOK, NetTypeOK, netVars
  <2>3. CASE Respond(v, r)
    <3>1. /\ p > 0 /\ task' = [task EXCEPT ![<<v, r>>] = IF p = Parts THEN 0 ELSE p + 1]
          /\ tx' = tx + 1 /\ toViewer' = Broadcast(toViewer, <<Part(v, r, p, epoch, tx)>>)
          /\ UNCHANGED <<online, epoch, rx, peer, greeting, caps, toAgent>>
      BY <2>3 DEF Respond
    <3>2. p \in 1..Parts /\ (IF p = Parts THEN 0 ELSE p + 1) \in 0..Parts
      BY <1>2, <2>1, <3>1
    <3>3. Part(v, r, p, epoch, tx) \in ToViewerMsgs
      BY <1>2, <3>2 DEF Part, ToViewerMsgs, Parcel
    <3>4. <<Part(v, r, p, epoch, tx)>> \in Seq(ToViewerMsgs)
      BY <3>3, ShortSeqs
    <3>5. toViewer' \in [Viewers -> Seq(ToViewerMsgs)]
      BY <1>2, <3>1, <3>4, BroadcastTyped
    <3>6. task' \in [Requests -> 0..Parts]
      <4> DEFINE p1 == IF p = Parts THEN 0 ELSE p + 1
      <4> HIDE DEF p1
      <4> QED
        BY <1>2, <3>1, <3>2 DEF p1
    <3>7. AgentTypeOK'
      BY <1>2, <3>1, <3>6 DEF TypeOK
    <3> QED
      BY <1>1, <1>2, <3>1, <3>5, <3>7 DEF TypeOK, NetTypeOK
  <2> QED
    BY <1>11, <2>2, <2>3
<1> QED
  BY <1>5, <1>6, <1>7, <1>8, <1>9, <1>10, <1>11 DEF AgentSteps

----------------------------------------------------------------------------
(* Types: the tabs *)

LEMMA Takes ==
  ASSUME TypeOK, NEW v \in Viewers, NEW kind, Take(v, kind)
  PROVE  /\ toViewer' \in [Viewers -> Seq(ToViewerMsgs)] /\ link[v] # "off"
         /\ toViewer[v] # <<>> /\ toViewer'[v] = Tail(toViewer[v])
         /\ \A u \in Viewers : u # v => toViewer'[u] = toViewer[u]
         /\ Head(toViewer[v]) \in ToViewerMsgs /\ Head(toViewer[v]).kind = kind
<1>1. /\ toViewer \in [Viewers -> Seq(ToViewerMsgs)]
      /\ toViewer' = [toViewer EXCEPT ![v] = Tail(toViewer[v])]
      /\ toViewer[v] # <<>> /\ link[v] # "off" /\ Head(toViewer[v]).kind = kind
  BY DEF TypeOK, NetTypeOK, Take
<1>2. Head(toViewer[v]) \in ToViewerMsgs /\ Tail(toViewer[v]) \in Seq(ToViewerMsgs)
  BY <1>1, HeadTailProperties
<1> QED
  BY <1>1, <1>2

\* Decryptions and encryptions that may be under way on the channels c.
Opens(c) == [ch : DOMAIN c, m : Parcel, drained : BOOLEAN]
Seals(c) == [ch : DOMAIN c, r : Reqs]

LEMMA CryptoTyped ==
  ASSUME TypeOK
  PROVE  /\ chans \in [Viewers -> Seq(Chan)] /\ making \in [Viewers -> Seq(Creation)]
         /\ buffer \in [Viewers -> Seq(Parcel)] /\ drain \in [Viewers -> Seq(Parcel)]
         /\ \A v \in Viewers : opening[v] \subseteq Opens(chans[v])
         /\ \A v \in Viewers : sealing[v] \subseteq Seals(chans[v])
         /\ DOMAIN opening = Viewers /\ DOMAIN sealing = Viewers
BY DEF TypeOK, CryptoTypeOK, Chan, Creation, Opens, Seals

LEMMA EmptyIsTyped ==
  ASSUME NEW S, NEW f \in [Viewers -> Seq(S)], NEW v \in Viewers
  PROVE  [f EXCEPT ![v] = <<>>] \in [Viewers -> Seq(S)]
OBVIOUS

LEMMA OpenTypes ==
  ASSUME TypeOK, NEW v \in Viewers, Open(v)
  PROVE  TypeOK'
<1> DEFINE hello == IF caps = None THEN <<>> ELSE <<AgentHello(caps)>>
           welcome == hello \o <<Presence(online)>>
<1>1. /\ link' = [link EXCEPT ![v] = "hello"]
      /\ connects' = [connects EXCEPT ![v] = @ + 1]
      /\ toViewer' = [toViewer EXCEPT ![v] = welcome]
      /\ ToAgent(ClientHello)
      /\ UNCHANGED <<agentVars, caps, known, presence, cryptoVars, reqVars>>
  BY DEF Open
<1>2. welcome \in Seq(ToViewerMsgs)
  <2>1. Presence(online) \in ToViewerMsgs
    BY DEF TypeOK, AgentTypeOK, Presence, ToViewerMsgs
  <2>2. caps # None => AgentHello(caps) \in ToViewerMsgs
    BY DEF TypeOK, NetTypeOK, Epochs, AgentHello, ToViewerMsgs
  <2>3. hello \in Seq(ToViewerMsgs) /\ <<Presence(online)>> \in Seq(ToViewerMsgs)
    BY <2>1, <2>2, ShortSeqs
  <2> HIDE DEF hello
  <2> QED
    BY <2>3, ConcatProperties
<1> HIDE DEF welcome
<1>3. toAgent' \in Seq(ToAgentMsgs)
  <2>1. ClientHello \in ToAgentMsgs
    BY DEF ToAgentMsgs
  <2> QED
    BY <1>1, <2>1, ToAgentTyped DEF TypeOK, NetTypeOK
<1>4. AgentTypeOK' /\ CryptoTypeOK' /\ ReqTypeOK'
  BY <1>1 DEF TypeOK, AgentTypeOK, CryptoTypeOK, ReqTypeOK, agentVars, cryptoVars, reqVars
<1>5. NetTypeOK'
  BY <1>1, <1>2, <1>3 DEF TypeOK, NetTypeOK
<1>6. LinkTypeOK'
  BY <1>1 DEF TypeOK, LinkTypeOK
<1> QED
  BY <1>4, <1>5, <1>6 DEF TypeOK

LEMMA CloseTypes ==
  ASSUME TypeOK, NEW v \in Viewers, Close(v)
  PROVE  TypeOK'
<1>1. /\ link' = [link EXCEPT ![v] = "off"]
      /\ presence' = [presence EXCEPT ![v] = "unknown"]
      /\ toViewer' = [toViewer EXCEPT ![v] = <<>>]
      /\ chans' = [chans EXCEPT ![v] = <<>>]
      /\ buffer' = [buffer EXCEPT ![v] = <<>>]
      /\ drain' = [drain EXCEPT ![v] = <<>>]
      /\ opening' = [opening EXCEPT ![v] = {}]
      /\ sealing' = [sealing EXCEPT ![v] = {}]
      /\ RejectAll(v)
      /\ UNCHANGED <<agentVars, caps, toAgent, connects, known, making, got>>
  BY DEF Close
<1>2. AgentTypeOK'
  BY <1>1 DEF TypeOK, AgentTypeOK, agentVars
<1>3. NetTypeOK'
  BY <1>1 DEF TypeOK, NetTypeOK
<1>4. LinkTypeOK'
  BY <1>1 DEF TypeOK, LinkTypeOK
<1>5. CryptoTypeOK'
  <2>1. /\ chans' \in [Viewers -> Seq(Chan)] /\ making' \in [Viewers -> Seq(Creation)]
        /\ buffer' \in [Viewers -> Seq(Parcel)] /\ drain' \in [Viewers -> Seq(Parcel)]
    BY <1>1, CryptoTyped, EmptyIsTyped
  <2>2. DOMAIN opening = Viewers /\ DOMAIN sealing = Viewers
    BY DEF TypeOK, CryptoTypeOK
  <2>3. ASSUME NEW u \in Viewers
        PROVE  /\ opening'[u] \subseteq Opens(chans'[u])
               /\ sealing'[u] \subseteq Seals(chans'[u])
    <3>1. CASE u = v
      <4>1. opening'[u] = {} /\ sealing'[u] = {}
        BY <1>1, <2>2, <3>1
      <4> QED
        BY <4>1
    <3>2. CASE u # v
      <4>1. chans'[u] = chans[u] /\ opening'[u] = opening[u] /\ sealing'[u] = sealing[u]
        BY <1>1, <2>2, <3>2, CryptoTyped
      <4> QED
        BY <4>1, CryptoTyped
    <3> QED
      BY <3>1, <3>2
  <2> QED
    BY <1>1, <2>1, <2>2, <2>3 DEF CryptoTypeOK, Chan, Creation, Opens, Seals
<1>6. ReqTypeOK'
  BY <1>1, RejectedTyped DEF TypeOK
<1> QED
  BY <1>2, <1>3, <1>4, <1>5, <1>6 DEF TypeOK

LEMMA StartOpenTyped ==
  ASSUME TypeOK, NEW v \in Viewers, NEW m \in Parcel, NEW drained \in BOOLEAN,
         chans[v] # <<>>, StartOpen(v, m, drained)
  PROVE  /\ \A u \in Viewers : opening'[u] \subseteq Opens(chans[u])
         /\ DOMAIN opening' = Viewers
         /\ \A u \in Viewers : u # v => opening'[u] = opening[u]
         /\ \/ opening' = opening
            \/ opening' = [opening EXCEPT ![v] =
                             @ \cup {[ch |-> Len(chans[v]), m |-> m, drained |-> drained]}]
<1> DEFINE o == [ch |-> Len(chans[v]), m |-> m, drained |-> drained]
<1>1. chans[v] \in Seq(Chan) /\ chans[v] # <<>>
  BY CryptoTyped
<1>2. Len(chans[v]) \in DOMAIN chans[v]
  BY <1>1
<1>3. o \in Opens(chans[v])
  BY <1>2 DEF Opens
<1>4. opening' = opening \/ opening' = [opening EXCEPT ![v] = @ \cup {o}]
  BY DEF StartOpen
<1> HIDE DEF o
<1>5. /\ \A u \in Viewers : opening'[u] \subseteq Opens(chans[u])
      /\ DOMAIN opening' = Viewers
      /\ \A u \in Viewers : u # v => opening'[u] = opening[u]
  BY <1>3, <1>4, CryptoTyped
<1> QED
  BY <1>4, <1>5 DEF o

LEMMA ReqSet ==
  ASSUME NEW D, NEW f \in [Viewers -> [Reqs -> D]], NEW v \in Viewers, NEW r, NEW x \in D
  PROVE  [f EXCEPT ![v][r] = x] \in [Viewers -> [Reqs -> D]]
<1>1. [f[v] EXCEPT ![r] = x] \in [Reqs -> D]
  OBVIOUS
<1> QED
  BY <1>1

LEMMA ReceiveTypes ==
  ASSUME TypeOK, NEW v \in Viewers, Receive(v)
  PROVE  TypeOK'
<1> DEFINE m == Head(toViewer[v])
<1>1. UNCHANGED <<agentVars, caps, toAgent, connects>>
  BY DEF Receive, OnAgentHello, OnPresence, OnRefusal, OnEnvelope, linkVars
<1>2. \E kind \in {"hello", "agent", "error", "enc"} : Take(v, kind)
  BY DEF Receive, OnAgentHello, OnPresence, OnRefusal, OnEnvelope
<1>3. toViewer' \in [Viewers -> Seq(ToViewerMsgs)] /\ m \in ToViewerMsgs
  BY <1>2, Takes
<1>4. AgentTypeOK' /\ NetTypeOK'
  BY <1>1, <1>3 DEF TypeOK, AgentTypeOK, NetTypeOK, agentVars
<1>5. CASE OnAgentHello(v)
  <2>1. m.kind = "hello" /\ m.epoch \in Nat
    BY <1>3, <1>5, KindsOf DEF OnAgentHello, Take
  <2>2. /\ known' = [known EXCEPT ![v] = m.epoch] /\ link' = [link EXCEPT ![v] = "up"]
        /\ Make(v, FALSE) \/ Make(v, TRUE) \/ UNCHANGED making
        /\ UNCHANGED <<connects, presence, chans, buffer, drain, opening, sealing, reqVars>>
    BY <1>5 DEF OnAgentHello
  <2>3. LinkTypeOK' /\ ReqTypeOK'
    BY <2>1, <2>2 DEF TypeOK, LinkTypeOK, ReqTypeOK, reqVars
  <2>4. making \in [Viewers -> Seq(Creation)]
    BY DEF TypeOK, CryptoTypeOK, Creation
  <2>5. ASSUME NEW late \in BOOLEAN, Make(v, late)
        PROVE  making' \in [Viewers -> Seq(Creation)]
    <3>1. [late |-> late, epoch |-> None] \in Creation
      BY DEF Creation, Epochs
    <3> QED
      BY <2>4, <2>5, <3>1 DEF Make
  <2>6. making' \in [Viewers -> Seq(Creation)]
    BY <2>2, <2>4, <2>5
  <2>7. CryptoTypeOK'
    BY <2>2, <2>6 DEF TypeOK, CryptoTypeOK, Creation
  <2> QED
    BY <1>4, <2>3, <2>7 DEF TypeOK
<1>6. CASE OnPresence(v)
  <2>1. /\ presence' = [presence EXCEPT ![v] = IF m.online THEN "on" ELSE "off"]
        /\ req' = req \/ RejectAll(v)
        /\ UNCHANGED <<link, connects, known, cryptoVars, got>>
    BY <1>6 DEF OnPresence
  <2>2. ReqTypeOK'
    BY <2>1, RejectedTyped DEF TypeOK, ReqTypeOK
  <2>3. LinkTypeOK' /\ CryptoTypeOK'
    BY <2>1 DEF TypeOK, LinkTypeOK, CryptoTypeOK, cryptoVars
  <2> QED
    BY <1>4, <2>2, <2>3 DEF TypeOK
<1>7. CASE OnRefusal(v)
  <2>1. /\ req' = req \/ req' = [req EXCEPT ![v][m.r] = "failed"]
        /\ UNCHANGED <<linkVars, cryptoVars, got>>
    BY <1>7 DEF OnRefusal
  <2>2. ReqTypeOK'
    <3>1. req' \in [Viewers -> [Reqs -> {"idle", "pending", "done", "failed"}]]
      <4> DEFINE D == {"idle", "pending", "done", "failed"}
      <4>1. req \in [Viewers -> [Reqs -> D]] /\ "failed" \in D
        BY DEF TypeOK, ReqTypeOK
      <4> HIDE DEF D, m
      <4>2. [req EXCEPT ![v][m.r] = "failed"] \in [Viewers -> [Reqs -> D]]
        BY <4>1, ReqSet
      <4>3. req' \in [Viewers -> [Reqs -> D]]
        BY <2>1, <4>1, <4>2
      <4> QED
        BY <4>3 DEF D
    <3> QED
      BY <2>1, <3>1 DEF TypeOK, ReqTypeOK
  <2>3. LinkTypeOK' /\ CryptoTypeOK'
    BY <2>1 DEF TypeOK, LinkTypeOK, CryptoTypeOK, linkVars, cryptoVars
  <2> QED
    BY <1>4, <2>2, <2>3 DEF TypeOK
<1>8. CASE OnEnvelope(v)
  <2>1. m \in Parcel
    BY <1>3, <1>8, KindsOf DEF OnEnvelope, Take
  <2>2. /\ \/ Sealed(v) /\ StartOpen(v, m, FALSE) /\ UNCHANGED buffer
           \/ buffer' = [buffer EXCEPT ![v] = Append(@, m)] /\ UNCHANGED opening
        /\ UNCHANGED <<linkVars, chans, making, drain, sealing, reqVars>>
    BY <1>8 DEF OnEnvelope
  <2>3. LinkTypeOK' /\ ReqTypeOK'
    BY <2>2 DEF TypeOK, LinkTypeOK, ReqTypeOK, linkVars, reqVars
  <2>4. buffer' \in [Viewers -> Seq(Parcel)]
    <3>1. buffer \in [Viewers -> Seq(Parcel)]
      BY CryptoTyped
    <3>2. Append(buffer[v], m) \in Seq(Parcel)
      BY <2>1, <3>1, AppendProperties
    <3> QED
      BY <2>2, <3>1, <3>2
  <2>5. (\A u \in Viewers : opening'[u] \subseteq Opens(chans[u])) /\ DOMAIN opening' = Viewers
    <3>1. Sealed(v) => chans[v] # <<>>
      BY DEF Sealed
    <3> QED
      BY <2>1, <2>2, <3>1, StartOpenTyped, CryptoTyped
  <2>6. CryptoTypeOK'
    BY <2>2, <2>4, <2>5 DEF TypeOK, CryptoTypeOK, Opens
  <2> QED
    BY <1>4, <2>3, <2>6 DEF TypeOK
<1> QED
  BY <1>5, <1>6, <1>7, <1>8 DEF Receive

LEMMA DropTyped ==
  ASSUME NEW S, NEW q \in Seq(S), NEW i \in DOMAIN q
  PROVE  Drop(q, i) \in Seq(S)
<1>1. i \in 1..Len(q) /\ Len(q) \in Nat
  OBVIOUS
<1>2. SubSeq(q, 1, i - 1) \in Seq(S)
  <2>1. ASSUME NEW j \in 1..(i - 1) PROVE q[j] \in S
    BY <1>1, <2>1
  <2> QED
    BY <1>1, <2>1, SubSeqProperties
<1>3. SubSeq(q, i + 1, Len(q)) \in Seq(S)
  <2>1. ASSUME NEW j \in (i + 1)..Len(q) PROVE q[j] \in S
    BY <1>1, <2>1
  <2> QED
    BY <1>1, <2>1, SubSeqProperties
<1> QED
  BY <1>2, <1>3, ConcatProperties DEF Drop

LEMMA MakeKeyTypes ==
  ASSUME TypeOK, NEW v \in Viewers, MakeKey(v)
  PROVE  TypeOK'
<1>1. PICK i \in DOMAIN making[v] :
        /\ making' = [making EXCEPT ![v][i].epoch = known[v]]
        /\ UNCHANGED <<agentVars, netVars, linkVars, chans, buffer, drain, opening, sealing, reqVars>>
  BY DEF MakeKey
<1>2. AgentTypeOK' /\ NetTypeOK' /\ LinkTypeOK' /\ ReqTypeOK'
  BY <1>1 DEF TypeOK, AgentTypeOK, NetTypeOK, LinkTypeOK, ReqTypeOK, agentVars, netVars,
              linkVars, reqVars
<1>3. making' \in [Viewers -> Seq(Creation)]
  <2>1. making[v] \in Seq(Creation) /\ making[v][i] \in Creation /\ known[v] \in Epochs
    BY CryptoTyped DEF TypeOK, LinkTypeOK, Epochs
  <2>2. [making[v][i] EXCEPT !.epoch = known[v]] \in Creation
    BY <2>1 DEF Creation
  <2>3. [making[v] EXCEPT ![i] = [making[v][i] EXCEPT !.epoch = known[v]]] \in Seq(Creation)
    BY <2>1, <2>2, ExceptSeq
  <2>4. making' = [making EXCEPT ![v] = [making[v] EXCEPT ![i] =
                     [making[v][i] EXCEPT !.epoch = known[v]]]]
    BY <1>1
  <2> QED
    BY <2>3, <2>4, CryptoTyped
<1>4. CryptoTypeOK'
  BY <1>1, <1>3 DEF TypeOK, CryptoTypeOK, Creation
<1> QED
  BY <1>2, <1>4 DEF TypeOK

LEMMA MakeDoneTypes ==
  ASSUME TypeOK, NEW v \in Viewers, MakeDone(v)
  PROVE  TypeOK'
<1>1. PICK i \in DOMAIN making[v] :
        /\ making[v][i].epoch # None
        /\ chans' = [chans EXCEPT ![v] =
                       Append(chans[v], [epoch |-> making[v][i].epoch, tx |-> 0, rx |-> 0])]
        /\ making' = [making EXCEPT ![v] = Drop(making[v], i)]
        /\ \/ /\ drain' = [drain EXCEPT ![v] = drain[v] \o buffer[v]]
              /\ buffer' = [buffer EXCEPT ![v] = <<>>]
           \/ UNCHANGED <<drain, buffer>>
        /\ UNCHANGED <<agentVars, netVars, linkVars, opening, sealing, reqVars>>
  BY CryptoTyped DEF MakeDone
<1>2. AgentTypeOK' /\ NetTypeOK' /\ LinkTypeOK' /\ ReqTypeOK'
  BY <1>1 DEF TypeOK, AgentTypeOK, NetTypeOK, LinkTypeOK, ReqTypeOK, agentVars, netVars,
              linkVars, reqVars
<1>3. making' \in [Viewers -> Seq(Creation)]
  <2>1. Drop(making[v], i) \in Seq(Creation)
    BY CryptoTyped, DropTyped
  <2> QED
    BY <1>1, <2>1, CryptoTyped
<1>4. buffer' \in [Viewers -> Seq(Parcel)] /\ drain' \in [Viewers -> Seq(Parcel)]
  <2>1. drain[v] \o buffer[v] \in Seq(Parcel)
    BY CryptoTyped, ConcatProperties
  <2>2. [buffer EXCEPT ![v] = <<>>] \in [Viewers -> Seq(Parcel)]
    BY CryptoTyped, EmptyIsTyped
  <2> QED
    BY <1>1, <2>1, <2>2, CryptoTyped
<1>5. /\ chans' \in [Viewers -> Seq(Chan)]
      /\ \A u \in Viewers : DOMAIN chans[u] \subseteq DOMAIN chans'[u]
  <2> DEFINE c == [epoch |-> making[v][i].epoch, tx |-> 0, rx |-> 0]
  <2>1. making[v][i] \in Creation
    BY CryptoTyped
  <2>2. c \in Chan
    BY <1>1, <2>1 DEF Creation, Chan, Epochs
  <2>3. chans' = [chans EXCEPT ![v] = Append(chans[v], c)]
    BY <1>1
  <2> HIDE DEF c
  <2>4. /\ Append(chans[v], c) \in Seq(Chan)
        /\ DOMAIN chans[v] \subseteq DOMAIN Append(chans[v], c)
    BY <2>2, CryptoTyped
  <2> QED
    BY <2>3, <2>4, CryptoTyped
<1>6. ASSUME NEW u \in Viewers
      PROVE  opening'[u] \subseteq Opens(chans'[u]) /\ sealing'[u] \subseteq Seals(chans'[u])
  <2>1. Opens(chans[u]) \subseteq Opens(chans'[u]) /\ Seals(chans[u]) \subseteq Seals(chans'[u])
    BY <1>5 DEF Opens, Seals
  <2> QED
    BY <1>1, <2>1, CryptoTyped
<1>7. CryptoTypeOK'
  BY <1>1, <1>3, <1>4, <1>5, <1>6, CryptoTyped DEF CryptoTypeOK, Creation, Chan, Opens, Seals
<1> QED
  BY <1>2, <1>7 DEF TypeOK

LEMMA DrainTypes ==
  ASSUME Types, NEW v \in Viewers, Drain(v)
  PROVE  TypeOK'
<1>1. TypeOK /\ chans[v] # <<>> /\ drain[v] # <<>>
  BY DEF Types, DrainSealed, Drain
<1>2. /\ StartOpen(v, Head(drain[v]), TRUE)
      /\ drain' = [drain EXCEPT ![v] = Tail(drain[v])] \/ drain' = [drain EXCEPT ![v] = <<>>]
      /\ UNCHANGED <<agentVars, netVars, linkVars, chans, making, buffer, sealing, reqVars>>
  BY <1>1, CryptoTyped DEF Drain
<1>3. AgentTypeOK' /\ NetTypeOK' /\ LinkTypeOK' /\ ReqTypeOK'
  BY <1>1, <1>2 DEF TypeOK, AgentTypeOK, NetTypeOK, LinkTypeOK, ReqTypeOK, agentVars, netVars,
              linkVars, reqVars
<1>4. Head(drain[v]) \in Parcel /\ Tail(drain[v]) \in Seq(Parcel)
  BY <1>1, CryptoTyped, HeadTailProperties
<1>5. (\A u \in Viewers : opening'[u] \subseteq Opens(chans[u])) /\ DOMAIN opening' = Viewers
  BY <1>1, <1>2, <1>4, StartOpenTyped
<1>6. drain' \in [Viewers -> Seq(Parcel)]
  <2>1. [drain EXCEPT ![v] = <<>>] \in [Viewers -> Seq(Parcel)]
    BY <1>1, CryptoTyped, EmptyIsTyped
  <2>2. [drain EXCEPT ![v] = Tail(drain[v])] \in [Viewers -> Seq(Parcel)]
    BY <1>1, <1>4, CryptoTyped
  <2> QED
    BY <1>2, <2>1, <2>2
<1>7. CryptoTypeOK'
  BY <1>1, <1>2, <1>5, <1>6 DEF TypeOK, CryptoTypeOK, Opens
<1> QED
  BY <1>3, <1>7 DEF TypeOK

LEMMA CollectTyped ==
  ASSUME ReqTypeOK, NEW v \in Viewers, NEW m \in Parcel, Collect(v, m)
  PROVE  ReqTypeOK'
<1> DEFINE D == {"idle", "pending", "done", "failed"}
           parts == IF m.part = 1 THEN {1} ELSE got[v][m.r] \cup {m.part}
           end == IF parts = 1..Parts THEN "done" ELSE "failed"
<1>1. /\ req \in [Viewers -> [Reqs -> D]] /\ got \in [Viewers -> [Reqs -> SUBSET (1..Parts)]]
      /\ m.r \in Reqs /\ m.part \in 1..Parts /\ end \in D
  BY DEF ReqTypeOK, Parcel
<1>2. parts \in SUBSET (1..Parts)
  BY <1>1
<1>3. /\ got' = [got EXCEPT ![v][m.r] = parts] \/ got' = got
      /\ req' = req \/ req' = [req EXCEPT ![v][m.r] = end]
  BY DEF Collect, reqVars
<1> HIDE DEF D, parts, end
<1>4. [got EXCEPT ![v][m.r] = parts] \in [Viewers -> [Reqs -> SUBSET (1..Parts)]]
  <2> DEFINE E == SUBSET (1..Parts)
  <2>1. got \in [Viewers -> [Reqs -> E]] /\ parts \in E
    BY <1>1, <1>2
  <2> HIDE DEF E
  <2>2. [got EXCEPT ![v][m.r] = parts] \in [Viewers -> [Reqs -> E]]
    BY <2>1, ReqSet
  <2> QED
    BY <2>2 DEF E
<1>5. [req EXCEPT ![v][m.r] = end] \in [Viewers -> [Reqs -> D]]
  BY <1>1, ReqSet
<1>6. /\ req' \in [Viewers -> [Reqs -> D]]
      /\ got' \in [Viewers -> [Reqs -> SUBSET (1..Parts)]]
  BY <1>1, <1>3, <1>4, <1>5
<1> QED
  BY <1>6 DEF ReqTypeOK, D

\* Counting on channel c of tab v keeps the channels.
LEMMA CountTyped ==
  ASSUME NEW f \in [Viewers -> Seq(Chan)], NEW v \in Viewers, NEW c \in DOMAIN f[v],
         NEW x \in Chan
  PROVE  /\ [f EXCEPT ![v][c] = x] \in [Viewers -> Seq(Chan)]
         /\ \A u \in Viewers : DOMAIN [f EXCEPT ![v][c] = x][u] = DOMAIN f[u]
<1> DEFINE g == [f[v] EXCEPT ![c] = x]
<1>1. f[v] \in Seq(Chan) /\ c \in 1..Len(f[v])
  OBVIOUS
<1>2. g \in Seq(Chan) /\ DOMAIN g = DOMAIN f[v]
  BY <1>1, ExceptSeq
<1>3. [f EXCEPT ![v][c] = x] = [f EXCEPT ![v] = g]
  OBVIOUS
<1> HIDE DEF g
<1>4. /\ [f EXCEPT ![v] = g] \in [Viewers -> Seq(Chan)]
      /\ \A u \in Viewers : DOMAIN [f EXCEPT ![v] = g][u] = DOMAIN f[u]
  BY <1>2
<1> QED
  BY <1>3, <1>4

\* A decryption or an encryption that ends counts on one channel of its tab.
LEMMA CountedOn ==
  ASSUME TypeOK, NEW v \in Viewers, OpenDone(v) \/ SealDone(v)
  PROVE  /\ chans' \in [Viewers -> Seq(Chan)]
         /\ \A u \in Viewers : DOMAIN chans'[u] = DOMAIN chans[u]
<1>1. CASE OpenDone(v)
  <2>1. PICK o \in opening[v] :
          chans' = chans \/ chans' = [chans EXCEPT ![v][o.ch].rx = @ + 1]
    BY <1>1 DEF OpenDone
  <2>2. o.ch \in DOMAIN chans[v] /\ chans[v] \in Seq(Chan)
    BY CryptoTyped DEF Opens
  <2>3. chans[v][o.ch] \in Chan
    BY <2>2
  <2> DEFINE x == [chans[v][o.ch] EXCEPT !.rx = chans[v][o.ch].rx + 1]
  <2>4. x \in Chan
    BY <2>3 DEF Chan
  <2>5. chans' = chans \/ chans' = [chans EXCEPT ![v][o.ch] = x]
    BY <2>1
  <2> HIDE DEF x
  <2> QED
    <3>1. CASE chans' = chans
      BY <3>1, CryptoTyped
    <3>2. CASE chans' = [chans EXCEPT ![v][o.ch] = x]
      BY <2>2, <2>4, <3>2, CountTyped, CryptoTyped
    <3> QED
      BY <2>5, <3>1, <3>2
<1>2. CASE SealDone(v)
  <2>1. PICK s \in sealing[v] : chans' = [chans EXCEPT ![v][s.ch].tx = @ + 1]
    BY <1>2 DEF SealDone
  <2>2. s.ch \in DOMAIN chans[v] /\ chans[v] \in Seq(Chan)
    BY CryptoTyped DEF Seals
  <2>3. chans[v][s.ch] \in Chan
    BY <2>2
  <2> DEFINE x == [chans[v][s.ch] EXCEPT !.tx = chans[v][s.ch].tx + 1]
  <2>4. x \in Chan
    BY <2>3 DEF Chan
  <2>5. chans' = [chans EXCEPT ![v][s.ch] = x]
    BY <2>1
  <2> HIDE DEF x
  <2> QED
    BY <2>2, <2>4, <2>5, CountTyped, CryptoTyped
<1> QED
  BY <1>1, <1>2

LEMMA OpenDoneTypes ==
  ASSUME TypeOK, NEW v \in Viewers, OpenDone(v)
  PROVE  TypeOK'
<1>1. PICK o \in opening[v] :
        /\ opening' = [opening EXCEPT ![v] = opening[v] \ {o}]
        /\ \/ /\ chans' = [chans EXCEPT ![v][o.ch].rx = @ + 1]
              /\ Collect(v, o.m) /\ drain' = drain
           \/ /\ drain' = [drain EXCEPT ![v] = IF o.drained THEN <<>> ELSE drain[v]]
              /\ UNCHANGED <<chans, reqVars>>
        /\ UNCHANGED <<agentVars, netVars, linkVars, making, buffer, sealing>>
  BY CryptoTyped DEF OpenDone
<1>2. AgentTypeOK' /\ NetTypeOK' /\ LinkTypeOK'
  BY <1>1 DEF TypeOK, AgentTypeOK, NetTypeOK, LinkTypeOK, agentVars, netVars, linkVars
<1>3. o.ch \in DOMAIN chans[v] /\ o.m \in Parcel /\ chans[v] \in Seq(Chan)
  BY CryptoTyped DEF Opens
<1>4. ReqTypeOK'
  BY <1>1, <1>3, CollectTyped DEF TypeOK, ReqTypeOK, reqVars
<1>5. drain' \in [Viewers -> Seq(Parcel)]
  <2>1. [drain EXCEPT ![v] = <<>>] \in [Viewers -> Seq(Parcel)]
    BY CryptoTyped, EmptyIsTyped
  <2> QED
    BY <1>1, <2>1, CryptoTyped
<1>6. chans' \in [Viewers -> Seq(Chan)] /\ \A u \in Viewers : DOMAIN chans'[u] = DOMAIN chans[u]
  BY CountedOn
<1>7. (\A u \in Viewers : opening'[u] \subseteq Opens(chans'[u])) /\ DOMAIN opening' = Viewers
  BY <1>1, <1>6, CryptoTyped DEF Opens
<1>8. \A u \in Viewers : sealing'[u] \subseteq Seals(chans'[u])
  BY <1>1, <1>6, CryptoTyped DEF Seals
<1>9. CryptoTypeOK'
  BY <1>1, <1>5, <1>6, <1>7, <1>8, CryptoTyped DEF CryptoTypeOK, Creation, Chan, Opens, Seals
<1> QED
  BY <1>2, <1>4, <1>9 DEF TypeOK

LEMMA SealDoneTypes ==
  ASSUME TypeOK, NEW v \in Viewers, SealDone(v)
  PROVE  TypeOK'
<1>1. PICK s \in sealing[v] :
        /\ sealing' = [sealing EXCEPT ![v] = sealing[v] \ {s}]
        /\ chans' = [chans EXCEPT ![v][s.ch].tx = @ + 1]
        /\ ToAgent(Request(v, s.r, chans[v][s.ch].epoch, chans[v][s.ch].tx))
        /\ UNCHANGED <<agentVars, caps, toViewer, linkVars, making, buffer, drain, opening,
                       reqVars>>
  BY CryptoTyped DEF SealDone
<1>2. AgentTypeOK' /\ LinkTypeOK' /\ ReqTypeOK'
  BY <1>1 DEF TypeOK, AgentTypeOK, ReqTypeOK, LinkTypeOK, agentVars, reqVars, linkVars
<1>3. s.ch \in DOMAIN chans[v] /\ s.r \in Reqs /\ chans[v] \in Seq(Chan)
  BY CryptoTyped DEF Seals
<1>4. chans[v][s.ch] \in Chan
  BY <1>3
<1>5. NetTypeOK'
  <2> DEFINE m == Request(v, s.r, chans[v][s.ch].epoch, chans[v][s.ch].tx)
  <2>1. chans[v][s.ch].epoch \in Nat /\ chans[v][s.ch].tx \in Nat
    BY <1>4 DEF Chan
  <2>2. m \in ToAgentMsgs
    BY <1>3, <2>1 DEF Request, ToAgentMsgs
  <2> HIDE DEF m
  <2>3. toAgent' \in Seq(ToAgentMsgs)
    BY <1>1, <2>2, ToAgentTyped DEF TypeOK, NetTypeOK, m
  <2> QED
    BY <1>1, <2>3 DEF TypeOK, NetTypeOK
<1>6. chans' \in [Viewers -> Seq(Chan)] /\ \A u \in Viewers : DOMAIN chans'[u] = DOMAIN chans[u]
  BY CountedOn
<1>7. \A u \in Viewers : opening'[u] \subseteq Opens(chans'[u])
  BY <1>1, <1>6, CryptoTyped DEF Opens
<1>8. (\A u \in Viewers : sealing'[u] \subseteq Seals(chans'[u])) /\ DOMAIN sealing' = Viewers
  BY <1>1, <1>6, CryptoTyped DEF Seals
<1>9. CryptoTypeOK'
  <2>1. making' = making /\ buffer' = buffer /\ drain' = drain /\ opening' = opening
    BY <1>1
  <2>2. /\ making' \in [Viewers -> Seq(Creation)] /\ buffer' \in [Viewers -> Seq(Parcel)]
        /\ drain' \in [Viewers -> Seq(Parcel)] /\ DOMAIN opening' = Viewers
    BY <2>1, CryptoTyped
  <2> QED
    BY <1>6, <1>7, <1>8, <2>2 DEF CryptoTypeOK, Creation, Chan, Opens, Seals
<1> QED
  BY <1>2, <1>5, <1>9 DEF TypeOK

LEMMA RpcTypes ==
  ASSUME TypeOK, NEW v \in Viewers, NEW r \in Reqs, Rpc(v, r) \/ RpcTimeout(v, r)
  PROVE  TypeOK'
<1> DEFINE D == {"idle", "pending", "done", "failed"}
<1>1. AgentTypeOK' /\ LinkTypeOK'
  BY RpcFrame DEF TypeOK, AgentTypeOK, LinkTypeOK, agentVars, linkVars
<1>2. ReqTypeOK'
  <2>1. \E x \in D : req' = [req EXCEPT ![v][r] = x]
    BY DEF Rpc, RpcTimeout
  <2>2. req \in [Viewers -> [Reqs -> D]]
    BY DEF TypeOK, ReqTypeOK
  <2> HIDE DEF D
  <2>3. req' \in [Viewers -> [Reqs -> D]]
    BY <2>1, <2>2, ReqSet
  <2> QED
    BY <2>3, RpcFrame DEF TypeOK, ReqTypeOK, D
<1>3. NetTypeOK'
  <2>1. Plain(v, r) \in ToAgentMsgs
    BY DEF Plain, ToAgentMsgs
  <2>2. toAgent' = toAgent \/ ToAgent(Plain(v, r))
    BY DEF Rpc, RpcTimeout, netVars
  <2>3. toAgent' \in Seq(ToAgentMsgs)
    BY <2>1, <2>2, ToAgentTyped DEF TypeOK, NetTypeOK
  <2> QED
    BY <2>3, RpcFrame DEF TypeOK, NetTypeOK
<1>4. CryptoTypeOK'
  <2> DEFINE s == [ch |-> Len(chans[v]), r |-> r]
  <2>1. \/ sealing' = sealing
        \/ Sealed(v) /\ sealing' = [sealing EXCEPT ![v] = sealing[v] \cup {s}]
    BY CryptoTyped DEF Rpc, RpcTimeout, cryptoVars
  <2>2. Sealed(v) => s \in Seals(chans[v])
    <3>1. SUFFICES ASSUME Sealed(v) PROVE s \in Seals(chans[v])
      OBVIOUS
    <3>2. chans[v] \in Seq(Chan) /\ chans[v] # <<>>
      BY <3>1, CryptoTyped DEF Sealed
    <3>3. Len(chans[v]) \in DOMAIN chans[v]
      BY <3>2
    <3> QED
      BY <3>3 DEF Seals
  <2> HIDE DEF s
  <2>3. (\A u \in Viewers : sealing'[u] \subseteq Seals(chans[u])) /\ DOMAIN sealing' = Viewers
    BY <2>1, <2>2, CryptoTyped
  <2> QED
    BY <2>3, RpcFrame DEF TypeOK, CryptoTypeOK, Seals
<1> QED
  BY <1>1, <1>2, <1>3, <1>4 DEF TypeOK

----------------------------------------------------------------------------
(* The types are an invariant *)

LEMMA InitTypes == ASSUME Init PROVE Types
<1>1. AgentTypeOK /\ LinkTypeOK
  <2>1. [q \in Requests |-> 0] \in [Requests -> 0..Parts]
    BY PartsAssumption
  <2>2. /\ tx \in Nat /\ rx \in Nat /\ epoch \in Nat /\ task \in [Requests -> 0..Parts]
        /\ greeting \in {"no", "noted", "reset"}
    BY <2>1 DEF Init
  <2>3. online \in BOOLEAN /\ peer \in BOOLEAN
    BY DEF Init
  <2>4. LinkTypeOK
    BY DEF Init, LinkTypeOK
  <2> QED
    BY <2>2, <2>3, <2>4 DEF AgentTypeOK
<1>2. NetTypeOK
  BY DEF Init, NetTypeOK, Epochs
<1>3. CryptoTypeOK /\ DrainSealed
  BY DEF Init, CryptoTypeOK, DrainSealed
<1>4. ReqTypeOK
  BY DEF Init, ReqTypeOK
<1> QED
  BY <1>1, <1>2, <1>3, <1>4 DEF Types, TypeOK

LEMMA DrainStaysSealed == ASSUME Types, Next PROVE DrainSealed'
<1> SUFFICES ASSUME NEW u \in Viewers PROVE drain'[u] # <<>> => chans'[u] # <<>>
  BY DEF DrainSealed
<1>1. /\ chans \in [Viewers -> Seq(Chan)] /\ drain \in [Viewers -> Seq(Parcel)]
      /\ TypeOK /\ (drain[u] # <<>> => chans[u] # <<>>)
  BY CryptoTyped DEF Types, DrainSealed
<1>2. CASE drain'[u] = drain[u] /\ chans'[u] = chans[u]
  BY <1>1, <1>2
<1>3. ASSUME NEW v \in Viewers, ViewerSteps(v)
      PROVE  drain'[u] # <<>> => chans'[u] # <<>>
  <2>1. CASE Open(v) \/ Receive(v) \/ MakeKey(v) \/ Drain(v)
    <3>1. chans' = chans
      BY <2>1 DEF Open, Receive, OnAgentHello, OnPresence, OnRefusal, OnEnvelope, MakeKey, Drain,
                  cryptoVars
    <3>2. drain'[u] = drain[u] \/ Drain(v)
      BY <2>1 DEF Open, Receive, OnAgentHello, OnPresence, OnRefusal, OnEnvelope, MakeKey,
                  cryptoVars
    <3>3. CASE Drain(v)
      <4>1. drain[v] # <<>> /\ (u # v => drain'[u] = drain[u])
        BY <1>1, <3>3 DEF Drain
      <4> QED
        BY <1>1, <3>1, <4>1
    <3> QED
      BY <1>1, <3>1, <3>2, <3>3
  <2>2. CASE Close(v)
    BY <1>1, <2>2 DEF Close
  <2>3. CASE MakeDone(v)
    <3>1. PICK i \in DOMAIN making[v] :
            chans' = [chans EXCEPT ![v] = Append(chans[v],
                        [epoch |-> making[v][i].epoch, tx |-> 0, rx |-> 0])]
      BY <1>1, <2>3 DEF MakeDone
    <3> DEFINE c == [epoch |-> making[v][i].epoch, tx |-> 0, rx |-> 0]
    <3>2. chans' = [chans EXCEPT ![v] = Append(chans[v], c)]
      BY <3>1
    <3> HIDE DEF c
    <3>3. chans[v] \in Seq(Chan) /\ Append(chans[v], c) # <<>>
      <4>1. chans[v] \in Seq(Chan)
        BY <1>1
      <4> QED
        BY <4>1
    <3>4. u # v => drain'[u] = drain[u]
      BY <1>1, <2>3 DEF MakeDone
    <3> QED
      BY <1>1, <3>2, <3>3, <3>4
  <2>4. CASE OpenDone(v) \/ SealDone(v)
    <3>1. chans' \in [Viewers -> Seq(Chan)] /\ DOMAIN chans'[u] = DOMAIN chans[u]
      BY <1>1, <2>4, CountedOn
    <3>2. drain'[u] = drain[u] \/ drain'[u] = <<>>
      BY <1>1, <2>4 DEF OpenDone, SealDone
    <3>3. chans[u] \in Seq(Chan) /\ chans'[u] \in Seq(Chan)
      BY <1>1, <3>1
    <3> QED
      BY <1>1, <3>1, <3>2, <3>3
  <2> QED
    BY <1>3, <2>1, <2>2, <2>3, <2>4 DEF ViewerSteps, Crypto
<1>4. ASSUME NEW v \in Viewers, NEW r \in Reqs, Rpc(v, r) \/ RpcTimeout(v, r)
      PROVE  drain'[u] = drain[u] /\ chans'[u] = chans[u]
  BY <1>4, RpcFrame
<1> QED
  BY <1>2, <1>3, <1>4, StepsAre, AgentFrame DEF cryptoVars

LEMMA NextTypes == ASSUME Types, Next PROVE Types'
<1>1. TypeOK
  BY DEF Types
<1>2. ASSUME NEW v \in Viewers, ViewerSteps(v) PROVE TypeOK'
  BY <1>1, <1>2, OpenTypes, CloseTypes, ReceiveTypes, MakeKeyTypes, MakeDoneTypes, DrainTypes,
     OpenDoneTypes, SealDoneTypes DEF ViewerSteps, Crypto
<1>3. TypeOK'
  BY <1>1, <1>2, StepsAre, AgentTypes, RpcTypes
<1> QED
  BY <1>3, DrainStaysSealed DEF Types

LEMMA StutterTypes == ASSUME Types, UNCHANGED vars PROVE Types'
BY DEF Types, TypeOK, AgentTypeOK, NetTypeOK, LinkTypeOK, CryptoTypeOK, ReqTypeOK, DrainSealed,
       vars, agentVars, netVars, linkVars, cryptoVars, reqVars

LEMMA TypesInvariant == Spec => []Types
<1>1. Init => Types
  BY InitTypes
<1>2. Types /\ [Next]_vars => Types'
  BY NextTypes, StutterTypes
<1> QED
  BY <1>1, <1>2, PTL DEF Spec

\* Every variable keeps its type, and nothing is being encrypted or
\* decrypted on a channel object the tab does not have.
THEOREM TypesOfSealedRelay == Spec => []TypeOK
<1>1. Types => TypeOK
  BY DEF Types
<1> QED
  BY <1>1, TypesInvariant, PTL

----------------------------------------------------------------------------
(* An agent that is gone leaves nobody waiting *)

\* Whoever still listens has read that the agent is gone, or will read it
\* last of all.
Told(v) ==
  link[v] # "off" =>
    IF toViewer[v] # <<>> THEN toViewer[v][Len(toViewer[v])] = Presence(FALSE)
    ELSE presence[v] = "off" /\ Pending(v) = {}

\* Without a connection nothing is being answered, and every tab is told.
Gone ==
  ~online => /\ greeting = "no" /\ \A q \in Requests : task[q] = 0
             /\ \A v \in Viewers : Told(v)

\* A step of tab v leaves the other tabs as they are.
LEMMA ElseKept ==
  ASSUME TypeOK, NEW v \in Viewers, ViewerSteps(v), NEW u \in Viewers, u # v
  PROVE  /\ link'[u] = link[u] /\ presence'[u] = presence[u] /\ toViewer'[u] = toViewer[u]
         /\ req'[u] = req[u] /\ sealing'[u] = sealing[u]
<1>1. /\ DOMAIN link = Viewers /\ DOMAIN presence = Viewers /\ DOMAIN toViewer = Viewers
      /\ DOMAIN req = Viewers /\ DOMAIN sealing = Viewers
  BY DEF TypeOK, LinkTypeOK, NetTypeOK, ReqTypeOK, CryptoTypeOK
<1>2. CASE Open(v)
  BY <1>1, <1>2 DEF Open, cryptoVars, reqVars
<1>3. CASE Close(v)
  BY <1>1, <1>3 DEF Close, RejectAll
<1>4. CASE OnAgentHello(v)
  BY <1>1, <1>4 DEF OnAgentHello, Take, reqVars
<1>5. CASE OnPresence(v)
  BY <1>1, <1>5 DEF OnPresence, Take, RejectAll, cryptoVars
<1>6. CASE OnRefusal(v) \/ OnEnvelope(v)
  BY <1>1, <1>6 DEF OnRefusal, OnEnvelope, Take, cryptoVars, linkVars, reqVars
<1>7. CASE MakeKey(v) \/ MakeDone(v) \/ Drain(v)
  BY <1>1, <1>7 DEF MakeKey, MakeDone, Drain, netVars, linkVars, reqVars
<1>8. CASE OpenDone(v) \/ SealDone(v)
  BY <1>1, <1>8 DEF OpenDone, SealDone, Collect, netVars, linkVars, reqVars
<1> QED
  BY <1>2, <1>3, <1>4, <1>5, <1>6, <1>7, <1>8 DEF ViewerSteps, Receive, Crypto

LEMMA LastOf ==
  ASSUME NEW S, NEW q \in Seq(S), NEW x \in S
  PROVE  /\ (q \o <<x>>) # <<>> /\ (q \o <<x>>)[Len(q \o <<x>>)] = x
         /\ q # <<>> => (Tail(q) # <<>> => Tail(q)[Len(Tail(q))] = q[Len(q)])
         /\ q # <<>> => (Tail(q) = <<>> => Head(q) = q[Len(q)])
<1>1. (q \o <<x>>) # <<>> /\ (q \o <<x>>)[Len(q \o <<x>>)] = x
  <2>1. /\ Len(q \o <<x>>) = Len(q) + 1 /\ (q \o <<x>>)[Len(q) + 1] = x
        /\ q \o <<x>> \in Seq(S) /\ Len(q) \in Nat
    OBVIOUS
  <2> QED
    BY <2>1
<1>2. ASSUME q # <<>>
      PROVE  /\ Tail(q) # <<>> => Tail(q)[Len(Tail(q))] = q[Len(q)]
             /\ Tail(q) = <<>> => Head(q) = q[Len(q)]
  <2>1. /\ Len(q) \in Nat /\ Len(q) # 0 /\ Tail(q) \in Seq(S) /\ Len(Tail(q)) = Len(q) - 1
        /\ \A i \in 1..Len(Tail(q)) : Tail(q)[i] = q[i + 1]
        /\ Head(q) = q[1]
    BY <1>2, HeadTailProperties
  <2>2. CASE Tail(q) = <<>>
    <3>1. Len(Tail(q)) = 0
      <4> DEFINE t == Tail(q)
      <4>1. t = <<>> /\ t \in Seq(S)
        BY <2>1, <2>2
      <4> HIDE DEF t
      <4>2. Len(t) = 0
        BY <4>1
      <4> QED
        BY <4>2 DEF t
    <3>2. Len(q) = 1
      BY <2>1, <3>1
    <3> QED
      BY <2>1, <2>2, <3>2
  <2>3. CASE Tail(q) # <<>>
    <3>1. Len(Tail(q)) \in 1..Len(Tail(q))
      BY <2>1, <2>3
    <3> QED
      BY <2>1, <3>1, <2>3
  <2> QED
    BY <2>2, <2>3
<1> QED
  BY <1>1, <1>2

\* Tab v after a step of its own without an agent.
LEMMA ToldAgain ==
  ASSUME TypeOK, ~online, NEW v \in Viewers, Told(v), ViewerSteps(v)
  PROVE  Told(v)'
<1>1. /\ toViewer \in [Viewers -> Seq(ToViewerMsgs)] /\ DOMAIN req = Viewers
      /\ DOMAIN presence = Viewers /\ DOMAIN link = Viewers
      /\ \A r \in Reqs : DOMAIN req[v] = Reqs
  BY DEF TypeOK, NetTypeOK, ReqTypeOK, LinkTypeOK
<1>2. CASE Open(v)
  <2> DEFINE hello == IF caps = None THEN <<>> ELSE <<AgentHello(caps)>>
  <2>1. toViewer'[v] = hello \o <<Presence(FALSE)>>
    <3>1. online = FALSE
      BY DEF TypeOK, AgentTypeOK
    <3> QED
      BY <1>1, <1>2, <3>1 DEF Open
  <2>2. Presence(FALSE) \in ToViewerMsgs
    BY MsgsTyped DEF Presence, ToViewerMsgs
  <2>3. hello \in Seq(ToViewerMsgs)
    <3>1. caps # None => AgentHello(caps) \in ToViewerMsgs
      BY DEF TypeOK, NetTypeOK, Epochs, AgentHello, ToViewerMsgs
    <3> QED
      BY <3>1, ShortSeqs
  <2> HIDE DEF hello
  <2>4. toViewer'[v] # <<>> /\ toViewer'[v][Len(toViewer'[v])] = Presence(FALSE)
    <3> DEFINE p == Presence(FALSE)
    <3>1. p \in ToViewerMsgs /\ toViewer'[v] = hello \o <<p>>
      BY <2>1, <2>2
    <3> HIDE DEF p
    <3>2. (hello \o <<p>>) # <<>> /\ (hello \o <<p>>)[Len(hello \o <<p>>)] = p
      BY <2>3, <3>1, LastOf
    <3> QED
      BY <3>1, <3>2 DEF p
  <2> QED
    BY <2>4 DEF Told, Presence
<1>3. CASE Close(v)
  <2>1. link'[v] = "off"
    BY <1>1, <1>3 DEF Close
  <2> QED
    BY <2>1 DEF Told
<1>4. CASE Receive(v)
  <2> DEFINE q == toViewer[v]
             m == Head(q)
  <2>1. PICK kind : Take(v, kind)
    BY <1>4 DEF Receive, OnAgentHello, OnPresence, OnRefusal, OnEnvelope
  <2>2. link[v] # "off" /\ q # <<>> /\ toViewer'[v] = Tail(q) /\ q \in Seq(ToViewerMsgs)
    BY <1>1, <2>1, Takes
  <2>3. q[Len(q)] = Presence(FALSE) /\ Presence(FALSE) \in ToViewerMsgs
    BY <2>2 DEF Told, Presence, ToViewerMsgs
  <2> HIDE DEF q
  <2>4. CASE Tail(q) # <<>>
    <3>1. Tail(q)[Len(Tail(q))] = Presence(FALSE)
      BY <2>2, <2>3, <2>4, LastOf
    <3> QED
      BY <2>2, <2>4, <3>1 DEF Told, Presence
  <2>5. CASE Tail(q) = <<>>
    <3>1. m = Presence(FALSE)
      BY <2>2, <2>3, <2>5, LastOf
    <3>0. m.kind = "agent" /\ m.online = FALSE
      BY <3>1 DEF Presence
    <3>2. OnPresence(v) /\ ~m.online
      BY <3>0, <1>4, <3>1 DEF Receive, OnAgentHello, OnPresence, OnRefusal, OnEnvelope, Take, Presence, q
    <3>3. presence'[v] = "off" /\ RejectAll(v) /\ got' = got
      BY <1>1, <3>2 DEF OnPresence, q
    <3>4. \A r \in Reqs : req'[v][r] # "pending"
      BY <3>3, RejectedTyped DEF TypeOK
    <3> QED
      BY <2>2, <2>5, <3>3, <3>4 DEF Told, Pending
  <2> QED
    BY <2>4, <2>5
<1>5. CASE Crypto(v)
  <2>1. UNCHANGED <<toViewer, link, presence>>
    BY <1>5 DEF Crypto, MakeKey, MakeDone, Drain, OpenDone, SealDone, netVars, linkVars
  <2>2. ASSUME NEW r \in Reqs, req'[v][r] = "pending" PROVE req[v][r] = "pending"
    <3>1. CASE UNCHANGED req
      BY <2>2, <3>1
    <3>2. CASE OpenDone(v)
      BY <1>1, <2>2, <3>2 DEF OpenDone, Collect, reqVars
    <3> QED
      BY <1>5, <3>1, <3>2 DEF Crypto, MakeKey, MakeDone, Drain, SealDone, reqVars
  <2> QED
    BY <2>1, <2>2 DEF Told, Pending
<1> QED
  BY <1>2, <1>3, <1>4, <1>5 DEF ViewerSteps

LEMMA NextGone == ASSUME TypeOK, Gone, Next PROVE Gone'
<1>1. CASE AgentSteps
  <2>1. CASE online
    <3>1. CASE AgentDrop
      <4>1. greeting' = "no" /\ \A q \in Requests : task'[q] = 0
        BY <3>1 DEF AgentDrop
      <4>2. ASSUME NEW v \in Viewers, link'[v] # "off" PROVE Told(v)'
        <5>1. link[v] # "off" /\ toViewer[v] \in Seq(ToViewerMsgs)
          BY <3>1, <4>2 DEF AgentDrop, linkVars, TypeOK, NetTypeOK
        <5>2. toViewer'[v] = toViewer[v] \o <<Presence(FALSE)>>
          BY <3>1, <5>1 DEF AgentDrop, Broadcast
        <5>3. Presence(FALSE) \in ToViewerMsgs
          BY DEF Presence, ToViewerMsgs
        <5>4. toViewer'[v] # <<>> /\ toViewer'[v][Len(toViewer'[v])] = Presence(FALSE)
          <6> DEFINE p == Presence(FALSE)
                     q == toViewer[v]
          <6>1. p \in ToViewerMsgs /\ q \in Seq(ToViewerMsgs) /\ toViewer'[v] = q \o <<p>>
            BY <5>1, <5>2, <5>3
          <6> HIDE DEF p, q
          <6>2. (q \o <<p>>) # <<>> /\ (q \o <<p>>)[Len(q \o <<p>>)] = p
            BY <6>1, LastOf
          <6> QED
            BY <6>1, <6>2 DEF p
        <5> QED
          BY <5>4 DEF Told, Presence
      <4>3. \A v \in Viewers : Told(v)'
        BY <4>2 DEF Told
      <4> QED
        BY <4>1, <4>3 DEF Gone
    <3>2. CASE ~AgentDrop
      <4>1. online'
        BY <1>1, <2>1, <3>2 DEF AgentSteps, AgentConnect, AgentReplace, OnClientHello, HelloNoted,
              HelloReset, HelloReply, AgentTake, OnRequest, OnPlain, Withhold, Respond
      <4> QED
        BY <4>1 DEF Gone
    <3> QED
      BY <3>1, <3>2
  <2>2. CASE ~online
    <3>1. CASE AgentConnect
      BY <3>1 DEF AgentConnect, Gone
    <3>2. ASSUME NEW v \in Viewers, NEW r \in Reqs PROVE ~Withhold(v, r) /\ ~Respond(v, r)
      <4>1. task[<<v, r>>] = 0
        BY <2>2 DEF Gone, Requests
      <4> QED
        BY <4>1 DEF Withhold, Respond
    <3> QED
      BY <1>1, <2>2, <3>1, <3>2 DEF AgentSteps, AgentDrop, AgentReplace, OnClientHello, HelloNoted,
            HelloReset, HelloReply, OnRequest, OnPlain, AgentTake, Gone
  <2> QED
    BY <2>1, <2>2
<1>2. ASSUME NEW v \in Viewers, ViewerSteps(v) PROVE Gone'
  <2>1. online' = online /\ greeting' = greeting /\ task' = task
    BY <1>2, ViewerFrame DEF agentVars
  <2>2. ASSUME NEW u \in Viewers, ~online PROVE Told(u)'
    <3>1. CASE u = v
      BY <1>2, <2>2, <3>1, ToldAgain DEF Gone
    <3>2. CASE u # v
      <4>1. /\ link'[u] = link[u] /\ presence'[u] = presence[u]
            /\ toViewer'[u] = toViewer[u] /\ req'[u] = req[u]
        BY <1>2, <3>2, ElseKept
      <4>2. Told(u)
        BY <2>2 DEF Gone
      <4> QED
        BY <4>1, <4>2 DEF Told, Pending
    <3> QED
      BY <3>1, <3>2
  <2> QED
    BY <2>1, <2>2 DEF Gone
<1>3. ASSUME NEW v \in Viewers, NEW r \in Reqs, Rpc(v, r) \/ RpcTimeout(v, r) PROVE Gone'
  <2>1. /\ online' = online /\ greeting' = greeting /\ task' = task
        /\ toViewer' = toViewer /\ link' = link /\ presence' = presence
    BY <1>3, RpcFrame DEF agentVars, linkVars
  <2>2. /\ DOMAIN req = Viewers /\ DOMAIN req[v] = Reqs
    BY DEF TypeOK, ReqTypeOK
  <2>3. ASSUME NEW u \in Viewers, presence[u] = "off", NEW t \in Reqs, req'[u][t] = "pending"
        PROVE  req[u][t] = "pending"
    BY <1>3, <2>2, <2>3 DEF Rpc, RpcTimeout
  <2>4. ASSUME NEW u \in Viewers, Told(u) PROVE Told(u)'
    BY <2>1, <2>3, <2>4 DEF Told, Pending
  <2> QED
    BY <2>1, <2>4 DEF Gone
<1> QED
  BY <1>1, <1>2, <1>3, StepsAre

LEMMA GoneInvariant == Spec => []Gone
<1>1. Init => Gone
  BY DEF Init, Gone
<1>2. TypeOK /\ Gone /\ [Next]_vars => Gone'
  <2>1. ASSUME Gone, UNCHANGED vars PROVE Gone'
    BY <2>1 DEF Gone, Told, Pending, vars, agentVars, netVars, linkVars, reqVars
  <2> QED
    BY <2>1, NextGone
<1> QED
  BY <1>1, <1>2, TypesOfSealedRelay, PTL DEF Spec

\* An agent that is gone leaves nobody waiting: a connected tab that has
\* read all the room sent has no pending request, however the loss of the
\* agent, the timers, the tab's own sockets and its crypto interleave.
THEOREM GoneFailsFast == Spec => []FailFast
<1>1. Gone => FailFast
  BY DEF Gone, Told, FailFast
<1> QED
  BY <1>1, GoneInvariant, PTL
=============================================================================
