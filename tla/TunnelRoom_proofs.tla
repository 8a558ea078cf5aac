--------------------------- MODULE TunnelRoom_proofs ---------------------------
(***************************************************************************)
(* Proofs about TunnelRoom, for any agents, viewers, sizes of uploads,     *)
(* windows and number of evictions: its types, the presence viewers are    *)
(* told, the caps they are sent, and the UI they are served.               *)
(*                                                                         *)
(* The properties speak of live sockets, the handlers of the fields of the *)
(* object.  What connects them survives an eviction because the fields     *)
(* come back from the sockets (Members, OneAgent) and the UI from the      *)
(* storage (UiKept).                                                       *)
(***************************************************************************)
EXTENDS TunnelRoom, TLAPS

Open(s) == sock[s] \in {"live", "closing"}

\* this.clients are the viewers whose sockets have not gone.
Members == clients = {c \in Clients : Open(c)}

\* this.agent has not gone, and every other agent is at least being closed;
\* an agent that has not joined has sent nothing.
OneAgent ==
  /\ agent # None => Open(agent)
  /\ \A a \in Agents : Live(a) => a = agent
  /\ \A a \in Agents : sock[a] = "new" => step[a] = 0

\* What viewers were told is what the object knows, also those being closed.
AllTold == \A c \in clients : told[c] = (IF agent = None THEN "off" ELSE "on")

\* FreshCaps also of viewers being closed, and of the caps the object would
\* greet the next one with.
CapsKept ==
  /\ (agent # None /\ step[agent] > 0) =>
       caps \in {None, agent} /\ \A c \in clients : seen[c] \in {None, agent}
  /\ agent = None => caps = None /\ ~gated /\ pending = NoUpload

\* A storage that works holds the last upload; the object has it as well, or
\* has not tried to load it and knows nothing else.
UiKept ==
  ~StorageFails =>
    /\ stored = newest
    /\ loaded => ui = newest
    /\ ui # NoUpload => ui = newest

IInv == TypeOK /\ Members /\ OneAgent /\ AllTold /\ CapsKept /\ UiKept

\* ensureUiLoaded serves what the storage has.
LEMMA LoadUiOK ==
  ASSUME TypeOK, UiKept, LoadUi, stored' = stored, newest' = newest
  PROVE  /\ UiKept'
         /\ loaded' \in BOOLEAN
         /\ {ui'} \subseteq {NoUpload} \cup [1..Chunks -> Agents]
<1>1. loaded' = TRUE /\ ui' \in {ui, stored}
  BY DEF LoadUi, Outcome
<1>2. CASE ~StorageFails /\ ~loaded
  <2>1. ui' = IF stored # NoUpload THEN stored ELSE ui
    BY <1>2 DEF LoadUi, Outcome
  <2>2. stored = newest /\ (ui # NoUpload => ui = newest)
    BY <1>2 DEF UiKept
  <2>3. ui' = newest
    BY <2>1, <2>2
  <2> QED
    BY <1>1, <2>2, <2>3 DEF UiKept, TypeOK
<1>3. CASE StorageFails \/ loaded
  <2>1. loaded => ui' = ui
    BY DEF LoadUi
  <2> QED
    BY <1>1, <1>3, <2>1 DEF UiKept, TypeOK
<1> QED
  BY <1>2, <1>3 DEF TypeOK

\* A message that passes is counted.
LEMMA PassType ==
  ASSUME TypeOK, NEW s \in Sockets, Pass(s)
  PROVE  count' \in [Sockets -> 0..MaxMsg]
<1>1. count \in [Sockets -> 0..MaxMsg] /\ count[s] < MaxMsg
  BY DEF TypeOK, Pass
<1>2. count[s] + 1 \in 0..MaxMsg
  BY <1>1, RoomBoundAssumption
<1> QED
  BY <1>1, <1>2 DEF Pass

\* An agent gets past its last step once.
LEMMA AdvanceType ==
  ASSUME TypeOK, NEW a \in Agents, step[a] <= EndStep, Advance(a)
  PROVE  step' \in [Agents -> 0..(EndStep + 1)]
<1>1. step \in [Agents -> 0..(EndStep + 1)] /\ EndStep \in Nat
  BY RoomBoundAssumption DEF TypeOK, EndStep
<1>2. step[a] + 1 \in 0..(EndStep + 1)
  BY <1>1
<1> QED
  BY <1>1, <1>2 DEF Advance

LEMMA InitOK == Init => IInv
<1> SUFFICES ASSUME Init PROVE IInv
  OBVIOUS
<1>1. TypeOK
  <2>1. 0 \in 0..MaxMsg /\ 0 \in 0..(EndStep + 1) /\ 0 \in 0..RespMax /\ 0 \in 0..MaxWakes
    BY RoomBoundAssumption DEF EndStep
  <2> QED
    BY <2>1 DEF Init, TypeOK, Uploads
<1>2. Members /\ AllTold /\ CapsKept /\ UiKept
  <2>1. Members
    BY DEF Init, Members, Open, Sockets
  <2> QED
    BY <2>1 DEF Init, AllTold, CapsKept, UiKept
<1>3. OneAgent
  BY DEF Init, OneAgent, Open, Live, Sockets
<1> QED
  BY <1>1, <1>2, <1>3 DEF IInv

LEMMA AgentJoinsOK == ASSUME IInv, NEW a \in Agents, AgentJoins(a) PROVE IInv'
<1> USE DEF IInv, AgentJoins, memory, outside, Live, Open, Tell
<1>0. /\ UiKept'
      /\ loaded' \in BOOLEAN
      /\ {ui'} \subseteq {NoUpload} \cup [1..Chunks -> Agents]
  BY LoadUiOK
<1>1. TypeOK'
  BY <1>0, RoomBoundAssumption DEF TypeOK, Uploads, EndStep, Sockets
<1>2. Members'
  BY RoomNoneAssumption, RoomDisjointAssumption DEF TypeOK, Members, OneAgent, Sockets
<1>3. OneAgent'
  BY DEF TypeOK, OneAgent, Sockets, EndStep
<1>4. AllTold'
  BY RoomNoneAssumption DEF TypeOK, Members, AllTold, Sockets
<1>5. CapsKept'
  BY RoomNoneAssumption, RoomBoundAssumption DEF TypeOK, OneAgent, CapsKept, Sockets, EndStep
<1>6. UiKept'
  BY <1>0
<1> QED
  BY <1>1, <1>2, <1>3, <1>4, <1>5, <1>6

LEMMA ClientJoinsOK == ASSUME IInv, NEW c \in Clients, ClientJoins(c) PROVE IInv'
<1> USE DEF IInv, ClientJoins, memory, outside, Live, Open
<1>0. /\ UiKept'
      /\ loaded' \in BOOLEAN
      /\ {ui'} \subseteq {NoUpload} \cup [1..Chunks -> Agents]
  BY LoadUiOK
<1>1. TypeOK'
  BY <1>0, RoomBoundAssumption DEF TypeOK, Uploads, EndStep, Sockets
<1>2. Members'
  BY DEF TypeOK, Members, OneAgent, Sockets
<1>3. OneAgent'
  BY RoomDisjointAssumption DEF TypeOK, OneAgent, Sockets, EndStep
<1>4. AllTold'
  BY DEF TypeOK, Members, AllTold, Sockets
<1>5. CapsKept'
  BY RoomBoundAssumption DEF TypeOK, OneAgent, CapsKept, Sockets, EndStep
<1>6. UiKept'
  BY <1>0
<1> QED
  BY <1>1, <1>2, <1>3, <1>4, <1>5, <1>6

LEMMA LeavesOK == ASSUME IInv, NEW s \in Sockets, Leaves(s) PROVE IInv'
<1> USE DEF IInv, Leaves, memory, outside, Live, Open, Tell
<1>1. TypeOK'
  <2>1. sock' \in [Sockets -> {"new", "live", "closing", "gone"}]
    BY DEF TypeOK
  <2>2. count' \in [Sockets -> 0..MaxMsg]
    BY RoomBoundAssumption DEF TypeOK
  <2>3. /\ agent' \in Agents \cup {None} /\ caps' \in Agents \cup {None}
        /\ gated' \in BOOLEAN /\ pending' \in Uploads
    BY DEF TypeOK, Uploads
  <2>4. told' \in [Clients -> {"nothing", "on", "off"}]
    BY DEF TypeOK
  <2> QED
    BY <2>1, <2>2, <2>3, <2>4 DEF TypeOK
<1>2. Members'
  BY DEF TypeOK, Members, OneAgent, Sockets
<1>3. OneAgent'
  BY DEF TypeOK, OneAgent, Sockets, EndStep
<1>4. AllTold'
  BY DEF TypeOK, Members, AllTold, Sockets
<1>5. CapsKept'
  BY RoomBoundAssumption DEF TypeOK, OneAgent, CapsKept, Sockets, EndStep
<1>6. UiKept'
  BY DEF UiKept
<1> QED
  BY <1>1, <1>2, <1>3, <1>4, <1>5, <1>6

LEMMA WakesOK == ASSUME IInv, Wakes PROVE IInv'
<1> USE DEF IInv, Wakes, memory, outside, Live, Open
<1>0. agent' = agent /\ clients' \subseteq clients
  <2>1. agent' = agent
    BY RoomNoneAssumption DEF TypeOK, OneAgent, Sockets
  <2>2. clients' \subseteq clients
    BY DEF Members
  <2> QED
    BY <2>1, <2>2
<1>1. TypeOK'
  <2>1. agent' \in Agents \cup {None} /\ wakes' \in 0..MaxWakes
    BY RoomBoundAssumption DEF TypeOK
  <2>2. count' \in [Sockets -> 0..MaxMsg]
    BY RoomBoundAssumption
  <2>3. pending' \in Uploads /\ ui' = NoUpload
    BY DEF Uploads
  <2> QED
    BY <2>1, <2>2, <2>3 DEF TypeOK
<1>2. Members'
  BY DEF TypeOK, Members, OneAgent, Sockets
<1>3. OneAgent'
  BY DEF TypeOK, OneAgent, Sockets, EndStep
<1>4. AllTold'
  BY <1>0 DEF AllTold
<1>5. CapsKept'
  BY <1>0 DEF CapsKept
<1>6. UiKept'
  BY DEF UiKept
<1> QED
  BY <1>1, <1>2, <1>3, <1>4, <1>5, <1>6

LEMMA FloodOK == ASSUME IInv, NEW s \in Sockets, Flood(s) PROVE IInv'
<1> USE DEF IInv, Flood, memory, outside, Live, Open
<1>1. TypeOK'
  BY RoomBoundAssumption DEF TypeOK, Sockets
<1>2. Members'
  BY DEF TypeOK, Members, OneAgent, Sockets
<1>3. OneAgent'
  BY DEF TypeOK, OneAgent, Sockets, EndStep
<1>4. AllTold'
  BY DEF TypeOK, Members, AllTold, Sockets
<1>5. CapsKept'
  BY RoomBoundAssumption DEF TypeOK, OneAgent, CapsKept, Sockets, EndStep
<1>6. UiKept'
  BY DEF UiKept
<1> QED
  BY <1>1, <1>2, <1>3, <1>4, <1>5, <1>6

LEMMA WindowEndsOK == ASSUME IInv, NEW s \in Sockets, WindowEnds(s) PROVE IInv'
<1> USE DEF IInv, WindowEnds, memory, outside, Live, Open
<1>1. TypeOK'
  BY RoomBoundAssumption DEF TypeOK, Sockets
<1>2. Members'
  BY DEF TypeOK, Members, OneAgent, Sockets
<1>3. OneAgent'
  BY DEF TypeOK, OneAgent, Sockets, EndStep
<1>4. AllTold'
  BY DEF TypeOK, Members, AllTold, Sockets
<1>5. CapsKept'
  BY RoomBoundAssumption DEF TypeOK, OneAgent, CapsKept, Sockets, EndStep
<1>6. UiKept'
  BY DEF UiKept
<1> QED
  BY <1>1, <1>2, <1>3, <1>4, <1>5, <1>6

LEMMA HelloOK == ASSUME IInv, NEW a \in Agents, Hello(a) PROVE IInv'
<1> USE DEF IInv, Hello, Relay, memory, outside, Live, Open, Advance, Pass
<1>1. TypeOK'
  <2>1. count' \in [Sockets -> 0..MaxMsg]
    BY PassType DEF Sockets
  <2>2. step' \in [Agents -> 0..(EndStep + 1)]
    <3>1. step[a] <= EndStep
      BY RoomBoundAssumption DEF EndStep
    <3> QED
      BY <3>1, AdvanceType
  <2> QED
    BY <2>1, <2>2, RoomBoundAssumption DEF TypeOK
<1>2. Members'
  BY DEF TypeOK, Members, OneAgent, Sockets
<1>3. OneAgent'
  BY DEF TypeOK, OneAgent, Sockets, EndStep
<1>4. AllTold'
  BY DEF TypeOK, Members, AllTold, Sockets
<1>5. CapsKept'
  BY RoomNoneAssumption, RoomBoundAssumption DEF TypeOK, OneAgent, CapsKept, Sockets, EndStep
<1>6. UiKept'
  BY DEF UiKept
<1> QED
  BY <1>1, <1>2, <1>3, <1>4, <1>5, <1>6

LEMMA UiBeginOK == ASSUME IInv, NEW a \in Agents, UiBegin(a) PROVE IInv'
<1> USE DEF IInv, UiBegin, memory, outside, Live, Open, Advance, Pass, Blank
<1>1. TypeOK'
  <2>1. count' \in [Sockets -> 0..MaxMsg]
    BY PassType DEF Sockets
  <2>2. step' \in [Agents -> 0..(EndStep + 1)]
    <3>1. step[a] <= EndStep
      BY RoomBoundAssumption DEF EndStep
    <3> QED
      BY <3>1, AdvanceType
  <2>3. pending' \in Uploads
    BY DEF Uploads
  <2> QED
    BY <2>1, <2>2, <2>3 DEF TypeOK
<1>2. Members'
  BY DEF TypeOK, Members, OneAgent, Sockets
<1>3. OneAgent'
  BY DEF TypeOK, OneAgent, Sockets, EndStep
<1>4. AllTold'
  BY DEF TypeOK, Members, AllTold, Sockets
<1>5. CapsKept'
  BY RoomNoneAssumption, RoomBoundAssumption DEF TypeOK, OneAgent, CapsKept, Sockets, EndStep
<1>6. UiKept'
  BY DEF UiKept
<1> QED
  BY <1>1, <1>2, <1>3, <1>4, <1>5, <1>6

LEMMA UiChunkOK == ASSUME IInv, NEW a \in Agents, UiChunk(a) PROVE IInv'
<1> USE DEF IInv, UiChunk, memory, outside, Live, Open, Advance, Pass
<1>1. TypeOK'
  <2>1. count' \in [Sockets -> 0..MaxMsg]
    BY PassType DEF Sockets
  <2>2. step' \in [Agents -> 0..(EndStep + 1)]
    <3>1. step[a] <= EndStep
      BY RoomBoundAssumption DEF EndStep
    <3> QED
      BY <3>1, AdvanceType
  <2>3. pending' \in Uploads
    BY DEF TypeOK, Uploads
  <2> QED
    BY <2>1, <2>2, <2>3 DEF TypeOK
<1>2. Members'
  BY DEF TypeOK, Members, OneAgent, Sockets
<1>3. OneAgent'
  BY DEF TypeOK, OneAgent, Sockets, EndStep
<1>4. AllTold'
  BY DEF TypeOK, Members, AllTold, Sockets
<1>5. CapsKept'
  BY RoomBoundAssumption DEF TypeOK, OneAgent, CapsKept, Sockets, EndStep
<1>6. UiKept'
  BY DEF UiKept
<1> QED
  BY <1>1, <1>2, <1>3, <1>4, <1>5, <1>6

LEMMA UiEndOK == ASSUME IInv, NEW a \in Agents, UiEnd(a) PROVE IInv'
<1> USE DEF IInv, UiEnd, memory, outside, Live, Open, Advance, Pass, Complete
<1>1. TypeOK'
  <2>1. count' \in [Sockets -> 0..MaxMsg]
    BY PassType DEF Sockets
  <2>2. step' \in [Agents -> 0..(EndStep + 1)]
    <3>1. step[a] <= EndStep
      BY RoomBoundAssumption DEF EndStep
    <3> QED
      BY <3>1, AdvanceType
  <2>3. pending' \in Uploads
    BY DEF Uploads
  <2>4. Complete => pending \in [1..Chunks -> Agents]
    BY DEF TypeOK, Uploads, Complete
  <2>5. {ui', stored', newest'} \subseteq {NoUpload} \cup [1..Chunks -> Agents]
    <3>1. ui' \in {ui, pending} /\ stored' \in {stored, pending} /\ newest' \in {newest, pending}
      OBVIOUS
    <3>2. CASE Complete
      BY <2>4, <3>1, <3>2 DEF TypeOK
    <3>3. CASE ~Complete
      BY <3>3 DEF TypeOK
    <3> QED
      BY <3>2, <3>3
  <2> QED
    BY <2>1, <2>2, <2>3, <2>5 DEF TypeOK
<1>2. Members'
  BY DEF TypeOK, Members, OneAgent, Sockets
<1>3. OneAgent'
  BY DEF TypeOK, OneAgent, Sockets, EndStep
<1>4. AllTold'
  BY DEF TypeOK, Members, AllTold, Sockets
<1>5. CapsKept'
  <2>1. a = agent /\ step[a] # 0
    BY RoomBoundAssumption DEF OneAgent, EndStep
  <2>2. caps' \in {None, agent'} /\ \A c \in clients' : seen'[c] \in {None, agent'}
    BY <2>1, RoomBoundAssumption, RoomNoneAssumption DEF CapsKept, TypeOK, EndStep
  <2>3. agent' # None
    BY <2>1, RoomNoneAssumption
  <2> QED
    BY <2>2, <2>3 DEF CapsKept
<1>6. UiKept'
  <2>1. CASE Complete /\ ~StorageFails
    <3>1. ui' = pending /\ newest' = pending /\ stored' = pending
      BY <2>1 DEF Outcome
    <3> QED
      BY <3>1 DEF UiKept
  <2>2. CASE ~Complete
    BY <2>2 DEF UiKept
  <2>3. CASE StorageFails
    BY <2>3 DEF UiKept
  <2> QED
    BY <2>1, <2>2, <2>3
<1> QED
  BY <1>1, <1>2, <1>3, <1>4, <1>5, <1>6

LEMMA AgentAnswersOK == ASSUME IInv, NEW a \in Agents, AgentAnswers(a) PROVE IInv'
<1> USE DEF IInv, AgentAnswers, memory, outside, Live, Open, Pass
<1>1. TypeOK'
  <2>1. count' \in [Sockets -> 0..MaxMsg]
    BY PassType DEF Sockets
  <2>2. owes' \in [Agents -> 0..RespMax]
    <3>1. owes \in [Agents -> 0..RespMax] /\ owes[a] > 0
      BY DEF TypeOK
    <3>2. owes[a] - 1 \in 0..RespMax
      BY <3>1, RoomBoundAssumption
    <3> QED
      BY <3>1, <3>2
  <2> QED
    BY <2>1, <2>2 DEF TypeOK
<1>2. Members'
  BY DEF TypeOK, Members, OneAgent, Sockets
<1>3. OneAgent'
  BY DEF TypeOK, OneAgent, Sockets, EndStep
<1>4. AllTold'
  BY DEF TypeOK, Members, AllTold, Sockets
<1>5. CapsKept'
  BY RoomBoundAssumption DEF TypeOK, OneAgent, CapsKept, Sockets, EndStep
<1>6. UiKept'
  BY DEF UiKept
<1> QED
  BY <1>1, <1>2, <1>3, <1>4, <1>5, <1>6

LEMMA ClientAsksOK == ASSUME IInv, NEW c \in Clients, ClientAsks(c) PROVE IInv'
<1> USE DEF IInv, ClientAsks, memory, outside, Live, Open, Pass
<1>1. TypeOK'
  <2>1. count' \in [Sockets -> 0..MaxMsg]
    BY PassType DEF Sockets
  <2>2. owes' \in [Agents -> 0..RespMax]
    BY RoomBoundAssumption DEF TypeOK
  <2> QED
    BY <2>1, <2>2 DEF TypeOK
<1>2. Members'
  BY DEF TypeOK, Members, OneAgent, Sockets
<1>3. OneAgent'
  BY DEF TypeOK, OneAgent, Sockets, EndStep
<1>4. AllTold'
  BY DEF TypeOK, Members, AllTold, Sockets
<1>5. CapsKept'
  BY RoomBoundAssumption DEF TypeOK, OneAgent, CapsKept, Sockets, EndStep
<1>6. UiKept'
  BY DEF UiKept
<1> QED
  BY <1>1, <1>2, <1>3, <1>4, <1>5, <1>6

LEMMA UiRequestOK == ASSUME IInv, NEW c \in Clients, UiRequest(c) PROVE IInv'
<1> USE DEF IInv, UiRequest, memory, outside, Live, Open, Pass
<1>0. /\ UiKept'
      /\ loaded' \in BOOLEAN
      /\ {ui'} \subseteq {NoUpload} \cup [1..Chunks -> Agents]
  BY LoadUiOK
<1>1. TypeOK'
  <2>1. count' \in [Sockets -> 0..MaxMsg]
    BY PassType DEF Sockets
  <2> QED
    BY <1>0, <2>1 DEF TypeOK
<1>2. Members'
  BY DEF TypeOK, Members, OneAgent, Sockets
<1>3. OneAgent'
  BY DEF TypeOK, OneAgent, Sockets, EndStep
<1>4. AllTold'
  BY DEF TypeOK, Members, AllTold, Sockets
<1>5. CapsKept'
  BY RoomBoundAssumption DEF TypeOK, OneAgent, CapsKept, Sockets, EndStep
<1>6. UiKept'
  BY <1>0
<1> QED
  BY <1>1, <1>2, <1>3, <1>4, <1>5, <1>6

LEMMA FetchesOK == ASSUME IInv, Fetches PROVE IInv'
<1> USE DEF IInv, Fetches, memory, outside, Live, Open
<1>0. /\ UiKept'
      /\ loaded' \in BOOLEAN
      /\ {ui'} \subseteq {NoUpload} \cup [1..Chunks -> Agents]
  BY LoadUiOK
<1>1. TypeOK'
  BY <1>0, RoomBoundAssumption DEF TypeOK, Uploads, EndStep, Sockets
<1>2. Members'
  BY DEF TypeOK, Members, OneAgent, Sockets
<1>3. OneAgent'
  BY DEF TypeOK, OneAgent, Sockets, EndStep
<1>4. AllTold'
  BY DEF TypeOK, Members, AllTold, Sockets
<1>5. CapsKept'
  BY RoomBoundAssumption DEF TypeOK, OneAgent, CapsKept, Sockets, EndStep
<1>6. UiKept'
  BY <1>0
<1> QED
  BY <1>1, <1>2, <1>3, <1>4, <1>5, <1>6

LEMMA NextOK == IInv /\ [Next]_vars => IInv'
<1> SUFFICES ASSUME IInv, [Next]_vars PROVE IInv'
  OBVIOUS
<1>1. CASE \E a \in Agents : AgentJoins(a) \/ AgentSends(a)
  BY <1>1, AgentJoinsOK, HelloOK, UiBeginOK, UiChunkOK, UiEndOK, AgentAnswersOK
     DEF AgentSends
<1>2. CASE \E c \in Clients : ClientJoins(c) \/ ClientAsks(c) \/ UiRequest(c)
  BY <1>2, ClientJoinsOK, ClientAsksOK, UiRequestOK
<1>3. CASE \E s \in Sockets : Leaves(s) \/ Flood(s) \/ WindowEnds(s)
  BY <1>3, LeavesOK, FloodOK, WindowEndsOK
<1>4. CASE Wakes \/ Fetches
  BY <1>4, WakesOK, FetchesOK
<1>5. CASE UNCHANGED vars
  <2> USE <1>5 DEF IInv, vars, memory, outside
  <2>1. TypeOK'
    BY DEF TypeOK
  <2>2. Members' /\ OneAgent' /\ AllTold'
    BY DEF Members, OneAgent, AllTold, Open, Live
  <2>3. CapsKept' /\ UiKept'
    BY DEF CapsKept, UiKept
  <2> QED
    BY <2>1, <2>2, <2>3
<1> QED
  BY <1>1, <1>2, <1>3, <1>4, <1>5 DEF Next

LEMMA Invariant == Spec => []IInv
<1> QED
  BY InitOK, NextOK, PTL DEF Spec

\* Every variable keeps its type, whatever the sizes and bounds; a stored or
\* served UI has all its chunks.
THEOREM TypeCorrect == Spec => []TypeOK
<1>1. IInv => TypeOK
  BY DEF IInv
<1> QED
  BY <1>1, Invariant, PTL

\* However many agents replace one another, however late their sockets close
\* and however often the object is evicted: a connected viewer was told last
\* that there is an agent while one is connected, and that there is none when
\* no socket of an agent is left.
THEOREM PresenceCorrect == Spec => []PresenceTold
<1>1. IInv => PresenceTold
  <2> SUFFICES ASSUME IInv, NEW c \in Clients, Live(c)
               PROVE  /\ (\E a \in Agents : Live(a)) => told[c] = "on"
                      /\ (\A a \in Agents : sock[a] \in {"new", "gone"})
                           => told[c] = "off"
    BY DEF PresenceTold
  <2>1. told[c] = (IF agent = None THEN "off" ELSE "on")
    BY DEF IInv, AllTold, Members, Open, Live
  <2>2. (\E a \in Agents : Live(a)) => agent # None
    BY RoomNoneAssumption DEF IInv, OneAgent
  <2>3. (\A a \in Agents : sock[a] \in {"new", "gone"}) => agent = None
    BY DEF IInv, TypeOK, OneAgent, Open
  <2> QED
    BY <2>1, <2>2, <2>3
<1> QED
  BY <1>1, Invariant, PTL

\* Once the connected agent has said hello no connected viewer is left with
\* the caps of another agent; an agent that goes takes its caps, its gate and
\* its half upload along.
THEOREM CapsCorrect == Spec => []FreshCaps
<1>1. IInv => FreshCaps
  BY DEF IInv, FreshCaps, CapsKept, Members, Open, Live
<1> QED
  BY <1>1, Invariant, PTL

\* With a storage that works the served UI is the last complete upload.
THEOREM UiCorrect == Spec => []UiCurrent
<1>1. IInv => UiCurrent
  BY DEF IInv, UiCurrent, UiKept
<1> QED
  BY <1>1, Invariant, PTL
=============================================================================
