------------------------ MODULE SessionRegistry_proofs ------------------------
(***************************************************************************)
(* Proofs about SessionRegistry, for any ids, sockets, kill requests and   *)
(* cap: no shell escapes the registry, what it lists has its row, and the  *)
(* times of last activity order the sessions.                              *)
(*                                                                         *)
(* None is inductive.  A removal overwrites the list of what its task has  *)
(* to reap, so tasks that start one must have nothing left of the last     *)
(* (Quiet); a spawn gives a session its id, so no session in use may be    *)
(* one that is still to be made (Made); a delete may only hit ids that     *)
(* need no row (Taken); and the order is one of the sessions made, so   *)
(* what a socket attaches must have been (Held).                           *)
(***************************************************************************)
EXTENDS SessionRegistry, TLAPS, FiniteSetTheorems

ConnShape == [pc : {"idle", "spawn", "insert", "attach", "attached", "done"},
              id : Ids \cup {None}, o : Objs \cup {None}]
RemovalShape == [todo : SUBSET Objs, deleting : Ids \cup {None}]

Shapes ==
  /\ sessions \in [Ids -> Objs \cup {None}]
  /\ made \in 0..MaxObjs
  /\ id \in [Objs -> Ids \cup {None}]
  /\ child \in [Objs -> {"none", "live", "over"}]
  /\ conn \in [Conns -> ConnShape]
  /\ kill \in [Kills -> {"idle", "sent"}]
  /\ wr \in [Writers -> Objs \cup {None}]
  /\ rm \in [Removers -> RemovalShape]
  /\ rows \subseteq Ids /\ lapsed \subseteq Ids
  /\ persist \subseteq Objs

\* A session that is listed, to be reaped or written, or has a shell, has
\* been made, under an id.
Made ==
  /\ \A i \in Ids : sessions[i] # None => sessions[i] <= made
  /\ \A o \in Objs : child[o] # "none" => o <= made /\ id[o] \in Ids
  /\ \A o \in persist : o <= made /\ id[o] \in Ids
  /\ \A w \in Writers : wr[w] # None => wr[w] <= made /\ id[wr[w]] \in Ids
  /\ \A t \in Removers : \A o \in rm[t].todo : o <= made

\* The registry and the sockets know a session by its own id.
Named ==
  /\ \A i \in Ids : sessions[i] # None => id[sessions[i]] = i
  /\ \A c \in Conns :
       /\ conn[c].pc = "spawn" => conn[c].id \in Ids
       /\ conn[c].pc = "insert" =>
            /\ conn[c].id \in Ids /\ conn[c].o \in Objs /\ conn[c].o <= made
            /\ id[conn[c].o] = conn[c].id

\* A task that has yet to start has nothing to write or to reap.
Quiet ==
  /\ \A c \in Conns : conn[c].pc \in {"idle", "spawn", "insert"} =>
                        rm[c] = NoRemoval /\ wr[c] = None
  /\ \A k \in Kills : kill[k] = "idle" => rm[k] = NoRemoval

\* What is to be reaped or deleted may lose its row.
Taken ==
  \A t \in Removers :
    /\ rm[t].deleting # None => rm[t].deleting \in lapsed
    /\ \A o \in rm[t].todo : id[o] \in lapsed

IInv == Shapes /\ Made /\ Named /\ Quiet /\ Taken /\ NoOrphan /\ HistoryKept

LEMMA InitOK == Init => IInv
<1> SUFFICES ASSUME Init PROVE IInv
  OBVIOUS
<1> USE DEF Init, NoConn, NoRemoval
<1>1. Shapes
  BY BoundAssumption DEF Shapes, ConnShape, RemovalShape
<1>2. Made /\ Named /\ Quiet /\ Taken
  BY DEF Made, Named, Quiet, Taken, Removers, Writers
<1>3. NoOrphan /\ HistoryKept
  BY DEF NoOrphan, HistoryKept
<1> QED
  BY <1>1, <1>2, <1>3 DEF IInv

LEMMA PersistSessionOK ==
  ASSUME IInv, NEW w \in Writers, PersistSession(w) PROVE IInv'
<1> USE DEF IInv, PersistSession, objVars, taskVars, history, NoRemoval, Removers, Writers
<1> DEFINE i == id[wr[w]]
<1>0. /\ i \in Ids
      /\ rows \subseteq rows' /\ rows' \subseteq rows \cup {i}
      /\ lapsed \ {i} \subseteq lapsed' /\ lapsed' \subseteq lapsed \cup {i}
      /\ i \in rows' \/ i \in lapsed'
      /\ Doomed(i) /\ i \in lapsed => i \in lapsed'
  BY DEF Made, UpsertRow
<1> HIDE DEF i
<1>1. Shapes'
  <2>1. rows' \subseteq Ids /\ lapsed' \subseteq Ids
    BY <1>0 DEF Shapes
  <2>2. wr' \in [Writers -> Objs \cup {None}]
    BY DEF Shapes
  <2> QED
    BY <2>1, <2>2 DEF Shapes
<1>2. Made'
  BY DEF Shapes, Made
<1>3. Named'
  BY DEF Named
<1>4. Quiet'
  BY DEF Shapes, Quiet
<1>5. Taken'
  <2> SUFFICES ASSUME NEW t \in Removers
               PROVE  /\ rm[t].deleting # None => rm[t].deleting \in lapsed'
                      /\ \A o \in rm[t].todo : id[o] \in lapsed'
    BY DEF Taken
  <2>1. \A j \in lapsed : j # i => j \in lapsed'
    BY <1>0
  <2>2. rm[t].deleting = i => Doomed(i)
    BY DEF Doomed
  <2>3. \A o \in rm[t].todo : id[o] = i => Doomed(i)
    BY DEF Doomed
  <2> QED
    BY <1>0, <2>1, <2>2, <2>3 DEF Taken
<1>6. NoOrphan'
  BY DEF NoOrphan
<1>7. HistoryKept'
  <2> SUFFICES ASSUME NEW j \in Ids, sessions[j] # None, j \notin lapsed'
               PROVE  \/ j \in rows'
                      \/ \E c \in Conns : wr'[c] = sessions[j]
    BY DEF HistoryKept
  <2>1. CASE j = i
    BY <1>0, <2>1
  <2>2. CASE j # i
    <3>1. \/ j \in rows
          \/ \E c \in Conns : wr[c] = sessions[j]
      BY <1>0, <2>2 DEF HistoryKept
    <3>2. ASSUME NEW c \in Conns, wr[c] = sessions[j] PROVE c # w
      <4>1. id[sessions[j]] = j
        BY DEF Named
      <4> QED
        BY <2>2, <3>2, <4>1 DEF i
    <3>3. \A c \in Conns : c # w => wr'[c] = wr[c]
      BY DEF Shapes
    <3> QED
      BY <1>0, <3>1, <3>2, <3>3
  <2> QED
    BY <2>1, <2>2
<1> QED
  BY <1>1, <1>2, <1>3, <1>4, <1>5, <1>6, <1>7

LEMMA ReapOK == ASSUME IInv, NEW t \in Removers, Reap(t) PROVE IInv'
<1> USE DEF IInv, Reap, objVars, taskVars, history, NoRemoval, Removers, Writers
<1>1. Shapes'
  BY NoneAssumption, ActorsAssumption DEF Shapes, ConnShape, RemovalShape
<1>2. Made'
  BY NoneAssumption, ActorsAssumption DEF Shapes, ConnShape, RemovalShape, Made, Named
<1>3. Named'
  BY NoneAssumption, ActorsAssumption DEF Shapes, ConnShape, RemovalShape, Made, Named
<1>4. Quiet'
  <2>1. rm[t] # NoRemoval
    BY NoneAssumption
  <2>2. \A u \in Removers \ {t} : rm'[u] = rm[u]
    BY DEF Shapes, ConnShape, RemovalShape
  <2> QED
    BY <2>1, <2>2 DEF Quiet
<1>5. Taken'
  BY NoneAssumption, ActorsAssumption DEF Shapes, ConnShape, RemovalShape, Made, Named, Taken
<1>6. NoOrphan'
  BY NoneAssumption, ActorsAssumption DEF Shapes, ConnShape, RemovalShape, Made, Named, Quiet, NoOrphan
<1>7. HistoryKept'
  BY NoneAssumption, ActorsAssumption DEF Shapes, ConnShape, RemovalShape, Made, Named, Quiet, Taken, HistoryKept
<1> QED
  BY <1>1, <1>2, <1>3, <1>4, <1>5, <1>6, <1>7

LEMMA DeleteOK == ASSUME IInv, NEW t \in Removers, Delete(t) PROVE IInv'
<1> USE DEF IInv, Delete, objVars, taskVars, history, NoRemoval, Removers, Writers
<1>1. Shapes'
  BY NoneAssumption, ActorsAssumption DEF Shapes, ConnShape, RemovalShape
<1>2. Made'
  BY NoneAssumption, ActorsAssumption DEF Shapes, ConnShape, RemovalShape, Made, Named
<1>3. Named'
  BY NoneAssumption, ActorsAssumption DEF Shapes, ConnShape, RemovalShape, Made, Named
<1>4. Quiet'
  <2>1. rm[t] # NoRemoval
    BY NoneAssumption
  <2>2. \A u \in Removers \ {t} : rm'[u] = rm[u]
    BY DEF Shapes, ConnShape, RemovalShape
  <2> QED
    BY <2>1, <2>2 DEF Quiet
<1>5. Taken'
  BY NoneAssumption, ActorsAssumption DEF Shapes, ConnShape, RemovalShape, Made, Named, Taken
<1>6. NoOrphan'
  BY NoneAssumption, ActorsAssumption DEF Shapes, ConnShape, RemovalShape, Made, Named, Quiet, NoOrphan
<1>7. HistoryKept'
  BY NoneAssumption, ActorsAssumption DEF Shapes, ConnShape, RemovalShape, Made, Named, Quiet, Taken, HistoryKept
<1> QED
  BY <1>1, <1>2, <1>3, <1>4, <1>5, <1>6, <1>7

LEMMA KillOK == ASSUME IInv, NEW k \in Kills, Kill(k) PROVE IInv'
<1> USE DEF IInv, Kill, objVars, taskVars, history, NoRemoval, Removers, Writers
<1>1. Shapes'
  BY NoneAssumption, ActorsAssumption DEF Shapes, ConnShape, RemovalShape
<1>2. Made'
  BY NoneAssumption, ActorsAssumption DEF Shapes, ConnShape, RemovalShape, Made, Named
<1>3. Named'
  BY NoneAssumption, ActorsAssumption DEF Shapes, ConnShape, RemovalShape, Made, Named
<1>4. Quiet'
  <2>1. \A t \in Removers : t # k => rm'[t] = rm[t]
    BY DEF Shapes
  <2>2. \A j \in Kills : kill'[j] = "idle" => j # k /\ kill[j] = "idle"
    BY DEF Shapes
  <2>3. k \notin Conns
    BY ActorsAssumption
  <2> QED
    BY <2>1, <2>2, <2>3 DEF Quiet
<1>5. Taken'
  BY NoneAssumption, ActorsAssumption DEF Shapes, ConnShape, RemovalShape, Made, Named, Taken
<1>6. NoOrphan'
  BY NoneAssumption, ActorsAssumption DEF Shapes, ConnShape, RemovalShape, Made, Named, Quiet, NoOrphan
<1>7. HistoryKept'
  BY NoneAssumption, ActorsAssumption DEF Shapes, ConnShape, RemovalShape, Made, Named, Quiet, Taken, HistoryKept
<1> QED
  BY <1>1, <1>2, <1>3, <1>4, <1>5, <1>6, <1>7

LEMMA ReaperRoundOK == ASSUME IInv, ReaperRound PROVE IInv'
<1> USE DEF IInv, ReaperRound, IdleSince, objVars, taskVars, history, NoRemoval, Removers, Writers, Listed
<1>1. Shapes'
  <2>1. PICK last \in Listed :
          LET old == IdleSince(last)
          IN /\ sessions' = [i \in Ids |-> IF sessions[i] \in old THEN None
                                           ELSE sessions[i]]
             /\ rm' = [rm EXCEPT ![Reaper].todo = old]
             /\ lapsed' = lapsed \cup {id[o] : o \in old}
    OBVIOUS
  <2> DEFINE old == IdleSince(last)
  <2>2. /\ old \subseteq Objs
        /\ {id[o] : o \in old} \subseteq Ids
    BY DEF Shapes, ConnShape, RemovalShape, Named, IdleSince
  <2> HIDE DEF old
  <2>3. sessions' \in [Ids -> Objs \cup {None}]
    BY <2>1 DEF Shapes, ConnShape, RemovalShape, old
  <2>4. rm' \in [Removers -> RemovalShape]
    BY <2>1, <2>2 DEF Shapes, ConnShape, RemovalShape, old
  <2>5. lapsed' \subseteq Ids
    BY <2>1, <2>2 DEF Shapes, ConnShape, RemovalShape, old
  <2> QED
    BY <2>3, <2>4, <2>5 DEF Shapes
<1>2. Made'
  BY NoneAssumption, ActorsAssumption DEF Shapes, ConnShape, RemovalShape, Made, Named
<1>3. Named'
  BY NoneAssumption, ActorsAssumption DEF Shapes, ConnShape, RemovalShape, Made, Named
<1>4. Quiet'
  <2>1. \A t \in Removers : t # Reaper => rm'[t] = rm[t]
    BY DEF Shapes
  <2>2. Reaper \notin Conns \cup Kills
    BY ActorsAssumption
  <2> QED
    BY <2>1, <2>2 DEF Quiet
<1>5. Taken'
  <2> SUFFICES ASSUME NEW t \in Removers
               PROVE  /\ rm'[t].deleting # None => rm'[t].deleting \in lapsed'
                      /\ \A o \in rm'[t].todo : id'[o] \in lapsed'
    BY DEF Taken
  <2>1. lapsed \subseteq lapsed' /\ id' = id
    OBVIOUS
  <2>2. CASE t = Reaper
    <3>1. rm'[Reaper].deleting = None
      BY DEF Shapes, ConnShape, RemovalShape
    <3>2. \A o \in rm'[Reaper].todo : id[o] \in lapsed'
      BY DEF Shapes, ConnShape, RemovalShape
    <3> QED
      BY <2>1, <2>2, <3>1, <3>2
  <2>3. CASE t # Reaper
    <3>1. rm'[t] = rm[t]
      BY <2>3 DEF Shapes, ConnShape, RemovalShape
    <3> QED
      BY <2>1, <3>1 DEF Taken
  <2> QED
    BY <2>2, <2>3
<1>6. NoOrphan'
  <2> SUFFICES ASSUME NEW o \in Objs, child'[o] = "live"
               PROVE  \/ sessions'[id'[o]] = o
                      \/ \E c \in Conns : conn'[c].pc = "insert" /\ conn'[c].o = o
                      \/ \E t \in Removers : o \in rm'[t].todo
    BY DEF NoOrphan
  <2>1. child' = child /\ id' = id /\ conn' = conn
    OBVIOUS
  <2>2. CASE sessions[id[o]] = o
    <3>1. id[o] \in Ids
      BY <2>1 DEF Made
    <3>2. sessions'[id[o]] = o \/ o \in rm'[Reaper].todo
      BY <2>2, <3>1, NoneAssumption DEF Shapes
    <3> QED
      BY <2>1, <3>2
  <2>3. CASE \E c \in Conns : conn[c].pc = "insert" /\ conn[c].o = o
    BY <2>1, <2>3
  <2>4. CASE \E t \in Removers : o \in rm[t].todo
    <3>1. \A t \in Removers : t # Reaper => rm'[t] = rm[t]
      BY DEF Shapes
    <3>2. rm[Reaper].todo = {}
      OBVIOUS
    <3> QED
      BY <2>4, <3>1, <3>2
  <2> QED
    BY <2>1, <2>2, <2>3, <2>4 DEF NoOrphan
<1>7. HistoryKept'
  BY NoneAssumption, ActorsAssumption DEF Shapes, ConnShape, RemovalShape, Made, Named, Quiet, Taken, HistoryKept
<1> QED
  BY <1>1, <1>2, <1>3, <1>4, <1>5, <1>6, <1>7

LEMMA PruneOK == ASSUME IInv, Prune PROVE IInv'
<1>1. PICK ancient \in SUBSET rows :
        rows' = rows \ ancient /\ lapsed' = lapsed \cup ancient
  BY DEF Prune
<1>2. UNCHANGED <<sessions, objVars, taskVars>>
  BY DEF Prune
<1> USE <1>2 DEF IInv, objVars, taskVars
<1>3. Shapes'
  BY <1>1 DEF Shapes
<1>4. Made' /\ Named' /\ Quiet' /\ NoOrphan'
  BY DEF Made, Named, Quiet, NoOrphan
<1>5. Taken'
  BY <1>1 DEF Taken
<1>6. HistoryKept'
  BY <1>1 DEF HistoryKept
<1> QED
  BY <1>3, <1>4, <1>5, <1>6

LEMMA LookUpOK == ASSUME IInv, NEW c \in Conns, LookUp(c) PROVE IInv'
<1> USE DEF IInv, LookUp, objVars, taskVars, history, NoRemoval, Removers, Writers
<1>1. Shapes'
  BY NoneAssumption DEF Shapes, ConnShape, RemovalShape
<1>2. Made'
  BY NoneAssumption DEF Shapes, ConnShape, RemovalShape, Made, Named
<1>3. Named'
  BY NoneAssumption DEF Shapes, ConnShape, RemovalShape, Made, Named
<1>4. Quiet'
  BY NoneAssumption DEF Shapes, ConnShape, RemovalShape, Quiet
<1>5. Taken'
  BY NoneAssumption DEF Shapes, ConnShape, RemovalShape, Made, Named, Taken
<1>6. NoOrphan'
  BY NoneAssumption DEF Shapes, ConnShape, RemovalShape, Made, Named, Quiet, NoOrphan
<1>7. HistoryKept'
  BY NoneAssumption DEF Shapes, ConnShape, RemovalShape, Made, Named, Quiet, Taken, HistoryKept
<1> QED
  BY <1>1, <1>2, <1>3, <1>4, <1>5, <1>6, <1>7

LEMMA SpawnOK == ASSUME IInv, NEW c \in Conns, Spawn(c) PROVE IInv'
<1> USE DEF IInv, Spawn, objVars, taskVars, history, NoRemoval, Removers, Writers, Objs
<1>1. Shapes'
  <2>1. conn' \in [Conns -> ConnShape]
    <3>1. made + 1 \in Objs
      BY BoundAssumption DEF Shapes
    <3>2. conn[c] \in ConnShape
      BY DEF Shapes
    <3>3. [conn[c] EXCEPT !.pc = "insert", !.o = made + 1] \in ConnShape
      BY <3>1, <3>2 DEF ConnShape
    <3> QED
      BY <3>3 DEF Shapes
  <2>2. made' \in 0..MaxObjs /\ id' \in [Objs -> Ids \cup {None}]
    BY BoundAssumption DEF Shapes, ConnShape, RemovalShape, Named
  <2>3. child' \in [Objs -> {"none", "live", "over"}]
    BY DEF Shapes
  <2> QED
    BY <2>1, <2>2, <2>3 DEF Shapes
<1>2. Made'
  BY BoundAssumption, NoneAssumption DEF Shapes, ConnShape, RemovalShape, Made, Named
<1>3. Named'
  BY BoundAssumption, NoneAssumption DEF Shapes, ConnShape, RemovalShape, Made, Named
<1>4. Quiet'
  BY BoundAssumption, NoneAssumption DEF Shapes, ConnShape, RemovalShape, Quiet
<1>5. Taken'
  BY BoundAssumption, NoneAssumption DEF Shapes, ConnShape, RemovalShape, Made, Named, Taken
<1>6. NoOrphan'
  BY BoundAssumption, NoneAssumption DEF Shapes, ConnShape, RemovalShape, Made, Named, Quiet, NoOrphan
<1>7. HistoryKept'
  BY BoundAssumption, NoneAssumption DEF Shapes, ConnShape, RemovalShape, Made, Named, Quiet, Taken, HistoryKept
<1> QED
  BY <1>1, <1>2, <1>3, <1>4, <1>5, <1>6, <1>7

LEMMA SpawnFailsOK == ASSUME IInv, NEW c \in Conns, SpawnFails(c) PROVE IInv'
<1> USE DEF IInv, SpawnFails, objVars, taskVars, history, NoRemoval, Removers, Writers, Gone, NoConn
<1>1. Shapes'
  BY DEF Shapes, ConnShape, RemovalShape
<1>2. Made'
  BY DEF Shapes, ConnShape, RemovalShape, Made, Named
<1>3. Named'
  BY DEF Shapes, ConnShape, RemovalShape, Made, Named
<1>4. Quiet'
  BY DEF Shapes, ConnShape, RemovalShape, Quiet
<1>5. Taken'
  BY DEF Shapes, ConnShape, RemovalShape, Made, Named, Taken
<1>6. NoOrphan'
  BY DEF Shapes, ConnShape, RemovalShape, Made, Named, Quiet, NoOrphan
<1>7. HistoryKept'
  BY DEF Shapes, ConnShape, RemovalShape, Made, Named, Quiet, Taken, HistoryKept
<1> QED
  BY <1>1, <1>2, <1>3, <1>4, <1>5, <1>6, <1>7

LEMMA JoinWinnerOK == ASSUME IInv, NEW c \in Conns, JoinWinner(c) PROVE IInv'
<1> USE DEF IInv, JoinWinner, objVars, taskVars, history, NoRemoval, Removers, Writers, LostRace
<1>1. Shapes'
  <2>1. conn' \in [Conns -> ConnShape]
    <3>1. conn[c] \in ConnShape /\ sessions[conn[c].id] \in Objs \cup {None}
      BY DEF Shapes, Named
    <3>2. [conn[c] EXCEPT !.pc = "attach", !.o = sessions[conn[c].id]] \in ConnShape
      BY <3>1 DEF ConnShape
    <3> QED
      BY <3>2 DEF Shapes
  <2>2. child' \in [Objs -> {"none", "live", "over"}]
    BY DEF Shapes
  <2> QED
    BY <2>1, <2>2 DEF Shapes
<1>2. Made'
  BY NoneAssumption DEF Shapes, ConnShape, RemovalShape, Made, Named
<1>3. Named'
  BY NoneAssumption DEF Shapes, ConnShape, RemovalShape, Made, Named
<1>4. Quiet'
  BY NoneAssumption DEF Shapes, ConnShape, RemovalShape, Quiet
<1>5. Taken'
  BY NoneAssumption DEF Shapes, ConnShape, RemovalShape, Made, Named, Taken
<1>6. NoOrphan'
  BY NoneAssumption DEF Shapes, ConnShape, RemovalShape, Made, Named, Quiet, NoOrphan
<1>7. HistoryKept'
  BY NoneAssumption DEF Shapes, ConnShape, RemovalShape, Made, Named, Quiet, Taken, HistoryKept
<1> QED
  BY <1>1, <1>2, <1>3, <1>4, <1>5, <1>6, <1>7

LEMMA InsertOK == ASSUME IInv, NEW c \in Conns, Insert(c) PROVE IInv'
<1> DEFINE o == conn[c].o
           i == conn[c].id
           V == Victims(Listed \cup {o})
           Put(j) == IF j = i THEN o ELSE sessions[j]
<1>1. /\ o \in Objs /\ o <= made /\ i \in Ids /\ id[o] = i /\ sessions[i] = None
      /\ rm[c] = NoRemoval /\ wr[c] = None
  BY DEF IInv, Insert, LostRace, Named, Quiet
<1>2. V \subseteq Objs /\ \A v \in V : v <= made /\ id[v] \in Ids
  BY <1>1 DEF IInv, Shapes, Made, Named, Victims, Listed
<1>3. /\ sessions' = [j \in Ids |-> IF Put(j) \in V THEN None ELSE Put(j)]
      /\ rm' = [rm EXCEPT ![c].todo = V]
      /\ lapsed' = lapsed \cup {id[v] : v \in V}
      /\ wr' = [wr EXCEPT ![c] = o]
      /\ conn' = [conn EXCEPT ![c].pc = "attach"]
      /\ UNCHANGED <<made, id, child, kill, persist, rows>>
  BY DEF Insert, StartWrite
<1> USE DEF IInv
<1> HIDE DEF V
<1>4. \A t \in Removers : t # c => rm'[t] = rm[t]
  BY <1>3 DEF Shapes, ConnShape, RemovalShape
<1>5. rm'[c] = [todo |-> V, deleting |-> None]
  BY <1>1, <1>3 DEF Shapes, ConnShape, RemovalShape, NoRemoval, Removers
<1>6. /\ \A w \in Writers : w # c => wr'[w] = wr[w]
      /\ wr'[c] = o
  BY <1>3 DEF Shapes, ConnShape, RemovalShape, Writers
<1>7. /\ \A d \in Conns : d # c => conn'[d] = conn[d]
      /\ conn'[c].pc = "attach"
      /\ conn' \in [Conns -> ConnShape]
  <2>1. [conn[c] EXCEPT !.pc = "attach"] \in ConnShape
    BY DEF Shapes, ConnShape
  <2> QED
    BY <1>3, <2>1 DEF Shapes
<1>8. Shapes'
  <2>1. sessions' \in [Ids -> Objs \cup {None}]
    BY <1>1, <1>3 DEF Shapes
  <2>2. rm' \in [Removers -> RemovalShape]
    <3>1. rm[c] \in RemovalShape
      BY DEF Shapes, Removers
    <3>2. [rm[c] EXCEPT !.todo = V] \in RemovalShape
      BY <1>2, <3>1 DEF RemovalShape
    <3> QED
      BY <1>3, <3>2 DEF Shapes
  <2>3. wr' \in [Writers -> Objs \cup {None}]
    BY <1>1, <1>3 DEF Shapes
  <2>4. lapsed' \subseteq Ids
    BY <1>2, <1>3 DEF Shapes
  <2> QED
    BY <1>3, <1>7, <2>1, <2>2, <2>3, <2>4 DEF Shapes
<1>9. Made'
  <2>1. \A j \in Ids : sessions'[j] # None => sessions'[j] <= made
    BY <1>1, <1>3 DEF Made
  <2>2. \A t \in Removers : \A v \in rm'[t].todo : v <= made
    BY <1>2, <1>4, <1>5 DEF Made
  <2>3. \A w \in Writers : wr'[w] # None =>
          wr'[w] <= made /\ id[wr'[w]] \in Ids
    BY <1>1, <1>6 DEF Made
  <2> QED
    BY <1>3, <2>1, <2>2, <2>3 DEF Made
<1>10. Named'
  <2>1. \A j \in Ids : sessions'[j] # None => id[sessions'[j]] = j
    BY <1>1, <1>3 DEF Named
  <2> QED
    BY <1>3, <1>7, <2>1 DEF Named
<1>11. Quiet'
  <2>1. \A k \in Kills : kill'[k] = "idle" => rm'[k] = NoRemoval
    BY <1>3, <1>4, ActorsAssumption DEF Quiet, Removers
  <2>2. \A d \in Conns : conn'[d].pc \in {"idle", "spawn", "insert"} =>
          rm'[d] = NoRemoval /\ wr'[d] = None
    BY <1>4, <1>6, <1>7 DEF Quiet, Removers, Writers
  <2> QED
    BY <2>1, <2>2 DEF Quiet
<1>12. Taken'
  BY <1>3, <1>4, <1>5 DEF Taken
<1>13. NoOrphan'
  <2> SUFFICES ASSUME NEW p \in Objs, child[p] = "live"
               PROVE  \/ sessions'[id[p]] = p
                      \/ \E d \in Conns : conn'[d].pc = "insert" /\ conn'[d].o = p
                      \/ \E t \in Removers : p \in rm'[t].todo
    BY <1>3 DEF NoOrphan
  <2>1. CASE p \in V
    BY <1>5, <2>1 DEF Removers
  <2>2. CASE p \notin V /\ p = o
    BY <1>1, <1>3, <2>2
  <2>3. CASE p \notin V /\ p # o /\ sessions[id[p]] = p
    <3>1. id[p] \in Ids /\ id[p] # i
      BY <1>1, <2>3, NoneAssumption DEF Made
    <3> QED
      BY <1>3, <2>3, <3>1
  <2>4. CASE p # o /\ \E d \in Conns : conn[d].pc = "insert" /\ conn[d].o = p
    BY <1>7, <2>4
  <2>5. CASE \E t \in Removers : p \in rm[t].todo
    BY <1>1, <1>4, <2>5 DEF NoRemoval
  <2> QED
    BY <2>1, <2>2, <2>3, <2>4, <2>5 DEF NoOrphan
<1>14. HistoryKept'
  <2> SUFFICES ASSUME NEW j \in Ids, sessions'[j] # None, j \notin lapsed'
               PROVE  \/ j \in rows
                      \/ \E d \in Conns : wr'[d] = sessions'[j]
    BY <1>3 DEF HistoryKept
  <2>1. CASE j = i
    BY <1>3, <1>6, <2>1
  <2>2. CASE j # i
    <3>1. sessions'[j] = sessions[j] /\ j \notin lapsed /\ sessions[j] # None
      BY <1>3, <2>2
    <3>2. \A d \in Conns : wr[d] = sessions[j] => d # c
      BY <1>1, <3>1, NoneAssumption
    <3> QED
      BY <1>6, <3>1, <3>2 DEF HistoryKept, Writers
  <2> QED
    BY <2>1, <2>2
<1> QED
  BY <1>8, <1>9, <1>10, <1>11, <1>12, <1>13, <1>14

LEMMA AttachOK == ASSUME IInv, NEW c \in Conns, Attach(c) PROVE IInv'
<1> USE DEF IInv, Attach, objVars, taskVars, history, NoRemoval, Removers, Writers
<1>1. Shapes'
  <2>1. conn' = [conn EXCEPT ![c].pc = "attached"]
    OBVIOUS
  <2>2. conn' \in [Conns -> ConnShape]
    <3>1. conn \in [Conns -> ConnShape]
      BY DEF Shapes
    <3> HIDE DEF Attach, IInv
    <3> QED
      BY <2>1, <3>1 DEF ConnShape
  <2> QED
    BY <2>2 DEF Shapes
<1>2. Made'
  BY DEF Shapes, ConnShape, RemovalShape, Made, Named
<1>3. Named'
  BY DEF Shapes, ConnShape, RemovalShape, Made, Named
<1>4. Quiet'
  BY DEF Shapes, ConnShape, RemovalShape, Quiet
<1>5. Taken'
  BY DEF Shapes, ConnShape, RemovalShape, Made, Named, Taken
<1>6. NoOrphan'
  BY DEF Shapes, ConnShape, RemovalShape, Made, Named, Quiet, NoOrphan
<1>7. HistoryKept'
  BY DEF Shapes, ConnShape, RemovalShape, Made, Named, Quiet, Taken, HistoryKept
<1> QED
  BY <1>1, <1>2, <1>3, <1>4, <1>5, <1>6, <1>7

LEMMA ReleaseOK == ASSUME IInv, NEW c \in Conns, Release(c) PROVE IInv'
<1> USE DEF IInv, Release, objVars, taskVars, history, NoRemoval, Removers, Writers, Gone, NoConn
<1>1. Shapes'
  BY DEF Shapes, ConnShape, RemovalShape
<1>2. Made'
  BY DEF Shapes, ConnShape, RemovalShape, Made, Named
<1>3. Named'
  BY DEF Shapes, ConnShape, RemovalShape, Made, Named
<1>4. Quiet'
  BY DEF Shapes, ConnShape, RemovalShape, Quiet
<1>5. Taken'
  BY DEF Shapes, ConnShape, RemovalShape, Made, Named, Taken
<1>6. NoOrphan'
  BY DEF Shapes, ConnShape, RemovalShape, Made, Named, Quiet, NoOrphan
<1>7. HistoryKept'
  BY DEF Shapes, ConnShape, RemovalShape, Made, Named, Quiet, Taken, HistoryKept
<1> QED
  BY <1>1, <1>2, <1>3, <1>4, <1>5, <1>6, <1>7

LEMMA OutputOK == ASSUME IInv, NEW o \in Objs, Output(o) PROVE IInv'
<1> USE DEF IInv, Output, objVars, taskVars, history, NoRemoval, Removers, Writers
<1>1. Shapes'
  BY DEF Shapes, ConnShape, RemovalShape
<1>2. Made'
  BY DEF Shapes, ConnShape, RemovalShape, Made, Named
<1>3. Named'
  BY DEF Shapes, ConnShape, RemovalShape, Made, Named
<1>4. Quiet'
  BY DEF Shapes, ConnShape, RemovalShape, Quiet
<1>5. Taken'
  BY DEF Shapes, ConnShape, RemovalShape, Made, Named, Taken
<1>6. NoOrphan'
  BY DEF Shapes, ConnShape, RemovalShape, Made, Named, Quiet, NoOrphan
<1>7. HistoryKept'
  BY DEF Shapes, ConnShape, RemovalShape, Made, Named, Quiet, Taken, HistoryKept
<1> QED
  BY <1>1, <1>2, <1>3, <1>4, <1>5, <1>6, <1>7

LEMMA ExitOK == ASSUME IInv, NEW o \in Objs, Exit(o) PROVE IInv'
<1> USE DEF IInv, Exit, objVars, taskVars, history, NoRemoval, Removers, Writers
<1>1. Shapes'
  BY DEF Shapes, ConnShape, RemovalShape
<1>2. Made'
  BY DEF Shapes, ConnShape, RemovalShape, Made, Named
<1>3. Named'
  BY DEF Shapes, ConnShape, RemovalShape, Made, Named
<1>4. Quiet'
  BY DEF Shapes, ConnShape, RemovalShape, Quiet
<1>5. Taken'
  BY DEF Shapes, ConnShape, RemovalShape, Made, Named, Taken
<1>6. NoOrphan'
  BY DEF Shapes, ConnShape, RemovalShape, Made, Named, Quiet, NoOrphan
<1>7. HistoryKept'
  BY DEF Shapes, ConnShape, RemovalShape, Made, Named, Quiet, Taken, HistoryKept
<1> QED
  BY <1>1, <1>2, <1>3, <1>4, <1>5, <1>6, <1>7

LEMMA ReaderEndOK == ASSUME IInv, NEW o \in Objs, ReaderEnd(o) PROVE IInv'
<1> USE DEF IInv, ReaderEnd, objVars, taskVars, history, NoRemoval, Removers, Writers, StartWrite
<1>1. Shapes'
  BY ActorsAssumption DEF Shapes, ConnShape, RemovalShape
<1>2. Made'
  BY ActorsAssumption DEF Shapes, ConnShape, RemovalShape, Made, Named
<1>3. Named'
  BY ActorsAssumption DEF Shapes, ConnShape, RemovalShape, Made, Named
<1>4. Quiet'
  BY ActorsAssumption DEF Shapes, ConnShape, RemovalShape, Quiet
<1>5. Taken'
  BY ActorsAssumption DEF Shapes, ConnShape, RemovalShape, Made, Named, Taken
<1>6. NoOrphan'
  BY ActorsAssumption DEF Shapes, ConnShape, RemovalShape, Made, Named, Quiet, NoOrphan
<1>7. HistoryKept'
  BY ActorsAssumption DEF Shapes, ConnShape, RemovalShape, Made, Named, Quiet, Taken, HistoryKept
<1> QED
  BY <1>1, <1>2, <1>3, <1>4, <1>5, <1>6, <1>7

LEMMA PersisterRoundOK == ASSUME IInv, PersisterRound PROVE IInv'
<1> USE DEF IInv, PersisterRound, objVars, taskVars, history, NoRemoval, Removers, Writers
<1>1. Shapes'
  <2>1. \A o \in Listed : o \in Objs /\ o <= made /\ id[o] \in Ids
    BY DEF Shapes, ConnShape, RemovalShape, Made, Named, Listed
  <2> QED
    BY <2>1 DEF Shapes, ConnShape, RemovalShape, Made
<1>2. Made'
  <2>1. \A o \in Listed : o \in Objs /\ o <= made /\ id[o] \in Ids
    BY DEF Shapes, ConnShape, RemovalShape, Made, Named, Listed
  <2> QED
    BY <2>1 DEF Shapes, ConnShape, RemovalShape, Made
<1>3. Named'
  BY DEF Shapes, ConnShape, RemovalShape, Made, Named
<1>4. Quiet'
  BY DEF Shapes, ConnShape, RemovalShape, Quiet
<1>5. Taken'
  BY DEF Shapes, ConnShape, RemovalShape, Made, Named, Taken
<1>6. NoOrphan'
  BY DEF Shapes, ConnShape, RemovalShape, Made, Named, Quiet, NoOrphan
<1>7. HistoryKept'
  BY DEF Shapes, ConnShape, RemovalShape, Made, Named, Quiet, Taken, HistoryKept
<1> QED
  BY <1>1, <1>2, <1>3, <1>4, <1>5, <1>6, <1>7

LEMMA PersisterLookOK == ASSUME IInv, PersisterLook PROVE IInv'
<1> USE DEF IInv, PersisterLook, objVars, taskVars, history, NoRemoval, Removers, Writers, StartWrite
<1>1. Shapes'
  BY ActorsAssumption DEF Shapes, ConnShape, RemovalShape
<1>2. Made'
  BY ActorsAssumption DEF Shapes, ConnShape, RemovalShape, Made, Named
<1>3. Named'
  BY ActorsAssumption DEF Shapes, ConnShape, RemovalShape, Made, Named
<1>4. Quiet'
  BY ActorsAssumption DEF Shapes, ConnShape, RemovalShape, Quiet
<1>5. Taken'
  BY ActorsAssumption DEF Shapes, ConnShape, RemovalShape, Made, Named, Taken
<1>6. NoOrphan'
  BY ActorsAssumption DEF Shapes, ConnShape, RemovalShape, Made, Named, Quiet, NoOrphan
<1>7. HistoryKept'
  <2>1. \A c \in Conns : wr'[c] = wr[c]
    BY ActorsAssumption DEF Shapes, ConnShape, RemovalShape
  <2> QED
    BY <2>1 DEF HistoryKept
<1> QED
  BY <1>1, <1>2, <1>3, <1>4, <1>5, <1>6, <1>7

LEMMA RestartOK == ASSUME IInv, Restart PROVE IInv'
<1>1. PICK loaded \in {rows} \cup (IF Refusals THEN {{}} ELSE {}) :
        LET n == Cardinality(loaded) IN
        \E at \in Bijection(1..n, loaded) :
          /\ n <= MaxObjs
          /\ made' = n
          /\ id' = [o \in Objs |-> IF o <= n THEN at[o] ELSE None]
          /\ recent' = {x \in (1..n) \X (1..n) : x[1] < x[2]}
          /\ sessions' = [i \in Ids |-> IF i \in loaded
                           THEN CHOOSE o \in 1..n : at[o] = i ELSE None]
  BY DEF Restart
<1> DEFINE n == Cardinality(loaded)
<1>2. PICK at \in Bijection(1..n, loaded) :
        /\ n <= MaxObjs
        /\ made' = n
        /\ id' = [o \in Objs |-> IF o <= n THEN at[o] ELSE None]
        /\ sessions' = [i \in Ids |-> IF i \in loaded
                         THEN CHOOSE o \in 1..n : at[o] = i ELSE None]
  BY <1>1
<1>0. loaded \subseteq rows /\ n \in Nat
  BY IdsAssumption, FS_Subset, FS_CardinalityType DEF IInv, Shapes
<1> HIDE DEF n
<1>3. /\ at \in [1..n -> loaded]
      /\ \A i \in loaded : \E o \in 1..n : at[o] = i
  BY DEF Bijection, Injection, Surjection, IsInjective
<1>4. /\ child' = [o \in Objs |-> "none"]
      /\ conn' = [c \in Conns |-> IF conn[c].pc = "idle" THEN NoConn ELSE Gone]
      /\ wr' = [w \in Writers |-> None]
      /\ rm' = [t \in Removers |-> NoRemoval]
      /\ persist' = {} /\ lapsed' = {} /\ kill' = kill /\ rows' = rows
  BY DEF Restart
<1>5. 1..n \subseteq Objs
  BY <1>0, <1>2, BoundAssumption DEF Objs
<1>6. \A i \in Ids : sessions'[i] # None =>
        i \in rows /\ sessions'[i] \in 1..n /\ at[sessions'[i]] = i
  BY <1>0, <1>2, <1>3
<1> USE DEF IInv
<1>7. Shapes'
  <2>1. sessions' \in [Ids -> Objs \cup {None}]
    BY <1>2, <1>3, <1>5
  <2>2. made' \in 0..MaxObjs /\ id' \in [Objs -> Ids \cup {None}]
    <3>1. \A o \in Objs : o <= n => at[o] \in Ids
      BY <1>0, <1>3 DEF Objs, Shapes
    <3> QED
      BY <1>0, <1>2, <3>1, BoundAssumption
  <2>3. conn' \in [Conns -> ConnShape]
    BY <1>4 DEF ConnShape, NoConn, Gone
  <2>4. wr' \in [Writers -> Objs \cup {None}] /\ rm' \in [Removers -> RemovalShape]
    BY <1>4 DEF RemovalShape, NoRemoval
  <2>5. child' \in [Objs -> {"none", "live", "over"}]
    BY <1>4
  <2> QED
    BY <1>4, <2>1, <2>2, <2>3, <2>4, <2>5 DEF Shapes
<1>8. Made'
  <2>1. \A i \in Ids : sessions'[i] # None => sessions'[i] <= made'
    BY <1>0, <1>2, <1>6
  <2> QED
    BY <1>4, <2>1 DEF Made, NoRemoval
<1>9. Named'
  <2>1. \A i \in Ids : sessions'[i] # None => id'[sessions'[i]] = i
    BY <1>0, <1>2, <1>5, <1>6
  <2> QED
    BY <1>4, <2>1 DEF Named, NoConn, Gone
<1>10. Quiet' /\ Taken' /\ NoOrphan'
  BY <1>4 DEF Quiet, Taken, NoOrphan, NoRemoval, Removers, Writers, Shapes
<1>11. HistoryKept'
  BY <1>4, <1>6 DEF HistoryKept
<1> QED
  BY <1>7, <1>8, <1>9, <1>10, <1>11

LEMMA NextOK == IInv /\ [Next]_vars => IInv'
<1> SUFFICES ASSUME IInv, [Next]_vars PROVE IInv'
  OBVIOUS
<1>1. CASE \E w \in Writers : PersistSession(w)
  BY <1>1, PersistSessionOK
<1>2. CASE \E t \in Removers : Reap(t) \/ Delete(t)
  BY <1>2, ReapOK, DeleteOK
<1>3. CASE \E k \in Kills : Kill(k)
  BY <1>3, KillOK
<1>4. CASE ReaperRound \/ Prune
  BY <1>4, ReaperRoundOK, PruneOK
<1>5. CASE \E c \in Conns :
             \/ LookUp(c) \/ Spawn(c) \/ SpawnFails(c) \/ JoinWinner(c)
             \/ Insert(c) \/ Attach(c) \/ Release(c)
  BY <1>5, LookUpOK, SpawnOK, SpawnFailsOK, JoinWinnerOK, InsertOK, AttachOK,
     ReleaseOK
<1>6. CASE \E o \in Objs : Output(o) \/ Exit(o) \/ ReaderEnd(o)
  BY <1>6, OutputOK, ExitOK, ReaderEndOK
<1>7. CASE PersisterRound \/ PersisterLook
  BY <1>7, PersisterRoundOK, PersisterLookOK
<1>8. CASE Restart
  BY <1>8, RestartOK
<1>9. CASE UNCHANGED vars
  BY <1>9 DEF IInv, Shapes, Made, Named, Quiet, Taken, NoOrphan, HistoryKept,
     vars, objVars, taskVars, history
<1> QED
  BY <1>1, <1>2, <1>3, <1>4, <1>5, <1>6, <1>7, <1>8, <1>9 DEF Next

LEMMA Inductive == Spec => []IInv
BY InitOK, NextOK, PTL DEF Spec

\* Whatever sockets, kills, evictions and restarts do to it, every shell that
\* runs can be reached through the registry or is about to be listed or reaped.
THEOREM ShellsAccounted == Spec => []NoOrphan
<1>1. IInv => NoOrphan
  BY DEF IInv
<1> QED
  BY Inductive, <1>1, PTL

\* A session that is listed is in SQLite, or its creator is about to put it
\* there: unless its id was taken out, or its row refused or pruned, and the row
\* has not been written since without a delete to come.
THEOREM HistorySurvives == Spec => []HistoryKept
<1>1. IInv => HistoryKept
  BY DEF IInv
<1> QED
  BY Inductive, <1>1, PTL
----------------------------------------------------------------------------
(* The order by last activity, and the types *)

\* R is a strict order of 1..n in which any two are related.
Strict(R, n) ==
  /\ R \subseteq {x \in (1..n) \X (1..n) : x[1] # x[2]}
  /\ \A o, p \in 1..n :
       /\ o # p => (<<o, p>> \in R <=> <<p, o>> \notin R)
       /\ \A q \in 1..n : <<o, p>> \in R /\ <<p, q>> \in R => <<o, q>> \in R

\* A session that a socket is taking over, or has, has been made.
Held ==
  \A c \in Conns : conn[c].pc \in {"attach", "attached"} =>
    conn[c].o \in Objs /\ conn[c].o <= made

Flags ==
  /\ dirty \in [Objs -> BOOLEAN]
  /\ sub \in [Objs -> Conns \cup {None}]
  /\ reader \in [Objs -> {"read", "done"}]
  /\ restarts \in 0..MaxRestarts

TInv == IInv /\ Strict(recent, made) /\ Held /\ Flags

\* The session that was active last is older than none.
LEMMA Touched ==
  ASSUME NEW n \in Nat, NEW o \in 1..n, NEW R, Strict(R, n)
  PROVE  Strict({x \in R : o \notin {x[1], x[2]}} \cup (((1..n) \ {o}) \X {o}), n)
<1> DEFINE T == {x \in R : o \notin {x[1], x[2]}} \cup (((1..n) \ {o}) \X {o})
<1>1. \A p, q \in 1..n : <<p, q>> \in T <=>
        \/ p # o /\ q # o /\ <<p, q>> \in R
        \/ p # o /\ q = o
  OBVIOUS
<1>2. T \subseteq {x \in (1..n) \X (1..n) : x[1] # x[2]}
  BY DEF Strict
<1> HIDE DEF T
<1>3. \A p, q \in 1..n : p # q => (<<p, q>> \in T <=> <<q, p>> \notin T)
  BY <1>1 DEF Strict
<1>4. \A p, q, r \in 1..n : <<p, q>> \in T /\ <<q, r>> \in T => <<p, r>> \in T
  <2> SUFFICES ASSUME NEW p \in 1..n, NEW q \in 1..n, NEW r \in 1..n,
                      <<p, q>> \in T, <<q, r>> \in T
               PROVE  <<p, r>> \in T
    OBVIOUS
  <2>1. p # o /\ q # o /\ <<p, q>> \in R
    BY <1>1
  <2>2. r # o => <<p, r>> \in R
    BY <1>1, <2>1 DEF Strict
  <2> QED
    BY <1>1, <2>1, <2>2
<1>5. Strict(T, n)
  BY <1>2, <1>3, <1>4 DEF Strict
<1> QED
  BY <1>5 DEF T

LEMMA Spawned ==
  ASSUME NEW n \in Nat, NEW R, Strict(R, n)
  PROVE  Strict(R \cup ((1..n) \X {n + 1}), n + 1)
<1> DEFINE T == R \cup ((1..n) \X {n + 1})
<1>1. \A p, q \in 1..(n + 1) : <<p, q>> \in T <=>
        \/ p # n + 1 /\ q # n + 1 /\ <<p, q>> \in R
        \/ p # n + 1 /\ q = n + 1
  <2> SUFFICES ASSUME NEW p \in 1..(n + 1), NEW q \in 1..(n + 1)
               PROVE  <<p, q>> \in T <=>
                        \/ p # n + 1 /\ q # n + 1 /\ <<p, q>> \in R
                        \/ p # n + 1 /\ q = n + 1
    OBVIOUS
  <2>1. <<p, q>> \in R => p # n + 1 /\ q # n + 1
    BY DEF Strict
  <2>2. <<p, q>> \in (1..n) \X {n + 1} <=> p # n + 1 /\ q = n + 1
    OBVIOUS
  <2> QED
    BY <2>1, <2>2
<1>2. T \subseteq {x \in (1..(n + 1)) \X (1..(n + 1)) : x[1] # x[2]}
  BY DEF Strict
<1> HIDE DEF T
<1>3. \A p \in 1..(n + 1) : p # n + 1 => p \in 1..n
  OBVIOUS
<1>4. \A p, q \in 1..(n + 1) : p # q => (<<p, q>> \in T <=> <<q, p>> \notin T)
  <2> SUFFICES ASSUME NEW p \in 1..(n + 1), NEW q \in 1..(n + 1), p # q
               PROVE  <<p, q>> \in T <=> <<q, p>> \notin T
    OBVIOUS
  <2>1. CASE p = n + 1 \/ q = n + 1
    BY <1>1, <2>1
  <2>2. CASE p # n + 1 /\ q # n + 1
    <3>1. <<p, q>> \in R <=> <<q, p>> \notin R
      BY <1>3, <2>2 DEF Strict
    <3> QED
      BY <1>1, <2>2, <3>1
  <2> QED
    BY <2>1, <2>2
<1>5. \A p, q, r \in 1..(n + 1) : <<p, q>> \in T /\ <<q, r>> \in T => <<p, r>> \in T
  <2> SUFFICES ASSUME NEW p \in 1..(n + 1), NEW q \in 1..(n + 1),
                      NEW r \in 1..(n + 1), <<p, q>> \in T, <<q, r>> \in T
               PROVE  <<p, r>> \in T
    OBVIOUS
  <2>1. p \in 1..n /\ q \in 1..n /\ <<p, q>> \in R
    BY <1>1, <1>3
  <2>2. CASE r = n + 1
    BY <1>1, <1>3, <2>1, <2>2
  <2>3. CASE r # n + 1
    <3>1. r \in 1..n /\ <<q, r>> \in R
      BY <1>1, <1>3, <2>3
    <3>2. <<p, r>> \in R
      BY <2>1, <3>1 DEF Strict
    <3> QED
      BY <1>1, <2>1, <2>3, <3>2
  <2> QED
    BY <2>2, <2>3
<1>6. Strict(T, n + 1)
  BY <1>2, <1>4, <1>5 DEF Strict
<1> QED
  BY <1>6 DEF T

\* load_persisted makes the sessions one after the other.
LEMMA Numbers ==
  ASSUME NEW n \in Nat
  PROVE  Strict({x \in (1..n) \X (1..n) : x[1] < x[2]}, n)
<1> DEFINE T == {x \in (1..n) \X (1..n) : x[1] < x[2]}
<1>1. \A p, q \in 1..n : <<p, q>> \in T <=> p < q
  OBVIOUS
<1>2. T \subseteq {x \in (1..n) \X (1..n) : x[1] # x[2]}
  OBVIOUS
<1> HIDE DEF T
<1>3. \A p, q \in 1..n : p # q => (<<p, q>> \in T <=> <<q, p>> \notin T)
  BY <1>1
<1>4. \A p, q, r \in 1..n : <<p, q>> \in T /\ <<q, r>> \in T => <<p, r>> \in T
  BY <1>1
<1>5. Strict(T, n)
  BY <1>2, <1>3, <1>4 DEF Strict
<1> QED
  BY <1>5 DEF T

LEMMA TInitOK == Init => TInv
<1> SUFFICES ASSUME Init PROVE TInv
  OBVIOUS
<1>1. Strict(recent, made)
  BY DEF Init, Strict
<1>2. Held /\ Flags
  BY BoundAssumption DEF Init, Held, Flags, NoConn
<1> QED
  BY InitOK, <1>1, <1>2 DEF TInv

\* What leaves the order, the flags and the sockets alone.
LEMMA OthersHeld ==
  ASSUME TInv,
         UNCHANGED <<made, dirty, sub, recent, reader, restarts, conn>>
  PROVE  Strict(recent', made') /\ Held' /\ Flags'
<1>1. Strict(recent', made')
  BY DEF TInv
<1>2. Held' /\ Flags'
  BY DEF TInv, Held, Flags
<1> QED
  BY <1>1, <1>2

LEMMA ConnHeld ==
  ASSUME TInv, NEW c \in Conns, LookUp(c) \/ SpawnFails(c) \/ JoinWinner(c) \/ Insert(c)
  PROVE  Strict(recent', made') /\ Held' /\ Flags'
<1>1. UNCHANGED <<made, dirty, sub, recent, reader, restarts>>
  BY DEF LookUp, SpawnFails, JoinWinner, Insert, objVars, history
<1>2. /\ \A d \in Conns : d # c => conn'[d] = conn[d]
      /\ conn'[c].pc \in {"attach", "attached"} =>
           conn'[c].o \in Objs /\ conn'[c].o <= made
  <2>0. conn[c] \in ConnShape /\ conn \in [Conns -> ConnShape]
    BY DEF TInv, IInv, Shapes
  <2>1. CASE LookUp(c)
    <3>1. PICK i \in Ids :
            conn' = [conn EXCEPT ![c] =
                  [pc |-> IF sessions[i] # None THEN "attach" ELSE "spawn",
                   id |-> i, o |-> sessions[i]]]
      BY <2>1 DEF LookUp
    <3>2. sessions[i] # None => sessions[i] \in Objs /\ sessions[i] <= made
      BY DEF TInv, IInv, Shapes, Made
    <3> QED
      BY <2>0, <3>1, <3>2
  <2>2. CASE SpawnFails(c)
    BY <2>0, <2>2 DEF SpawnFails, Gone, NoConn
  <2>3. CASE JoinWinner(c)
    <3>1. /\ conn' = [conn EXCEPT ![c].pc = "attach", ![c].o = sessions[conn[c].id]]
          /\ sessions[conn[c].id] # None /\ conn[c].pc = "insert"
      BY <2>3 DEF JoinWinner, LostRace
    <3>2. conn[c].id \in Ids
      BY <3>1 DEF TInv, IInv, Named
    <3>3. sessions[conn[c].id] \in Objs /\ sessions[conn[c].id] <= made
      BY <3>1, <3>2 DEF TInv, IInv, Shapes, Made
    <3>4. conn'[c].o = sessions[conn[c].id]
      BY <2>0, <3>1 DEF ConnShape
    <3> QED
      BY <2>0, <3>1, <3>3, <3>4
  <2>4. CASE Insert(c)
    <3>1. conn' = [conn EXCEPT ![c].pc = "attach"] /\ conn[c].pc = "insert"
      BY <2>4 DEF Insert
    <3>2. conn[c].o \in Objs /\ conn[c].o <= made
      BY <3>1 DEF TInv, IInv, Named
    <3> QED
      BY <2>0, <3>1, <3>2 DEF ConnShape
  <2> QED
    BY <2>1, <2>2, <2>3, <2>4
<1>3. Strict(recent', made')
  BY <1>1 DEF TInv
<1>4. Held' /\ Flags'
  BY <1>1, <1>2 DEF TInv, Held, Flags
<1> QED
  BY <1>3, <1>4

LEMMA SpawnHeld ==
  ASSUME TInv, NEW c \in Conns, Spawn(c)
  PROVE  Strict(recent', made') /\ Held' /\ Flags'
<1>1. /\ made < MaxObjs /\ made' = made + 1
      /\ recent' = recent \cup ((1..made) \X {made + 1})
      /\ reader' = [reader EXCEPT ![made + 1] = "read"]
      /\ conn' = [conn EXCEPT ![c].pc = "insert", ![c].o = made + 1]
      /\ UNCHANGED <<dirty, sub, restarts>>
  BY DEF Spawn, history
<1>2. made \in Nat /\ conn \in [Conns -> ConnShape]
  BY BoundAssumption DEF TInv, IInv, Shapes
<1>3. Strict(recent', made')
  BY <1>1, <1>2, Spawned DEF TInv
<1>4. Held'
  <2>1. conn'[c].pc = "insert"
    BY <1>1, <1>2 DEF ConnShape
  <2>2. \A d \in Conns : d # c => conn'[d] = conn[d]
    BY <1>1, <1>2
  <2>3. \A d \in Conns : conn'[d].pc \in {"attach", "attached"} =>
          conn'[d].o \in Objs /\ conn'[d].o <= made
    BY <2>1, <2>2 DEF TInv, Held
  <2> QED
    BY <1>1, <1>2, <2>3 DEF Held, Objs
<1>5. Flags'
  BY <1>1 DEF TInv, Flags
<1> QED
  BY <1>3, <1>4, <1>5

LEMMA AttachHeld ==
  ASSUME TInv, NEW c \in Conns, Attach(c) \/ Release(c)
  PROVE  Strict(recent', made') /\ Held' /\ Flags'
<1> DEFINE o == conn[c].o
<1>1. /\ conn[c].pc \in {"attach", "attached"}
      /\ recent' = Touch(o) /\ made' = made
      /\ UNCHANGED <<reader, restarts>>
  BY DEF Attach, Release, history
<1>2. o \in Objs /\ o <= made /\ made \in Nat /\ conn \in [Conns -> ConnShape]
  BY <1>1, BoundAssumption DEF TInv, Held, IInv, Shapes
<1>3. Strict(recent', made')
  <2>1. o \in 1..made
    BY <1>2 DEF Objs
  <2>2. Strict(recent, made)
    BY DEF TInv
  <2> HIDE DEF o
  <2> QED
    BY <1>1, <1>2, <2>1, <2>2, Touched DEF Touch
<1>4. Held'
  <2>1. /\ \A d \in Conns : d # c => conn'[d] = conn[d]
        /\ conn'[c].o = conn[c].o \/ conn'[c].pc = "done"
    BY <1>2 DEF Attach, Release, Gone, NoConn, ConnShape
  <2> QED
    BY <1>1, <1>2, <2>1 DEF TInv, Held
<1>5. Flags'
  <2>1. CASE Attach(c)
    BY <1>1, <2>1 DEF Attach, TInv, Flags
  <2>2. CASE Release(c)
    BY <1>1, <2>2 DEF Release, TInv, Flags
  <2> QED
    BY <2>1, <2>2
<1> QED
  BY <1>3, <1>4, <1>5

\* Who writes has something to write.
LEMMA FlagsHeld ==
  ASSUME TInv,
         \/ \E w \in Writers : PersistSession(w)
         \/ \E o \in Objs : Output(o) \/ ReaderEnd(o)
  PROVE  Strict(recent', made') /\ Held' /\ Flags'
<1>1. UNCHANGED <<made, sub, recent, restarts, conn>>
  BY DEF PersistSession, Output, ReaderEnd, taskVars, history
<1>2. dirty' \in [Objs -> BOOLEAN] /\ reader' \in [Objs -> {"read", "done"}]
  BY DEF TInv, Flags, PersistSession, Output, ReaderEnd
<1>3. Strict(recent', made')
  BY <1>1 DEF TInv
<1>4. Held' /\ Flags'
  BY <1>1, <1>2 DEF TInv, Held, Flags
<1> QED
  BY <1>3, <1>4

LEMMA RestartHeld ==
  ASSUME TInv, Restart
  PROVE  Strict(recent', made') /\ Held' /\ Flags'
<1>1. PICK n \in Nat : made' = n /\ recent' = {x \in (1..n) \X (1..n) : x[1] < x[2]}
  BY IdsAssumption, FS_Subset, FS_EmptySet, FS_CardinalityType
     DEF Restart, TInv, IInv, Shapes
<1>2. /\ restarts < MaxRestarts /\ restarts' = restarts + 1
      /\ dirty' = [o \in Objs |-> FALSE] /\ sub' = [o \in Objs |-> None]
      /\ reader' = [o \in Objs |-> "done"]
      /\ conn' = [c \in Conns |-> IF conn[c].pc = "idle" THEN NoConn ELSE Gone]
  BY DEF Restart
<1>3. Strict(recent', made')
  BY <1>1, Numbers
<1>4. Held'
  BY <1>2 DEF Held, NoConn, Gone
<1>5. Flags'
  BY <1>2, BoundAssumption DEF TInv, Flags
<1> QED
  BY <1>3, <1>4, <1>5

LEMMA TNextOK == TInv /\ [Next]_vars => TInv'
<1> SUFFICES ASSUME TInv, [Next]_vars PROVE TInv'
  OBVIOUS
<1>0. IInv'
  BY NextOK DEF TInv
<1> SUFFICES Strict(recent', made') /\ Held' /\ Flags'
  BY <1>0 DEF TInv
<1>1. CASE \/ \E t \in Removers : Reap(t) \/ Delete(t)
           \/ \E k \in Kills : Kill(k)
           \/ ReaperRound \/ Prune
           \/ \E o \in Objs : Exit(o)
           \/ PersisterRound \/ PersisterLook
           \/ UNCHANGED vars
  <2>1. UNCHANGED <<made, dirty, sub, recent, reader, restarts, conn>>
    BY <1>1 DEF Reap, Delete, Kill, ReaperRound, Prune, Exit, PersisterRound,
       PersisterLook, objVars, taskVars, history, vars
  <2> QED
    BY <2>1, OthersHeld
<1>2. CASE \/ \E w \in Writers : PersistSession(w)
           \/ \E o \in Objs : Output(o) \/ ReaderEnd(o)
  BY <1>2, FlagsHeld
<1>3. CASE \E c \in Conns : LookUp(c) \/ SpawnFails(c) \/ JoinWinner(c) \/ Insert(c)
  BY <1>3, ConnHeld
<1>4. CASE \E c \in Conns : Spawn(c)
  BY <1>4, SpawnHeld
<1>5. CASE \E c \in Conns : Attach(c) \/ Release(c)
  BY <1>5, AttachHeld
<1>6. CASE Restart
  BY <1>6, RestartHeld
<1> QED
  BY <1>1, <1>2, <1>3, <1>4, <1>5, <1>6 DEF Next

\* The state keeps its types, and .last_active is at all times a strict order
\* of the sessions: the cap and the reaper never have two sessions to choose
\* from of which neither, or each, is the older one.
THEOREM TypesOfRegistry == Spec => []TypeOK
<1>1. Spec => []TInv
  BY TInitOK, TNextOK, PTL DEF Spec
<1>2. TInv => TypeOK
  BY DEF TInv, TypeOK, IInv, Shapes, Flags, Strict, Ordered, Older,
     ConnShape, RemovalShape
<1> QED
  BY <1>1, <1>2, PTL
=============================================================================
