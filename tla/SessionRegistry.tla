---------------------------- MODULE SessionRegistry ----------------------------
(***************************************************************************)
(* The terminal sessions of the host and the rows SQLite keeps of them     *)
(* (src/cli/backend/src/shell.rs, db.rs): sockets that look a session up   *)
(* or spawn it, the cap on the registry, the requests that kill a session, *)
(* the reaper of idle ones, the persister, the PTY reader that flushes the *)
(* output of a shell that is over, and restarts of the process.            *)
(*                                                                         *)
(* SESSIONS is guarded by one lock and SQLite by another, and a session    *)
(* leaves the two in different steps: each action is what one task or      *)
(* thread does under one lock.  A session is an element of Objs; the same  *)
(* id may name several of them over time.  What happens inside a session,  *)
(* its ring, offset, dead flag and subscriber channel, is ShellSession's:  *)
(* here a row either is there or is not.  A statement that SQLite refuses  *)
(* is logged and forgotten (with_db), and whoever issued it goes on.  Time *)
(* is not in the model: any row may be old enough to be pruned.            *)
(***************************************************************************)
EXTENDS Integers, FiniteSets, Functions

CONSTANTS
  Ids,         \* session ids
  Conns,       \* sockets: one element per call of handle_socket
  Kills,       \* DELETE /api/terms/:id requests
  Persister,   \* the task of spawn_persister
  Reaper,      \* the task of spawn_reaper
  None,        \* no session, no id, no subscriber, no row
  MaxSessions, \* MAX_SESSIONS
  MaxObjs,     \* bound: sessions made in one life of the process
  MaxRestarts, \* bound: crashes of the process
  Refusals     \* may SQLite refuse a statement?

Objs == 1..MaxObjs
Removers == Conns \cup Kills \cup {Reaper}      \* tasks that take sessions out
Writers == Conns \cup Objs \cup {Persister}     \* tasks that run persist_session

ASSUME NoneAssumption == None \notin Ids \cup Conns \cup Objs
ASSUME ActorsAssumption ==
  /\ Persister \notin Conns \cup Objs
  /\ Reaper \notin Conns \cup Kills
  /\ Conns \cap Kills = {} /\ Conns \cap Objs = {}
ASSUME IdsAssumption == IsFiniteSet(Ids)    \* valid_session_id: 64 characters
ASSUME BoundAssumption ==
  /\ MaxSessions \in Nat \ {0} /\ MaxObjs \in Nat
  /\ MaxRestarts \in Nat
ASSUME RefusalsAssumption == Refusals \in BOOLEAN

VARIABLES
  sessions, \* SESSIONS: the session listed under each id
  made,     \* number of sessions made in this life of the process
  id,       \* Session.id
  child,    \* Session.child: "none", "live", or "over" (exited or reaped)
  dirty,    \* Session.dirty
  sub,      \* Session.sub
  recent,   \* Session.last_active: <<p, o>> when that of p is the older one
  reader,   \* the PTY reader thread of each session
  conn,     \* each socket: where it stands, the id it asked for, its session
  kill,     \* each kill request: "idle" or "sent"
  rows,     \* the sessions table: the ids that have a row
  wr,       \* the session each writer is about to write
  persist,  \* sessions the persister has still to look at
  rm,       \* each remover: sessions to reap, and the id to delete next
  lapsed,   \* ids that were taken out, refused or pruned since they were
            \* last written with no delete to come (history)
  restarts  \* crashes so far

objVars == <<made, id, child, dirty, sub, recent, reader>>
taskVars == <<conn, kill, wr, persist, rm>>
history == <<lapsed, restarts>>
vars == <<sessions, objVars, taskVars, rows, history>>

Listed == {sessions[i] : i \in Ids} \ {None}
Detached(o) == sub[o] = None

\* Session.last_active orders all the sessions that have been made.
Older(p, o) == <<p, o>> \in recent
Touch(o) ==
  {x \in recent : o \notin {x[1], x[2]}} \cup (((1..made) \ {o}) \X {o})

NoRemoval == [todo |-> {}, deleting |-> None]
NoConn == [pc |-> "idle", id |-> None, o |-> None]
Gone == [NoConn EXCEPT !.pc = "done"]

----------------------------------------------------------------------------
(* persist_session: write the row and clear the flag *)

StartWrite(w, o) == wr' = [wr EXCEPT ![w] = o]

\* A task has taken a session of the id out, and has its row to delete yet.
Doomed(i) ==
  \E t \in Removers : rm[t].deleting = i \/ \E o \in rm[t].todo : id[o] = i

\* Faulty variant: only a row that is there is refreshed.
UpsertUpdates(i) == rows' = rows \cup ({i} \cap rows) /\ UNCHANGED lapsed

\* upsert_with_seq: insert the row of the id, or refresh it.  Refused, the
\* error is printed and forgotten.  (That a refresh is refused shows only in
\* the content of the row, which is not kept here.)
UpsertRow(i) ==
  \/ /\ rows' = rows \cup {i}
     /\ lapsed' = IF Doomed(i) THEN lapsed ELSE lapsed \ {i}
  \/ /\ Refusals /\ i \notin rows
     /\ lapsed' = lapsed \cup {i} /\ UNCHANGED rows

\* The flag is cleared just after the upsert, refused or not.  In between it
\* is what it was before, so a step there comes to the same as one before.
PersistSession(w) ==
  /\ wr[w] # None
  /\ UpsertRow(id[wr[w]])
  /\ dirty' = [dirty EXCEPT ![wr[w]] = FALSE]
  /\ wr' = [wr EXCEPT ![w] = None]
  /\ UNCHANGED <<sessions, made, id, child, sub, recent, reader,
                 conn, kill, persist, rm, restarts>>

----------------------------------------------------------------------------
(* A session that has been taken out: reap the child, delete the history *)

\* reap_child
Reap(t) ==
  /\ rm[t].deleting = None
  /\ t \in Conns => wr[t] = None
  /\ \E o \in rm[t].todo :
       /\ child' = [child EXCEPT ![o] = IF @ = "live" THEN "over" ELSE @]
       /\ rm' = [rm EXCEPT ![t] = [todo |-> @.todo \ {o}, deleting |-> id[o]]]
  /\ UNCHANGED <<sessions, made, id, dirty, sub, recent, reader,
                 conn, kill, wr, persist, rows, history>>

\* db::delete
Delete(t) ==
  /\ rm[t].deleting # None
  /\ \/ rows' = rows \ {rm[t].deleting}
     \/ Refusals /\ rm[t].deleting \in rows /\ UNCHANGED rows
  /\ rm' = [rm EXCEPT ![t].deleting = None]
  /\ UNCHANGED <<sessions, objVars, conn, kill, wr, persist, history>>

\* Faulty variant: what is listed under the id is reaped, were it nothing.
KillUnknown(k) ==
  /\ kill[k] = "idle"
  /\ \E i \in Ids :
       /\ rm' = [rm EXCEPT ![k] =
                   [todo |-> {sessions[i]}, deleting |-> None]]
       /\ sessions' = [sessions EXCEPT ![i] = None]
       /\ lapsed' = lapsed \cup {i}
  /\ kill' = [kill EXCEPT ![k] = "sent"]
  /\ UNCHANGED <<made, id, child, dirty, sub, recent, reader, conn, wr, persist,
                 rows, restarts>>

\* api_kill_term: the session leaves the registry; an id nobody lists only
\* has its row deleted.
Kill(k) ==
  /\ kill[k] = "idle"
  /\ \E i \in Ids :
       /\ rm' = [rm EXCEPT ![k] =
                   IF sessions[i] # None
                     THEN [todo |-> {sessions[i]}, deleting |-> None]
                     ELSE [todo |-> {}, deleting |-> i]]
       /\ sessions' = [sessions EXCEPT ![i] = None]
       /\ lapsed' = lapsed \cup {i}
  /\ kill' = [kill EXCEPT ![k] = "sent"]
  /\ UNCHANGED <<made, id, child, dirty, sub, recent, reader, conn, wr, persist,
                 rows, restarts>>

\* The detached sessions that have been idle for at least as long as `last`.
IdleSince(last) == {o \in Listed : Detached(o) /\ (o = last \/ Older(o, last))}

\* spawn_reaper, once a minute: the detached sessions that have been idle
\* for longer than SESSION_TTL are taken out.
ReaperRound ==
  /\ rm[Reaper] = NoRemoval
  /\ \E old \in {IdleSince(last) : last \in Listed} \ {{}} :
       /\ sessions' = [i \in Ids |-> IF sessions[i] \in old THEN None
                                     ELSE sessions[i]]
       /\ rm' = [rm EXCEPT ![Reaper].todo = old]
       /\ lapsed' = lapsed \cup {id[o] : o \in old}
  /\ UNCHANGED <<made, id, child, dirty, sub, recent, reader, conn, kill, wr,
                 persist, rows, restarts>>

\* db::prune_expired ends every round, one without idle sessions too: the
\* rows nobody has written for PERSIST_TTL_SECS go, those of listed sessions
\* included (an attached terminal that is silent is never dirty).
Prune ==
  /\ rm[Reaper] = NoRemoval
  /\ \E ancient \in SUBSET rows \ {{}} :
       rows' = rows \ ancient /\ lapsed' = lapsed \cup ancient
  /\ UNCHANGED <<sessions, objVars, taskVars, restarts>>

----------------------------------------------------------------------------
(* handle_socket and get_or_create_session *)

\* The fast path: the id is listed.  Otherwise a shell has to be spawned.
LookUp(c) ==
  /\ conn[c].pc = "idle"
  /\ \E i \in Ids :
       conn' = [conn EXCEPT ![c] =
                  [pc |-> IF sessions[i] # None THEN "attach" ELSE "spawn",
                   id |-> i, o |-> sessions[i]]]
  /\ UNCHANGED <<sessions, objVars, kill, wr, persist, rm, rows, history>>

\* spawn_session, outside the lock.
Spawn(c) ==
  /\ conn[c].pc = "spawn" /\ made < MaxObjs
  /\ LET o == made + 1 IN
       /\ made' = o
       /\ id' = [id EXCEPT ![o] = conn[c].id]
       /\ child' = [child EXCEPT ![o] = "live"]
       /\ recent' = recent \cup ((1..made) \X {o})
       /\ reader' = [reader EXCEPT ![o] = "read"]
       /\ conn' = [conn EXCEPT ![c].pc = "insert", ![c].o = o]
  /\ UNCHANGED <<sessions, dirty, sub, kill, wr, persist, rm,
                 rows, history>>

\* The PTY cannot be had: the socket gets a placeholder nobody lists.
SpawnFails(c) ==
  /\ conn[c].pc = "spawn"
  /\ conn' = [conn EXCEPT ![c] = Gone]
  /\ UNCHANGED <<sessions, objVars, kill, wr, persist, rm, rows, history>>

\* Faulty variant: the lock is taken again without a second look.
LostRaceUnseen(c) == conn[c].id = None

\* Another task has made the session meanwhile: reap the child, use theirs.
LostRace(c) == sessions[conn[c].id] # None

JoinWinner(c) ==
  /\ conn[c].pc = "insert" /\ LostRace(c)
  /\ child' = [child EXCEPT ![conn[c].o] = IF @ = "live" THEN "over" ELSE @]
  /\ conn' = [conn EXCEPT ![c].pc = "attach", ![c].o = sessions[conn[c].id]]
  /\ UNCHANGED <<sessions, made, id, dirty, sub, recent, reader,
                 kill, wr, persist, rm, rows, history>>

\* The sessions that have to go when `listed` exceeds MAX_SESSIONS: the
\* detached ones, the least recently active first.
Victims(listed) ==
  {o \in listed :
     /\ Detached(o)
     /\ Cardinality({p \in listed : Detached(p) /\ Older(p, o)})
          < Cardinality(listed) - MaxSessions}

Insert(c) ==
  /\ conn[c].pc = "insert" /\ ~LostRace(c)
  /\ LET o == conn[c].o
         victims == Victims(Listed \cup {o}) IN
       /\ sessions' = [i \in Ids |->
                         LET s == IF i = conn[c].id THEN o ELSE sessions[i]
                         IN IF s \in victims THEN None ELSE s]
       /\ rm' = [rm EXCEPT ![c].todo = victims]
       /\ lapsed' = lapsed \cup {id[v] : v \in victims}
       /\ StartWrite(c, o)
  /\ conn' = [conn EXCEPT ![c].pc = "attach"]
  /\ UNCHANGED <<made, id, child, dirty, sub, recent, reader, kill, persist,
                 rows, restarts>>

\* Its row written and its victims gone, the session is taken over.
Attach(c) ==
  /\ conn[c].pc = "attach" /\ wr[c] = None /\ rm[c] = NoRemoval
  /\ LET o == conn[c].o IN
       /\ sub' = [sub EXCEPT ![o] = c]
       /\ recent' = Touch(o)
       /\ conn' = [conn EXCEPT ![c].pc = "attached"]
  /\ UNCHANGED <<sessions, made, id, child, dirty, reader, kill, wr,
                 persist, rm, rows, history>>

\* release
Release(c) ==
  /\ conn[c].pc = "attached"
  /\ LET o == conn[c].o IN
       /\ sub' = [sub EXCEPT ![o] = IF @ = c THEN None ELSE @]
       /\ recent' = Touch(o)
       /\ dirty' = [dirty EXCEPT ![o] = TRUE]
  /\ conn' = [conn EXCEPT ![c] = Gone]
  /\ UNCHANGED <<sessions, made, id, child, dirty, reader, kill, wr,
                 persist, rm, rows, history>>

----------------------------------------------------------------------------
(* The shell and its threads *)

\* The shell writes: the reader marks the session.
Output(o) ==
  /\ reader[o] = "read" /\ ~dirty[o]
  /\ dirty' = [dirty EXCEPT ![o] = TRUE]
  /\ UNCHANGED <<sessions, made, id, child, sub, recent, reader, taskVars,
                 rows, history>>

Exit(o) ==
  /\ child[o] = "live"
  /\ child' = [child EXCEPT ![o] = "over"]
  /\ UNCHANGED <<sessions, made, id, dirty, sub, recent, reader,
                 taskVars, rows, history>>

\* The read ends with the shell: flush the final output.
ReaderEnd(o) ==
  /\ reader[o] = "read" /\ child[o] = "over"
  /\ reader' = [reader EXCEPT ![o] = "done"]
  /\ StartWrite(o, o)
  /\ UNCHANGED <<sessions, made, id, child, dirty, sub, recent, conn,
                 kill, persist, rm, rows, history>>

----------------------------------------------------------------------------
(* spawn_persister: every few seconds, the sessions listed at that moment *)

PersisterRound ==
  /\ persist = {} /\ wr[Persister] = None /\ Listed # {}
  /\ persist' = Listed
  /\ UNCHANGED <<sessions, objVars, conn, kill, wr, rm, rows, history>>

PersisterLook ==
  /\ wr[Persister] = None
  /\ \E o \in persist :
       /\ persist' = persist \ {o}
       /\ IF dirty[o] THEN StartWrite(Persister, o) ELSE UNCHANGED wr
  /\ UNCHANGED <<sessions, objVars, conn, kill, rm, rows, history>>

----------------------------------------------------------------------------
(* The process dies and is started again *)

\* load_persisted lists a dead session for every row that load_all finds, in
\* any order: none, when the query is refused.  (db::init prunes once more.)
\* The shells went with their terminals.
Restart ==
  /\ restarts < MaxRestarts /\ restarts' = restarts + 1
  /\ rows # {}    \* without rows the process starts as in Init
  /\ \E loaded \in {rows} \cup (IF Refusals THEN {{}} ELSE {}) :
     LET n == Cardinality(loaded) IN
     \E at \in Bijection(1..n, loaded) :
       /\ n <= MaxObjs
       /\ made' = n
       /\ id' = [o \in Objs |-> IF o <= n THEN at[o] ELSE None]
       /\ recent' = {x \in (1..n) \X (1..n) : x[1] < x[2]}
       /\ sessions' = [i \in Ids |-> IF i \in loaded
                        THEN CHOOSE o \in 1..n : at[o] = i ELSE None]
  /\ child' = [o \in Objs |-> "none"]
  /\ dirty' = [o \in Objs |-> FALSE]
  /\ sub' = [o \in Objs |-> None]
  /\ reader' = [o \in Objs |-> "done"]
  /\ conn' = [c \in Conns |-> IF conn[c].pc = "idle" THEN NoConn ELSE Gone]
  /\ wr' = [w \in Writers |-> None]
  /\ rm' = [t \in Removers |-> NoRemoval]
  /\ persist' = {} /\ lapsed' = {}
  /\ UNCHANGED <<kill, rows>>

----------------------------------------------------------------------------
Init ==
  /\ sessions = [i \in Ids |-> None] /\ made = 0
  /\ id = [o \in Objs |-> None]
  /\ child = [o \in Objs |-> "none"]
  /\ dirty = [o \in Objs |-> FALSE]
  /\ sub = [o \in Objs |-> None]
  /\ recent = {} /\ reader = [o \in Objs |-> "done"]
  /\ conn = [c \in Conns |-> NoConn] /\ kill = [k \in Kills |-> "idle"]
  /\ wr = [w \in Writers |-> None] /\ persist = {}
  /\ rm = [t \in Removers |-> NoRemoval]
  /\ rows = {}
  /\ lapsed = {} /\ restarts = 0

Next ==
  \/ \E w \in Writers : PersistSession(w)
  \/ \E t \in Removers : Reap(t) \/ Delete(t)
  \/ \E k \in Kills : Kill(k)
  \/ ReaperRound \/ Prune
  \/ \E c \in Conns :
       \/ LookUp(c) \/ Spawn(c) \/ SpawnFails(c) \/ JoinWinner(c)
       \/ Insert(c) \/ Attach(c) \/ Release(c)
  \/ \E o \in Objs : Output(o) \/ Exit(o) \/ ReaderEnd(o)
  \/ PersisterRound \/ PersisterLook
  \/ Restart

Spec == Init /\ [][Next]_vars

----------------------------------------------------------------------------
(* Properties *)

\* No two sessions are equally old, or each older than the other.
Ordered ==
  \A o, p \in 1..made :
    /\ o # p => (Older(o, p) <=> ~Older(p, o))
    /\ \A q \in 1..made : Older(o, p) /\ Older(p, q) => Older(o, q)

\* The variables have the shape the code gives them; in particular the order
\* that decides who is evicted and reaped is a strict one.
TypeOK ==
  /\ sessions \in [Ids -> Objs \cup {None}]
  /\ made \in 0..MaxObjs
  /\ id \in [Objs -> Ids \cup {None}]
  /\ child \in [Objs -> {"none", "live", "over"}]
  /\ dirty \in [Objs -> BOOLEAN]
  /\ sub \in [Objs -> Conns \cup {None}]
  /\ recent \subseteq {x \in (1..made) \X (1..made) : x[1] # x[2]}
  /\ Ordered
  /\ reader \in [Objs -> {"read", "done"}]
  /\ conn \in [Conns -> [pc : {"idle", "spawn", "insert", "attach", "attached",
                              "done"},
                         id : Ids \cup {None}, o : Objs \cup {None}]]
  /\ kill \in [Kills -> {"idle", "sent"}]
  /\ rows \subseteq Ids
  /\ wr \in [Writers -> Objs \cup {None}]
  /\ persist \subseteq Objs
  /\ rm \in [Removers -> [todo : SUBSET Objs, deleting : Ids \cup {None}]]
  /\ lapsed \subseteq Ids
  /\ restarts \in 0..MaxRestarts

\* No shell is left running behind the registry's back ("Our fresh PTY would
\* orphan", shell.rs 483): a live child belongs to the session listed under
\* its id, to a socket about to list it, or to whoever took the session out
\* and has yet to reap it.  With the map locked twice around a spawn and
\* sessions evicted, killed and reaped meanwhile, a child that escaped would
\* run unreachable for ever.
NoOrphan ==
  \A o \in Objs : child[o] = "live" =>
    \/ sessions[id[o]] = o
    \/ \E c \in Conns : conn[c].pc = "insert" /\ conn[c].o = o
    \/ \E t \in Removers : o \in rm[t].todo

\* A listed session has its row, so that a crash at any moment leaves the
\* terminal in the list: unless its creator is still to write it, or the id
\* was taken out, refused by SQLite or pruned, and since then not written but
\* for the eyes of a delete that comes late.
HistoryKept ==
  \A i \in Ids : sessions[i] # None /\ i \notin lapsed =>
    \/ i \in rows
    \/ \E c \in Conns : wr[c] = sessions[i]

\* Nothing is under way that could still write or delete a row.
Settled ==
  /\ \A w \in Writers : wr[w] = None
  /\ \A t \in Removers : rm[t] = NoRemoval
  /\ \A c \in Conns : conn[c].pc # "insert"
  /\ \A o \in Objs : child[o] = "over" => reader[o] = "done"
  /\ persist = {}

\* A killed session is forgotten: api_kill_term "drops the in-memory session
\* and deletes its SQLite history" (shell.rs 675) and makes "sure no stale DB
\* row lingers either" (shell.rs 727).
Forgotten == Settled => \A i \in Ids : sessions[i] = None => i \notin rows
=============================================================================
