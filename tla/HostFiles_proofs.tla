--------------------------- MODULE HostFiles_proofs ---------------------------
(***************************************************************************)
(* Proofs about HostFiles, for any tabs, names, operations and numbers of  *)
(* calls and texts: a file has one name and a call one number, a save      *)
(* stores the text that was opened under its name, an editor without       *)
(* unsaved changes shows what its tab has stored, and a handler that       *)
(* refuses to overwrite destroys nothing older than its call.              *)
(***************************************************************************)
EXTENDS HostFiles, TLAPS

----------------------------------------------------------------------------
(* Types *)

States == {"sent", "checked", "open", "again", "ok", "fail"}
Maybe(S) == S \cup {None}
Inodes == Nat \X (States \cup Names)

File ==
  [kind : {"file", "dir"}, v : Nat, by : Maybe(Tabs), ino : Inodes, born : Nat]

Editors ==
  [file : Maybe(Names), kind : {"none", "text", "error"}, text : Nat, saved : Nat,
   of : Maybe(Names), loading : BOOLEAN, saving : BOOLEAN, open : Nat]

OpNames == Refusing \cup {"list", "get", "save", "delete", "unzip"}

RawCalls ==
  [id : Nat, tab : Tabs, op : OpNames, path : Maybe(Names), to : Maybe(Names), v : Nat,
   of : Maybe(Names), then : {"load", "bulk", "saved", "create"}, rest : SUBSET Names,
   names : SUBSET Names, open : Nat, ino : Maybe(Inodes), st : States]

\* A call has the names that its operation wants.
Sound(c) ==
  /\ c.op \in Refusing => c.to \in Names
  /\ c.op \in {"get", "save"} \/ c.then = "create" => c.path \in Names
  /\ c.then \in {"saved", "create"} => c.op \in {"list", "save"} /\ c.rest = {}
  /\ c.op = "save" => c.then \in {"saved", "create"}

Calls == {c \in RawCalls : Sound(c)}

FsOK == DOMAIN fs \subseteq Names /\ fs \in [DOMAIN fs -> File]

Shapes ==
  /\ FsOK
  /\ listing \in [Tabs -> SUBSET Names]
  /\ ed \in [Tabs -> Editors]
  /\ calls \subseteq Calls
  /\ issued \in Nat /\ made \in Nat /\ late \subseteq Tabs

----------------------------------------------------------------------------
(* Calls and files have an identity *)

\* The states a call may have left behind when it is in state st.
Before(st) ==
  CASE st = "sent" -> {}
    [] st = "checked" -> {"sent"}
    [] st = "open" -> {"sent", "checked"}
    [] st = "again" -> {"sent", "checked", "open"}
    [] OTHER -> {"sent", "checked", "open", "again"}

Numbered ==
  /\ \A c \in calls : c.id # 0 /\ c.id <= issued
  /\ \A c, d \in calls : c.id = d.id => c = d

\* A file carries the call that made it and the state in which it did: no
\* call is in such a state again.
Distinct ==
  /\ \A m, n \in DOMAIN fs : fs[m].ino = fs[n].ino => m = n
  /\ \A n \in DOMAIN fs : fs[n].ino[1] <= issued
  /\ \A n \in DOMAIN fs, c \in calls : fs[n].ino[1] = c.id => fs[n].ino[2] \in Before(c.st)

----------------------------------------------------------------------------
(* What was there before the call is spared *)

Looked(c) == c.op \in Refusing /\ c.st \in {"checked", "open", "again"}

\* Once a call has looked, its name belongs to nothing older than the call.
Newer ==
  /\ \A c \in calls : Looked(c) /\ IsFile(c.to) => c.id <= fs[c.to].born
  /\ ~clobbered

----------------------------------------------------------------------------
(* The editor *)

Timely(p) == p \notin late /\ ed[p].file # None

\* The open call that the editor waits for.
Awaited(c) == c.op = "get" /\ c.id = ed[c.tab].open

\* A text belongs to the file it was opened from.
Named(p) ==
  /\ Timely(p) /\ Shown(p) => ed[p].of = ed[p].file
  /\ \A c \in calls : c.tab = p =>
       /\ c.op = "save" /\ p \notin late => c.of = c.path
       /\ Timely(p) /\ Awaited(c) => c.path = ed[p].file

Saves(c) == c.op = "save" /\ c.then = "saved"

\* One save at a time, with the load that follows it.
OneSave(p) ==
  /\ \A c \in calls : c.tab = p /\ c.then = "saved" => ed[p].saving
  /\ \A c, d \in calls : c.tab = p /\ c.then = "saved" /\ d.tab = p /\ d.then = "saved" => c = d

\* The file that the editor of p shows, last written by p, holds v, or what
\* two writes at once have left.
Holds(p, v) ==
  LET f == ed[p].file IN f \in DOMAIN fs /\ fs[f].by = p => fs[f].v \in {v, Garbled}

\* The save that is under way, the text that is being read.
Underway(c) ==
  LET p == c.tab IN
  /\ Saves(c) => Shown(p) /\ c.path = ed[p].file
  /\ Saves(c) /\ c.st = "ok" => Holds(p, c.v)
  /\ Saves(c) /\ c.st = "open" /\ ed[p].file \in DOMAIN fs /\ fs[ed[p].file].by = p
       => fs[ed[p].file].ino = c.ino /\ fs[ed[p].file].v = 0
  /\ Awaited(c) => ed[p].loading /\ ~ed[p].saving
  /\ Awaited(c) /\ c.st = "ok" => Holds(p, c.v)

Stored0(p) ==
  Shown(p) /\ (\A c \in calls : Saves(c) /\ c.tab = p => c.st = "sent")
    => Holds(p, ed[p].saved)

Matches(p) == Timely(p) => Stored0(p) /\ \A c \in calls : c.tab = p => Underway(c)

EditedTab(p) == Named(p) /\ OneSave(p) /\ Matches(p)
Edited == \A p \in Tabs : EditedTab(p)

----------------------------------------------------------------------------
(* What the page sends *)

\* d is the next call.
Starting(d) == d \in Calls /\ d.id = issued + 1 /\ d.st = "sent"

\* A call that is none of the editor's.
Plainly(d) == d.op # "get" /\ d.then # "saved" /\ (d.op = "save" => d.of = d.path)

Submitting(p) ==
  \/ Load(p) \/ SubmitRename(p) \/ SubmitTransfer(p) \/ SubmitDuplicate(p)
  \/ SubmitDelete(p) \/ SubmitBulkDelete(p)
  \/ SubmitLocalUpload(p) \/ SubmitUrlUpload(p) \/ SubmitBulkZip(p) \/ SubmitExtract(p)
  \/ SubmitCreate(p)

LEMMA CallIs ==
  ASSUME Shapes, NEW p \in Tabs, NEW op \in OpNames, NEW path \in Maybe(Names),
         NEW c, c = Call(p, op, path)
  PROVE  /\ c \in RawCalls /\ c.id = issued + 1 /\ c.tab = p /\ c.op = op /\ c.path = path
         /\ c.to = None /\ c.of = None /\ c.then = "load" /\ c.rest = {} /\ c.st = "sent"
         /\ c.open = 0 /\ c.v = 0
BY DEF Shapes, Call, RawCalls, States, Maybe

LEMMA OpsAre ==
  /\ Refusing = {"rename", "copy", "upload", "url", "zip", "mkdir"}
  /\ OpNames = {"rename", "copy", "upload", "url", "zip", "mkdir",
                "list", "get", "save", "delete", "unzip"}
BY DEF Refusing, OpNames

\* A call with its arguments.
Asked(p, op, path, to, v, of, then, rest, open) ==
  [id |-> issued + 1, tab |-> p, op |-> op, path |-> path, to |-> to, v |-> v, of |-> of,
   then |-> then, rest |-> rest, names |-> {}, open |-> open, ino |-> None, st |-> "sent"]

LEMMA AskedIs ==
  ASSUME Shapes, NEW p \in Tabs, NEW op \in OpNames, NEW path \in Maybe(Names),
         NEW to \in Maybe(Names), NEW v \in Nat, NEW of \in Maybe(Names),
         NEW then \in {"load", "bulk", "saved", "create"}, NEW rest \in SUBSET Names, NEW open \in Nat,
         op \in Refusing => to \in Names,
         op \in {"get", "save"} \/ then = "create" => path \in Names,
         then \in {"saved", "create"} => op \in {"list", "save"} /\ rest = {},
         op = "save" => then \in {"saved", "create"}
  PROVE  Starting(Asked(p, op, path, to, v, of, then, rest, open))
<1> DEFINE i == issued + 1
           d == [id |-> i, tab |-> p, op |-> op, path |-> path, to |-> to, v |-> v, of |-> of,
                 then |-> then, rest |-> rest, names |-> {}, open |-> open, ino |-> None,
                 st |-> "sent"]
<1>1. i \in Nat
  BY DEF Shapes
<1> HIDE DEF i
<1>2. d \in RawCalls
  BY <1>1 DEF RawCalls, Maybe, States
<1>3. Sound(d)
  BY DEF Sound
<1>4. d \in Calls /\ d.id = i /\ d.st = "sent"
  BY <1>2, <1>3 DEF Calls
<1> QED
  BY <1>4 DEF Starting, Asked, i

\* The forms in which the page writes its calls.
LEMMA AskedPlain ==
  ASSUME NEW p, NEW op, NEW path
  PROVE  Call(p, op, path) = Asked(p, op, path, None, 0, None, "load", {}, 0)
<1>1. ASSUME NEW d, d = Call(p, op, path)
      PROVE  d = Asked(p, op, path, None, 0, None, "load", {}, 0)
  BY <1>1 DEF Call, Asked
<1> QED
  BY <1>1

LEMMA AskedTo ==
  ASSUME NEW p, NEW op, NEW path, NEW to
  PROVE  [Call(p, op, path) EXCEPT !.to = to] = Asked(p, op, path, to, 0, None, "load", {}, 0)
<1>1. ASSUME NEW d, d = [Call(p, op, path) EXCEPT !.to = to]
      PROVE  d = Asked(p, op, path, to, 0, None, "load", {}, 0)
  BY <1>1 DEF Call, Asked
<1> QED
  BY <1>1

LEMMA AskedBulk ==
  ASSUME NEW p, NEW op, NEW path, NEW then, NEW rest
  PROVE  [Call(p, op, path) EXCEPT !.rest = rest, !.then = then]
           = Asked(p, op, path, None, 0, None, then, rest, 0)
<1>1. ASSUME NEW d, d = [Call(p, op, path) EXCEPT !.rest = rest, !.then = then]
      PROVE  d = Asked(p, op, path, None, 0, None, then, rest, 0)
  BY <1>1 DEF Call, Asked
<1> QED
  BY <1>1

LEMMA AskedToFilled ==
  ASSUME NEW p, NEW op, NEW path, NEW to, NEW v
  PROVE  [Call(p, op, path) EXCEPT !.to = to, !.v = v]
           = Asked(p, op, path, to, v, None, "load", {}, 0)
<1>1. ASSUME NEW d, d = [Call(p, op, path) EXCEPT !.to = to, !.v = v]
      PROVE  d = Asked(p, op, path, to, v, None, "load", {}, 0)
  BY <1>1 DEF Call, Asked
<1> QED
  BY <1>1

LEMMA AskedFilled ==
  ASSUME NEW p, NEW op, NEW path, NEW v
  PROVE  [Call(p, op, path) EXCEPT !.v = v] = Asked(p, op, path, None, v, None, "load", {}, 0)
<1>1. ASSUME NEW d, d = [Call(p, op, path) EXCEPT !.v = v]
      PROVE  d = Asked(p, op, path, None, v, None, "load", {}, 0)
  BY <1>1 DEF Call, Asked
<1> QED
  BY <1>1

LEMMA AskedCreated ==
  ASSUME NEW p, NEW op, NEW path, NEW of, NEW then
  PROVE  [Call(p, op, path) EXCEPT !.then = then, !.of = of]
           = Asked(p, op, path, None, 0, of, then, {}, 0)
<1>1. ASSUME NEW d, d = [Call(p, op, path) EXCEPT !.then = then, !.of = of]
      PROVE  d = Asked(p, op, path, None, 0, of, then, {}, 0)
  BY <1>1 DEF Call, Asked
<1> QED
  BY <1>1

LEMMA SubmitIs ==
  ASSUME Shapes, NEW p \in Tabs, Submitting(p)
  PROVE  \E d : /\ Starting(d) /\ Plainly(d)
                /\ calls' = calls \cup {d} /\ issued' = issued + 1
                /\ UNCHANGED <<fs, listing, ed, made, late, clobbered>>
<1> DEFINE Good(d) == Starting(d) /\ Plainly(d)
<1> SUFFICES \E d : Good(d) /\ Submits(p, d)
  BY DEF Submits, Send, Starting
<1>1. /\ None \in Maybe(Names) /\ Names \subseteq Maybe(Names) /\ listing[p] \subseteq Names
      /\ Foreign \in Nat /\ 0 \in Nat /\ {} \in SUBSET Names
  BY FilesBoundAssumption DEF Maybe, Shapes, Foreign
<1>2. ASSUME NEW op \in OpNames, op # "get", op # "save", NEW path \in Maybe(Names),
             NEW to \in Maybe(Names), NEW v \in Nat, NEW then \in {"load", "bulk"},
             NEW rest \in SUBSET Names, op \in Refusing => to \in Names
      PROVE  Good(Asked(p, op, path, to, v, None, then, rest, 0))
  <2>1. Starting(Asked(p, op, path, to, v, None, then, rest, 0))
    BY <1>1, <1>2, AskedIs
  <2>2. Plainly(Asked(p, op, path, to, v, None, then, rest, 0))
    BY <1>2 DEF Plainly, Asked
  <2> QED
    BY <2>1, <2>2
<1> HIDE DEF Good
<1>3. CASE Load(p)
  <2>1. Good(Asked(p, "list", None, None, 0, None, "load", {}, 0))
    BY <1>1, <1>2, OpsAre
  <2> QED
    BY <1>3, <2>1, AskedPlain DEF Load
<1>4. CASE SubmitRename(p) \/ SubmitTransfer(p) \/ SubmitDuplicate(p)
  <2>1. PICK op \in {"rename", "copy"}, f \in listing[p], n \in Names :
          Submits(p, [Call(p, op, f) EXCEPT !.to = n])
    BY <1>4 DEF SubmitRename, SubmitTransfer, SubmitDuplicate
  <2>2. Good(Asked(p, op, f, n, 0, None, "load", {}, 0))
    BY <1>1, <1>2, OpsAre
  <2>3. [Call(p, op, f) EXCEPT !.to = n]
          = Asked(p, op, f, n, 0, None, "load", {}, 0)
    BY AskedTo
  <2> QED
    BY <2>1, <2>2, <2>3
<1>5. CASE SubmitDelete(p)
  <2>1. PICK f \in listing[p] : Submits(p, Call(p, "delete", f))
    BY <1>5 DEF SubmitDelete
  <2>2. Good(Asked(p, "delete", f, None, 0, None, "load", {}, 0))
    BY <1>1, <1>2, OpsAre
  <2>3. Call(p, "delete", f)
          = Asked(p, "delete", f, None, 0, None, "load", {}, 0)
    BY AskedPlain
  <2> QED
    BY <2>1, <2>2, <2>3
<1>6. CASE SubmitBulkDelete(p)
  <2>1. PICK S \in SUBSET listing[p] :
          \E f \in S : Submits(p, [Call(p, "delete", f) EXCEPT !.rest = S \ {f}, !.then = "bulk"])
    BY <1>6 DEF SubmitBulkDelete
  <2>2. PICK f \in S : Submits(p, [Call(p, "delete", f) EXCEPT !.rest = S \ {f}, !.then = "bulk"])
    BY <2>1
  <2> DEFINE R == S \ {f}
  <2>3. R \in SUBSET Names /\ f \in Names
    BY <1>1
  <2>4. Submits(p, [Call(p, "delete", f) EXCEPT !.rest = R, !.then = "bulk"])
    BY <2>2
  <2> HIDE DEF R
  <2>5. Good(Asked(p, "delete", f, None, 0, None, "bulk", R, 0))
    BY <1>1, <1>2, <2>3, OpsAre
  <2>6. [Call(p, "delete", f) EXCEPT !.rest = R, !.then = "bulk"]
          = Asked(p, "delete", f, None, 0, None, "bulk", R, 0)
    BY AskedBulk
  <2> QED
    BY <2>4, <2>5, <2>6
<1>7. CASE SubmitLocalUpload(p)
  <2>1. PICK S \in SUBSET Names :
          \E n \in S : Submits(p, [Call(p, "upload", None) EXCEPT !.to = n, !.rest = S \ {n},
                                                                 !.v = Foreign, !.then = "bulk"])
    BY <1>7 DEF SubmitLocalUpload
  <2>2. PICK n \in S : Submits(p, [Call(p, "upload", None) EXCEPT !.to = n, !.rest = S \ {n},
                                                                 !.v = Foreign, !.then = "bulk"])
    BY <2>1
  <2> DEFINE R == S \ {n}
  <2>3. R \in SUBSET Names /\ n \in Names
    BY <1>1
  <2>4. Submits(p, [Call(p, "upload", None) EXCEPT !.to = n, !.rest = R, !.v = Foreign,
                                                   !.then = "bulk"])
    BY <2>2
  <2> HIDE DEF R
  <2>5. Good(Asked(p, "upload", None, n, Foreign, None, "bulk", R, 0))
    BY <1>1, <1>2, <2>3, OpsAre
  <2>6. [Call(p, "upload", None) EXCEPT !.to = n, !.rest = R, !.v = Foreign, !.then = "bulk"]
          = Asked(p, "upload", None, n, Foreign, None, "bulk", R, 0)
    <3>1. ASSUME NEW d, d = [Call(p, "upload", None) EXCEPT !.to = n, !.rest = R, !.v = Foreign,
                                                            !.then = "bulk"]
          PROVE  d = Asked(p, "upload", None, n, Foreign, None, "bulk", R, 0)
      BY <3>1 DEF Call, Asked
    <3> QED
      BY <3>1
  <2> QED
    BY <2>4, <2>5, <2>6
<1>8. CASE SubmitUrlUpload(p)
  <2>1. PICK n \in Names : Submits(p, [Call(p, "url", None) EXCEPT !.to = n, !.v = Foreign])
    BY <1>8 DEF SubmitUrlUpload
  <2>2. Good(Asked(p, "url", None, n, Foreign, None, "load", {}, 0))
    BY <1>1, <1>2, OpsAre
  <2>3. [Call(p, "url", None) EXCEPT !.to = n, !.v = Foreign]
          = Asked(p, "url", None, n, Foreign, None, "load", {}, 0)
    BY AskedToFilled
  <2> QED
    BY <2>1, <2>2, <2>3
<1>9. CASE SubmitBulkZip(p)
  <2>1. PICK f \in listing[p], n \in Names :
          Submits(p, [Call(p, "zip", f) EXCEPT !.to = n, !.v = Foreign])
    BY <1>9 DEF SubmitBulkZip
  <2>2. Good(Asked(p, "zip", f, n, Foreign, None, "load", {}, 0))
    BY <1>1, <1>2, OpsAre
  <2>3. [Call(p, "zip", f) EXCEPT !.to = n, !.v = Foreign]
          = Asked(p, "zip", f, n, Foreign, None, "load", {}, 0)
    BY AskedToFilled
  <2> QED
    BY <2>1, <2>2, <2>3
<1>10. CASE SubmitExtract(p)
  <2>1. PICK f \in listing[p] : Submits(p, [Call(p, "unzip", f) EXCEPT !.v = Foreign])
    BY <1>10 DEF SubmitExtract
  <2>2. Good(Asked(p, "unzip", f, None, Foreign, None, "load", {}, 0))
    BY <1>1, <1>2, OpsAre
  <2>3. [Call(p, "unzip", f) EXCEPT !.v = Foreign]
          = Asked(p, "unzip", f, None, Foreign, None, "load", {}, 0)
    BY AskedFilled
  <2> QED
    BY <2>1, <2>2, <2>3
<1>11. CASE SubmitCreate(p)
  <2>1. PICK n \in Names :
          \/ Submits(p, [Call(p, "mkdir", None) EXCEPT !.to = n])
          \/ Submits(p, [Call(p, "save", n) EXCEPT !.then = "create", !.of = n])
    BY <1>11 DEF SubmitCreate
  <2>2. Good(Asked(p, "mkdir", None, n, 0, None, "load", {}, 0))
    BY <1>1, <1>2, OpsAre
  <2>3. Good(Asked(p, "save", n, None, 0, n, "create", {}, 0))
    <3>1. Starting(Asked(p, "save", n, None, 0, n, "create", {}, 0))
      BY <1>1, AskedIs, OpsAre
    <3> QED
      BY <3>1 DEF Good, Plainly, Asked
  <2>4. [Call(p, "mkdir", None) EXCEPT !.to = n]
          = Asked(p, "mkdir", None, n, 0, None, "load", {}, 0)
    BY AskedTo
  <2>5. [Call(p, "save", n) EXCEPT !.then = "create", !.of = n]
          = Asked(p, "save", n, None, 0, n, "create", {}, 0)
    BY AskedCreated
  <2> QED
    BY <2>1, <2>2, <2>3, <2>4, <2>5
<1> QED
  BY <1>3, <1>4, <1>5, <1>6, <1>7, <1>8, <1>9, <1>10, <1>11 DEF Submitting

LEMMA CallsAre ==
  ASSUME Shapes, NEW c \in calls
  PROVE  /\ c \in RawCalls /\ Sound(c) /\ c.tab \in Tabs /\ c.id \in Nat /\ c.op \in OpNames
         /\ c.path \in Maybe(Names) /\ c.of \in Maybe(Names) /\ c.v \in Nat /\ c.names \subseteq Names
         /\ c.rest \subseteq Names /\ c.st \in States /\ c.open \in Nat
         /\ c.then \in {"load", "bulk", "saved", "create"}
BY DEF Shapes, Calls, RawCalls

LEMMA RelistIs ==
  ASSUME Shapes, NEW c \in calls, NEW then \in {"load", "saved", "create"},
         then = "create" => c.path \in Names
  PROVE  /\ Starting(Relist(c, then)) /\ Relist(c, then).op = "list"
         /\ Relist(c, then).tab = c.tab /\ Relist(c, then).then = then
<1> DEFINE d == Asked(c.tab, "list", c.path, None, 0, None, then, {}, 0)
<1>1. Relist(c, then) = d
  <2>1. ASSUME NEW e, e = [Call(c.tab, "list", c.path) EXCEPT !.then = then]
        PROVE  e = d
    BY <2>1 DEF Call, Asked
  <2> QED
    BY <2>1 DEF Relist
<1>2. Starting(d)
  <2>1. /\ c.tab \in Tabs /\ c.path \in Maybe(Names) /\ None \in Maybe(Names) /\ 0 \in Nat
        /\ {} \in SUBSET Names
    BY CallsAre DEF Maybe
  <2> QED
    BY <2>1, AskedIs, OpsAre
<1>3. d.op = "list" /\ d.tab = c.tab /\ d.then = then
  BY DEF Asked
<1> QED
  BY <1>1, <1>2, <1>3

LEMMA NextOfIs ==
  ASSUME Shapes, NEW c \in calls, NextOf(c), c.op # "get", c.op # "save"
  PROVE  \E d : /\ Starting(d) /\ Plainly(d)
                /\ calls' = (calls \ {c}) \cup {d} /\ issued' = issued + 1
<1>1. PICK n \in c.rest :
        FollowUp(c, [c EXCEPT !.id = issued + 1, !.st = "sent", !.rest = c.rest \ {n}, !.ino = None,
                              !.path = IF c.op = "delete" THEN n ELSE c.path,
                              !.to = IF c.op = "upload" THEN n ELSE c.to])
  BY CallsAre DEF NextOf
<1> DEFINE i == issued + 1
           R == c.rest \ {n}
           path == IF c.op = "delete" THEN n ELSE c.path
           to == IF c.op = "upload" THEN n ELSE c.to
           d == [c EXCEPT !.id = i, !.st = "sent", !.rest = R, !.ino = None, !.path = path, !.to = to]
<1>2. /\ c \in RawCalls /\ Sound(c) /\ i \in Nat /\ R \in SUBSET Names /\ n \in Names
      /\ path \in Maybe(Names) /\ to \in Maybe(Names) /\ None \in Maybe(Inodes)
      /\ (c.op \in Refusing => to \in Names) /\ "sent" \in States
  <2>1. c \in RawCalls /\ Sound(c) /\ c.rest \subseteq Names /\ issued \in Nat /\ c.path \in Maybe(Names)
    BY CallsAre DEF Shapes
  <2>2. c.to \in Maybe(Names)
    BY <2>1 DEF RawCalls
  <2> QED
    BY <2>1, <2>2 DEF Maybe, Sound, States
<1>3. c.rest # {}
  BY <1>1
<1>4. FollowUp(c, d)
  BY <1>1
<1> HIDE DEF i, R, path, to
<1>5. /\ d \in RawCalls /\ d.id = i /\ d.st = "sent" /\ d.op = c.op /\ d.to = to /\ d.path = path
      /\ d.then = c.then /\ d.rest = R
  BY <1>2 DEF RawCalls
<1>6. c.then # "saved" /\ c.then # "create"
  BY <1>2, <1>3 DEF Sound
<1>7. Sound(d)
  BY <1>2, <1>5, <1>6 DEF Sound
<1> HIDE DEF d
<1>8. Starting(d) /\ Plainly(d)
  BY <1>5, <1>6, <1>7 DEF Starting, Plainly, Calls, i
<1> QED
  BY <1>4, <1>5, <1>8 DEF FollowUp, i

LEMMA OpenEditorIs ==
  ASSUME Shapes, NEW p \in Tabs, OpenEditor(p)
  PROVE  \E f \in Names, d \in Calls :
           /\ Starting(d) /\ d.op = "get" /\ d.path = f /\ d.tab = p /\ d.then = "load"
           /\ calls' = calls \cup {d} /\ issued' = issued + 1
           /\ ed' = [ed EXCEPT ![p] = Opened(p, f, issued + 1)]
           /\ late' = IF ed[p].saving THEN late \cup {p} ELSE late
           /\ UNCHANGED <<fs, listing, made, clobbered>>
<1>1. ed[p].file # None => ed[p].file \in Names
  BY DEF Shapes, Editors, Maybe
<1>2. PICK f \in Names : /\ Send(Call(p, "get", f))
                         /\ ed' = [ed EXCEPT ![p] = Opened(p, f, issued')]
  BY <1>1 DEF OpenEditor, Shapes
<1> DEFINE d == Call(p, "get", f)
<1>3. f \in Maybe(Names) /\ None \in Maybe(Names) /\ 0 \in Nat /\ {} \in SUBSET Names
  BY DEF Maybe
<1>4. /\ d \in RawCalls /\ d.id = issued + 1 /\ d.tab = p /\ d.op = "get" /\ d.path = f
      /\ d.then = "load" /\ d.st = "sent"
  BY <1>3, CallIs, OpsAre
<1> HIDE DEF d
<1>5. Starting(d) /\ d \in Calls
  BY <1>4, OpsAre DEF Starting, Calls, Sound
<1>6. calls' = calls \cup {d} /\ issued' = issued + 1
  BY <1>2, <1>4 DEF Send, d
<1> QED
  BY <1>2, <1>4, <1>5, <1>6 DEF OpenEditor

LEMMA SaveEditorIs ==
  ASSUME Shapes, NEW p \in Tabs, SaveEditor(p)
  PROVE  \E d :
           /\ Starting(d) /\ d.op = "save" /\ d.path = ed[p].file /\ d.of = ed[p].of
           /\ d.tab = p /\ d.then = "saved" /\ d.open = ed[p].open /\ d.v = ed[p].text
           /\ calls' = calls \cup {d} /\ issued' = issued + 1
           /\ ed' = [ed EXCEPT ![p].saving = TRUE]
           /\ UNCHANGED <<fs, listing, made, late, clobbered>>
<1>1. /\ ed[p] \in Editors /\ ed[p].file # None
      /\ Send([Call(p, "save", ed[p].file) EXCEPT !.v = ed[p].text, !.of = ed[p].of,
                                                  !.then = "saved", !.open = ed[p].open])
      /\ ed' = [ed EXCEPT ![p].saving = TRUE]
      /\ UNCHANGED <<fs, listing, made, late, clobbered>>
  BY DEF SaveEditor, Shown, Shapes
<1> DEFINE d == [Call(p, "save", ed[p].file) EXCEPT !.v = ed[p].text, !.of = ed[p].of,
                                                    !.then = "saved", !.open = ed[p].open]
           e == Asked(p, "save", ed[p].file, None, ed[p].text, ed[p].of, "saved", {}, ed[p].open)
<1>2. d = e
  <2>1. ASSUME NEW x, x = d PROVE x = e
    BY <2>1 DEF Call, Asked
  <2> QED
    BY <2>1
<1>3. /\ ed[p].file \in Names /\ ed[p].text \in Nat /\ ed[p].of \in Maybe(Names)
      /\ ed[p].open \in Nat /\ ed[p].file \in Maybe(Names) /\ None \in Maybe(Names)
      /\ {} \in SUBSET Names
  BY <1>1 DEF Editors, Maybe
<1>4. Starting(e)
  BY <1>3, AskedIs, OpsAre
<1>5. /\ e.op = "save" /\ e.path = ed[p].file /\ e.of = ed[p].of /\ e.tab = p
      /\ e.then = "saved" /\ e.open = ed[p].open /\ e.v = ed[p].text
  BY DEF Asked
<1> HIDE DEF d, e
<1>6. calls' = calls \cup {e} /\ issued' = issued + 1
  BY <1>1, <1>2, <1>4 DEF Send, Starting, d
<1> QED
  BY <1>1, <1>4, <1>5, <1>6

LEMMA OpenAnsweredIs ==
  ASSUME Shapes, NEW c \in calls, OpenAnswered(c)
  PROVE  /\ c.op = "get" /\ calls' = calls \ {c} /\ issued' = issued
         /\ \/ /\ c.st = "ok"
               /\ ed' = [ed EXCEPT ![c.tab] = [ed[c.tab] EXCEPT !.loading = FALSE, !.kind = "text",
                                                 !.text = c.v, !.saved = c.v, !.of = c.path]]
            \/ /\ c.st # "ok"
               /\ ed' = [ed EXCEPT ![c.tab] = [ed[c.tab] EXCEPT !.loading = FALSE, !.kind = "error"]]
         /\ late' = IF ed[c.tab].file # None /\ ed[c.tab].open # c.id THEN late \cup {c.tab} ELSE late
         /\ UNCHANGED <<fs, listing, made, clobbered>>
<1>1. ed[c.tab] \in Editors
  BY CallsAre DEF Shapes
<1>2. /\ [ed[c.tab] EXCEPT !.loading = FALSE].file = ed[c.tab].file
      /\ [ed[c.tab] EXCEPT !.loading = FALSE].open = ed[c.tab].open
  BY <1>1 DEF Editors
<1> QED
  BY <1>2 DEF OpenAnswered, Forget

LEMMA SaveAnsweredIs ==
  ASSUME Shapes, NEW c \in calls, SaveAnswered(c)
  PROVE  /\ c.op = "save" /\ c.then = "saved"
         /\ \/ /\ c.st = "ok"
               /\ ed' = [ed EXCEPT ![c.tab].saved = c.v]
               /\ \E d : /\ Starting(d) /\ d.op = "list" /\ d.tab = c.tab /\ d.then = "saved"
                         /\ calls' = (calls \ {c}) \cup {d} /\ issued' = issued + 1
            \/ /\ c.st # "ok"
               /\ ed' = [ed EXCEPT ![c.tab].kind = "error", ![c.tab].saving = FALSE]
               /\ calls' = calls \ {c} /\ issued' = issued
         /\ late' = IF ed[c.tab].file # None /\ ed[c.tab].open # c.open THEN late \cup {c.tab} ELSE late
         /\ UNCHANGED <<fs, listing, made, clobbered>>
<1> DEFINE d == Relist(c, "saved")
<1>1. Starting(d) /\ d.op = "list" /\ d.tab = c.tab /\ d.then = "saved"
  BY RelistIs
<1> HIDE DEF d
<1> QED
  BY <1>1 DEF SaveAnswered, FollowUp, Forget, Starting, d

LEMMA AnsweredIs ==
  ASSUME Shapes, NEW c \in calls, Answered(c)
  PROVE  /\ c.op # "get" /\ c.then # "saved"
         /\ \/ calls' = calls \ {c} /\ issued' = issued
            \/ \E d : /\ Starting(d) /\ Plainly(d)
                      /\ calls' = (calls \ {c}) \cup {d} /\ issued' = issued + 1
         /\ UNCHANGED <<fs, listing, ed, made, late, clobbered>>
<1>1. c.op # "get" /\ c.then # "saved" /\ UNCHANGED <<fs, listing, ed, made, late, clobbered>>
  <2>1. c.op \in Refusing \cup {"delete", "unzip"} \/ (c.op = "save" /\ c.then = "create")
    BY DEF Answered
  <2> QED
    BY <2>1, CallsAre, OpsAre DEF Answered, Sound
<1>2. CASE NextOf(c)
  <2>1. c.op # "save"
    BY <1>2, CallsAre DEF NextOf, Sound
  <2> QED
    BY <1>1, <1>2, <2>1, NextOfIs
<1>3. ASSUME NEW then \in {"load", "create"}, then = "create" => c.then = "create",
             FollowUp(c, Relist(c, then))
      PROVE  \E d : /\ Starting(d) /\ Plainly(d)
                    /\ calls' = (calls \ {c}) \cup {d} /\ issued' = issued + 1
  <2> DEFINE d == Relist(c, then)
  <2>1. Starting(d) /\ d.op = "list" /\ d.then = then
    BY <1>3, RelistIs, CallsAre DEF Sound
  <2> HIDE DEF d
  <2>2. Plainly(d)
    BY <2>1 DEF Plainly
  <2> QED
    BY <1>3, <2>1, <2>2 DEF FollowUp, Starting, d
<1>4. CASE FollowUp(c, Relist(c, IF c.then = "create" THEN "create" ELSE "load"))
  BY <1>1, <1>3, <1>4
<1>5. CASE Forget(c)
  BY <1>1, <1>5 DEF Forget
<1> QED
  BY <1>2, <1>4, <1>5 DEF Answered

LEMMA ListedIs ==
  ASSUME Shapes, NEW c \in calls, Listed(c)
  PROVE  /\ c.op = "list" /\ listing' = [listing EXCEPT ![c.tab] = c.names]
         /\ UNCHANGED <<fs, made, clobbered>>
         /\ \/ /\ c.then = "create"
               /\ \E d : /\ Starting(d) /\ d.op = "get" /\ d.path = c.path /\ d.tab = c.tab
                         /\ d.then = "load"
                         /\ calls' = (calls \ {c}) \cup {d} /\ issued' = issued + 1
               /\ ed' = [ed EXCEPT ![c.tab] = Opened(c.tab, c.path, issued + 1)]
               /\ late' = IF ed[c.tab].saving THEN late \cup {c.tab} ELSE late
            \/ /\ c.then # "create" /\ calls' = calls \ {c} /\ issued' = issued /\ late' = late
               /\ ed' = IF c.then = "saved" THEN [ed EXCEPT ![c.tab].saving = FALSE] ELSE ed
<1>1. CASE c.then = "create"
  <2> DEFINE d == Call(c.tab, "get", c.path)
  <2>1. c.path \in Names /\ c.path \in Maybe(Names) /\ c.tab \in Tabs
    BY <1>1, CallsAre DEF Sound
  <2>2. /\ d \in RawCalls /\ d.id = issued + 1 /\ d.tab = c.tab /\ d.op = "get" /\ d.path = c.path
        /\ d.then = "load" /\ d.st = "sent"
    BY <2>1, CallIs, OpsAre
  <2> HIDE DEF d
  <2>3. Starting(d)
    BY <2>1, <2>2, OpsAre DEF Starting, Calls, Sound
  <2>4. calls' = (calls \ {c}) \cup {d} /\ issued' = issued + 1
    BY <1>1, <2>2 DEF Listed, FollowUp, d
  <2> QED
    BY <1>1, <2>2, <2>3, <2>4 DEF Listed
<1>2. CASE c.then # "create"
  BY <1>2 DEF Listed, Forget
<1> QED
  BY <1>1, <1>2

\* The page leaves the folder alone; one call may start, one may end.
PageStep ==
  /\ fs' = fs /\ clobbered' = clobbered
  /\ \/ calls' \subseteq calls /\ issued' = issued
     \/ \E d : Starting(d) /\ issued' = issued + 1 /\ calls' \subseteq calls \cup {d}

LEMMA EditorsAre ==
  ASSUME Shapes, NEW p \in Tabs
  PROVE  /\ ed[p] \in Editors /\ ed[p].saving \in BOOLEAN /\ ed[p].loading \in BOOLEAN
         /\ ed[p].text \in Nat /\ ed[p].saved \in Nat /\ ed[p].open \in Nat
         /\ ed[p].file \in Maybe(Names) /\ ed[p].of \in Maybe(Names)
BY DEF Shapes, Editors

LEMMA OpenedIs ==
  ASSUME Shapes, NEW p \in Tabs, NEW f \in Maybe(Names), NEW id \in Nat
  PROVE  /\ Opened(p, f, id) \in Editors /\ Opened(p, f, id).file = f
         /\ Opened(p, f, id).loading /\ Opened(p, f, id).saving = ed[p].saving
         /\ Opened(p, f, id).open = id /\ Opened(p, f, id).kind = "none"
<1>1. None \in Maybe(Names) /\ ed[p].saving \in BOOLEAN
  BY EditorsAre DEF Maybe
<1> QED
  BY <1>1 DEF Opened, NoEditor, Editors

LEMMA UserShapes ==
  ASSUME Shapes, NEW p \in Tabs, User(p)
  PROVE  Shapes' /\ PageStep
<1>1. CASE Submitting(p)
  BY <1>1, SubmitIs DEF PageStep, Shapes, Starting, FsOK
<1>2. CASE OpenEditor(p)
  <2>1. PICK f \in Names, d \in Calls :
           /\ Starting(d)
           /\ calls' = calls \cup {d} /\ issued' = issued + 1
           /\ ed' = [ed EXCEPT ![p] = Opened(p, f, issued + 1)]
           /\ late' = IF ed[p].saving THEN late \cup {p} ELSE late
           /\ UNCHANGED <<fs, listing, made, clobbered>>
    BY <1>2, OpenEditorIs
  <2> DEFINE e == Opened(p, f, issued + 1)
  <2>2. e \in Editors
    <3>1. issued + 1 \in Nat /\ f \in Maybe(Names)
      BY DEF Shapes, Maybe
    <3> QED
      BY <3>1, OpenedIs
  <2>3. ed' = [ed EXCEPT ![p] = e]
    BY <2>1
  <2> HIDE DEF e
  <2>4. ed' \in [Tabs -> Editors] /\ late' \subseteq Tabs
    BY <2>1, <2>2, <2>3 DEF Shapes
  <2> QED
    BY <2>1, <2>4 DEF PageStep, Shapes, FsOK
<1>3. CASE CloseEditor(p)
  <2> DEFINE e == [NoEditor EXCEPT !.loading = ed[p].loading, !.saving = ed[p].saving]
  <2>1. e \in Editors
    <3>1. None \in Maybe(Names) /\ ed[p].saving \in BOOLEAN /\ ed[p].loading \in BOOLEAN
      BY EditorsAre DEF Maybe
    <3> QED
      BY <3>1 DEF NoEditor, Editors
  <2>2. ed' = [ed EXCEPT ![p] = e] /\ UNCHANGED <<fs, listing, calls, issued, made, late, clobbered>>
    BY <1>3 DEF CloseEditor
  <2> HIDE DEF e
  <2> QED
    BY <2>1, <2>2 DEF PageStep, Shapes, FsOK
<1>4. CASE Type(p)
  <2>1. PICK t \in {0, made'} : ed' = [ed EXCEPT ![p].text = t]
    BY <1>4 DEF Type
  <2> DEFINE e == [ed[p] EXCEPT !.text = t]
  <2>2. made' \in Nat /\ t \in Nat
    BY <1>4 DEF Type, Shapes
  <2>4. e \in Editors
    BY <2>2, EditorsAre DEF Editors
  <2>3. ed' = [ed EXCEPT ![p] = e] /\ UNCHANGED <<fs, listing, calls, issued, late, clobbered>>
    BY <1>4, <2>1 DEF Type
  <2> HIDE DEF e
  <2> QED
    BY <2>2, <2>3, <2>4 DEF PageStep, Shapes, FsOK
<1>5. CASE SaveEditor(p)
  <2>1. PICK d : /\ Starting(d)
                 /\ calls' = calls \cup {d} /\ issued' = issued + 1
                 /\ ed' = [ed EXCEPT ![p].saving = TRUE]
                 /\ UNCHANGED <<fs, listing, made, late, clobbered>>
    BY <1>5, SaveEditorIs
  <2> DEFINE e == [ed[p] EXCEPT !.saving = TRUE]
  <2>2. e \in Editors /\ ed' = [ed EXCEPT ![p] = e]
    BY <2>1, EditorsAre DEF Editors
  <2> HIDE DEF e
  <2>3. ed' \in [Tabs -> Editors]
    BY <2>2 DEF Shapes
  <2> QED
    BY <2>1, <2>3 DEF PageStep, Shapes, Starting, FsOK
<1> QED
  BY <1>1, <1>2, <1>3, <1>4, <1>5 DEF User, Submitting

LEMMA AnswerShapes ==
  ASSUME Shapes, NEW c \in calls, Answer(c)
  PROVE  Shapes' /\ PageStep
<1> DEFINE p == c.tab
<1>1. /\ p \in Tabs /\ ed[p] \in Editors /\ c.v \in Nat /\ c.path \in Maybe(Names)
      /\ c.names \subseteq Names /\ (c.then = "create" => c.path \in Names)
  BY CallsAre, EditorsAre DEF Sound
<1>2. ed \in [Tabs -> Editors] /\ late \subseteq Tabs /\ calls \subseteq Calls
      /\ issued \in Nat /\ made \in Nat /\ listing \in [Tabs -> SUBSET Names] /\ FsOK
  BY DEF Shapes
<1> HIDE DEF p
<1>3. CASE OpenAnswered(c)
  <2> DEFINE e1 == [ed[p] EXCEPT !.loading = FALSE, !.kind = "text", !.text = c.v, !.saved = c.v,
                                 !.of = c.path]
             e2 == [ed[p] EXCEPT !.loading = FALSE, !.kind = "error"]
  <2>1. e1 \in Editors
    BY <1>1 DEF Editors
  <2>2. e2 \in Editors
    BY <1>1 DEF Editors
  <2>3. /\ ed' = [ed EXCEPT ![p] = e1] \/ ed' = [ed EXCEPT ![p] = e2]
        /\ calls' = calls \ {c} /\ issued' = issued
        /\ late' = late \/ late' = late \cup {p}
        /\ UNCHANGED <<fs, listing, made, clobbered>>
    BY <1>3, OpenAnsweredIs DEF p
  <2> HIDE DEF e1, e2
  <2>4. ed' \in [Tabs -> Editors] /\ late' \subseteq Tabs
    BY <1>1, <1>2, <2>1, <2>2, <2>3
  <2> QED
    BY <1>2, <2>3, <2>4 DEF PageStep, Shapes, FsOK
<1>4. CASE SaveAnswered(c)
  <2> DEFINE e1 == [ed[p] EXCEPT !.saved = c.v]
             e2 == [ed[p] EXCEPT !.kind = "error", !.saving = FALSE]
  <2>1. e1 \in Editors
    BY <1>1 DEF Editors
  <2>2. e2 \in Editors
    BY <1>1 DEF Editors
  <2>3. /\ ed' = [ed EXCEPT ![p] = e1] \/ ed' = [ed EXCEPT ![p] = e2]
        /\ late' = late \/ late' = late \cup {p}
        /\ UNCHANGED <<fs, listing, made, clobbered>>
        /\ \/ calls' = calls \ {c} /\ issued' = issued
           \/ \E d : Starting(d) /\ calls' = (calls \ {c}) \cup {d} /\ issued' = issued + 1
    <3>1. ed' = [ed EXCEPT ![p].saved = c.v] \/ ed' = [ed EXCEPT ![p].kind = "error", ![p].saving = FALSE]
      BY <1>4, SaveAnsweredIs DEF p
    <3>2. ed' = [ed EXCEPT ![p] = e1] \/ ed' = [ed EXCEPT ![p] = e2]
      BY <1>1, <1>2, <3>1 DEF Editors
    <3> QED
      BY <1>4, <3>2, SaveAnsweredIs DEF p
  <2> HIDE DEF e1, e2
  <2>4. ed' \in [Tabs -> Editors] /\ late' \subseteq Tabs
    BY <1>1, <1>2, <2>1, <2>2, <2>3
  <2> QED
    BY <1>2, <2>3, <2>4 DEF PageStep, Shapes, FsOK, Starting
<1>5. CASE Answered(c)
  BY <1>2, <1>5, AnsweredIs DEF PageStep, Shapes, FsOK, Starting
<1>6. CASE Listed(c)
  <2>1. /\ listing' = [listing EXCEPT ![p] = c.names] /\ UNCHANGED <<fs, made, clobbered>>
        /\ late' = late \/ late' = late \cup {p}
        /\ \/ calls' = calls \ {c} /\ issued' = issued
           \/ \E d : Starting(d) /\ calls' = (calls \ {c}) \cup {d} /\ issued' = issued + 1
    BY <1>6, ListedIs DEF p
  <2> DEFINE e1 == Opened(p, c.path, issued + 1)
             e2 == [ed[p] EXCEPT !.saving = FALSE]
  <2>2. e1 \in Editors
    <3>1. issued + 1 \in Nat
      BY <1>2
    <3> QED
      BY <1>1, <3>1, OpenedIs
  <2>3. e2 \in Editors
    BY <1>1 DEF Editors
  <2>4. ed' = ed \/ ed' = [ed EXCEPT ![p] = e1] \/ ed' = [ed EXCEPT ![p] = e2]
    BY <1>6, ListedIs DEF p
  <2> HIDE DEF e1, e2
  <2>5. ed' \in [Tabs -> Editors] /\ late' \subseteq Tabs /\ listing' \in [Tabs -> SUBSET Names]
    BY <1>1, <1>2, <2>1, <2>2, <2>3, <2>4
  <2> QED
    BY <1>2, <2>1, <2>5 DEF PageStep, Shapes, FsOK, Starting
<1> QED
  BY <1>3, <1>4, <1>5, <1>6 DEF Answer

----------------------------------------------------------------------------
(* What the host does *)

\* The call goes on as d.
Moved(c, d) ==
  /\ d \in Calls /\ d.id = c.id /\ d.tab = c.tab /\ d.op = c.op /\ d.path = c.path /\ d.to = c.to
  /\ d.of = c.of /\ d.then = c.then /\ d.open = c.open /\ c.st \in Before(d.st)
  /\ calls' = (calls \ {c}) \cup {d} /\ issued' = issued

Same(n) == n \in DOMAIN fs /\ fs'[n] = fs[n]

Kept(n, by) ==
  /\ n \in DOMAIN fs /\ fs'[n].ino = fs[n].ino /\ fs'[n].born = fs[n].born /\ fs'[n].kind = fs[n].kind
  /\ fs'[n] = fs[n] \/ fs'[n].by = by

\* What a call of by can make of the folder: files stay or go, or one is new,
\* or one has another name.
Folder(c, by) ==
  /\ FsOK'
  /\ \/ \A n \in DOMAIN fs' : Kept(n, by)
     \/ \E x \in DOMAIN fs' :
          /\ fs'[x].born = issued /\ fs'[x].by = by
          /\ \/ fs'[x].ino = <<c.id, c.st>>
             \/ \E y \in DOMAIN fs \ DOMAIN fs' : fs'[x].ino = fs[y].ino
          /\ \A n \in DOMAIN fs' \ {x} : Same(n)

\* A save empties its file, fills it, or fails.
Written(c, d) ==
  /\ d.v = c.v
  /\ \/ /\ d.st = "open" /\ c.path \in DOMAIN fs'
        /\ fs'[c.path].ino = d.ino /\ fs'[c.path].v = 0
     \/ /\ d.st = "ok" /\ c.st = "open"
        /\ \A n \in DOMAIN fs' :
             /\ n \in DOMAIN fs
             /\ \/ fs[n].ino = c.ino /\ fs'[n].v \in {c.v, Garbled}
                \/ fs'[n] = fs[n] /\ (fs[n].ino = c.ino => c.v = 0)
     \/ d.st = "fail"

HostStep(c, d) ==
  /\ Moved(c, d) /\ Folder(c, Editor(c))
  /\ clobbered' = clobbered \/ (Looked(c) /\ Destroys(c, c.to))
  /\ Looked(d) /\ ~Looked(c) => fs' = fs /\ c.to \notin DOMAIN fs
  /\ c.op = "save" => Written(c, d)
  /\ c.op \in {"get", "list"} => fs' = fs
  /\ c.op = "get" /\ d.st = "ok" => c.path \in DOMAIN fs /\ d.v = fs[c.path].v

LEMMA EditorIs ==
  ASSUME Shapes, NEW c \in calls
  PROVE  /\ Editor(c) \in Maybe(Tabs)
         /\ c.op \notin {"save", "list"} => Editor(c) = None
         /\ None \in Maybe(Tabs)
BY CallsAre DEF Editor, Maybe, Sound

\* c in another state, with another content and file.
Turned(c, st, v, ino) == [c EXCEPT !.st = st, !.v = v, !.ino = ino]

LEMMA MovedTo ==
  ASSUME Shapes, NEW c \in calls, NEW st \in States, c.st \in Before(st), NEW v \in Nat,
         NEW ino \in Maybe(Inodes), Replace(c, Turned(c, st, v, ino))
  PROVE  /\ Moved(c, Turned(c, st, v, ino)) /\ Turned(c, st, v, ino).st = st
         /\ Turned(c, st, v, ino).v = v /\ Turned(c, st, v, ino).ino = ino
<1> DEFINE d == Turned(c, st, v, ino)
<1>1. c \in RawCalls /\ Sound(c)
  BY CallsAre
<1>2. /\ d \in RawCalls /\ d.id = c.id /\ d.tab = c.tab /\ d.op = c.op /\ d.path = c.path
      /\ d.to = c.to /\ d.of = c.of /\ d.then = c.then /\ d.open = c.open /\ d.rest = c.rest
      /\ d.st = st /\ d.v = v /\ d.ino = ino
  BY <1>1 DEF RawCalls, Turned
<1> HIDE DEF d
<1>3. Sound(d)
  BY <1>1, <1>2 DEF Sound
<1>4. Moved(c, d)
  BY <1>2, <1>3 DEF Moved, Replace, Calls, d
<1> QED
  BY <1>2, <1>4 DEF d

LEMMA ReplyIs ==
  ASSUME Shapes, NEW c \in calls, NEW st \in States, c.st \in Before(st), Reply(c, st)
  PROVE  \E d : Moved(c, d) /\ d.st = st /\ d.v = c.v /\ d.ino = c.ino
<1> DEFINE d == [c EXCEPT !.st = st]
<1>1. c \in RawCalls /\ c.v \in Nat /\ c.ino \in Maybe(Inodes)
  BY CallsAre DEF RawCalls
<1>2. d = Turned(c, st, c.v, c.ino)
  BY <1>1 DEF RawCalls, Turned
<1>3. Replace(c, d)
  BY DEF Reply
<1> HIDE DEF d
<1> QED
  BY <1>1, <1>2, <1>3, MovedTo

LEMMA StaysIs ==
  ASSUME Shapes, NEW c \in calls, fs' = fs, NEW by
  PROVE  Folder(c, by)
BY DEF Shapes, Folder, Kept, FsOK

LEMMA EntryIs ==
  ASSUME Shapes, NEW c \in calls, NEW kind \in {"file", "dir"}, NEW v \in Nat, NEW by \in Maybe(Tabs),
         NEW e, e = Entry(c, kind, v, by)
  PROVE  e \in File /\ e.ino = <<c.id, c.st>> /\ e.born = issued /\ e.by = by /\ e.v = v
<1>1. <<c.id, c.st>> \in Inodes /\ issued \in Nat
  BY CallsAre DEF Inodes, Shapes
<1> QED
  BY <1>1 DEF Entry, File

LEMMA PutIs ==
  ASSUME Shapes, NEW c \in calls, NEW n \in Names, NEW kind \in {"file", "dir"}, NEW v \in Nat,
         NEW by \in Maybe(Tabs), fs' = Put(n, Entry(c, kind, v, by))
  PROVE  Folder(c, by) /\ n \in DOMAIN fs' /\ fs'[n].by = by /\ fs'[n].v = v
<1> DEFINE e == Entry(c, kind, v, by)
<1>1. e \in File /\ e.ino = <<c.id, c.st>> /\ e.born = issued /\ e.by = by /\ e.v = v
  BY EntryIs
<1>2. fs' = Put(n, e)
  OBVIOUS
<1> HIDE DEF e
<1>3. /\ DOMAIN fs' = DOMAIN fs \cup {n} /\ fs'[n] = e
      /\ \A x \in DOMAIN fs' \ {n} : x \in DOMAIN fs /\ fs'[x] = fs[x]
      /\ FsOK'
  BY <1>1, <1>2 DEF Put, Shapes, FsOK
<1> QED
  BY <1>1, <1>3 DEF Folder, Same

LEMMA OpensIs ==
  ASSUME Shapes, NEW c \in calls, NEW n \in Names, NEW v \in Nat, NEW by \in Maybe(Tabs),
         c.st \in {"sent", "checked", "open"}, Opens(c, n, v, by)
  PROVE  /\ Folder(c, by) /\ n \in DOMAIN fs' /\ fs'[n].v = 0
         /\ \E d : /\ Moved(c, d) /\ d.st = (IF c.st = "open" THEN "again" ELSE "open")
                   /\ d.v = v /\ d.ino = fs'[n].ino
<1>1. Folder(c, by) /\ n \in DOMAIN fs' /\ fs'[n].v = 0
  <2>1. CASE n \in DOMAIN fs
    <3> DEFINE e == [fs[n] EXCEPT !.v = 0, !.by = by]
    <3>1. fs[n] \in File
      BY <2>1 DEF Shapes, FsOK
    <3>2. e \in File /\ e.ino = fs[n].ino /\ e.born = fs[n].born /\ e.kind = fs[n].kind /\ e.by = by
          /\ e.v = 0
      BY <3>1 DEF File
    <3>3. fs' = Put(n, e)
      BY <2>1 DEF Opens, Truncated
    <3> HIDE DEF e
    <3>4. /\ DOMAIN fs' = DOMAIN fs \cup {n} /\ fs'[n] = e
          /\ \A x \in DOMAIN fs' \ {n} : x \in DOMAIN fs /\ fs'[x] = fs[x]
          /\ FsOK'
      BY <3>2, <3>3 DEF Put, Shapes, FsOK
    <3> QED
      BY <2>1, <3>2, <3>4 DEF Folder, Kept
  <2>2. CASE n \notin DOMAIN fs
    <3>1. fs' = Put(n, Entry(c, "file", 0, by))
      BY <2>2 DEF Opens, Truncated
    <3> QED
      BY <3>1, PutIs
  <2> QED
    BY <2>1, <2>2
<1> DEFINE st == IF c.st = "open" THEN "again" ELSE "open"
           ino == fs'[n].ino
           d == [c EXCEPT !.st = st, !.v = v, !.ino = ino]
<1>2. st \in States /\ c.st \in Before(st)
  BY DEF States, Before
<1>3. ino \in Maybe(Inodes)
  <2>1. fs'[n] \in File
    BY <1>1 DEF Folder, FsOK
  <2> QED
    BY <2>1 DEF File, Maybe
<1>4. Replace(c, d)
  BY DEF Opens
<1> HIDE DEF st, ino
<1>5. d = Turned(c, st, v, ino)
  BY DEF Turned
<1> HIDE DEF d
<1>6. Moved(c, d) /\ d.st = st /\ d.v = v /\ d.ino = ino
  BY <1>2, <1>3, <1>4, <1>5, MovedTo
<1> QED
  BY <1>1, <1>6 DEF st, ino

LEMMA FilledIs ==
  ASSUME Shapes, NEW c \in calls, NEW v \in Nat, NEW by \in Maybe(Tabs), fs' = Filled(c, v, by)
  PROVE  /\ Folder(c, by) /\ DOMAIN fs' = DOMAIN fs
         /\ \A n \in DOMAIN fs : /\ fs[n].ino = c.ino => fs'[n].v = v
                                 /\ fs[n].ino # c.ino => fs'[n] = fs[n]
<1>1. DOMAIN fs' = DOMAIN fs
  BY DEF Filled
<1>2. ASSUME NEW n \in DOMAIN fs
      PROVE  /\ fs'[n] \in File /\ Kept(n, by)
             /\ fs[n].ino = c.ino => fs'[n].v = v
             /\ fs[n].ino # c.ino => fs'[n] = fs[n]
  <2>1. fs[n] \in File
    BY DEF Shapes, FsOK
  <2> DEFINE e == [fs[n] EXCEPT !.v = v, !.by = by]
  <2>2. /\ e \in File /\ e.ino = fs[n].ino /\ e.born = fs[n].born /\ e.kind = fs[n].kind /\ e.by = by
        /\ e.v = v
    BY <2>1 DEF File
  <2>3. fs'[n] = IF fs[n].ino = c.ino THEN e ELSE fs[n]
    BY DEF Filled
  <2> HIDE DEF e
  <2> QED
    BY <2>1, <2>2, <2>3 DEF Kept
<1>3. fs' = [n \in DOMAIN fs' |-> fs'[n]]
  BY DEF Filled
<1>4. FsOK'
  BY <1>1, <1>2, <1>3 DEF FsOK, Shapes
<1> QED
  BY <1>1, <1>2, <1>4 DEF Folder

LEMMA GarbledIs == Garbled \in Nat
BY FilesBoundAssumption DEF Garbled

LEMMA FillsIs ==
  ASSUME Shapes, NEW c \in calls, c.v \in Nat, NEW by \in Maybe(Tabs), Fills(c, by)
  PROVE  /\ Folder(c, by) /\ DOMAIN fs' = DOMAIN fs
         /\ \A n \in DOMAIN fs :
              \/ fs[n].ino = c.ino /\ fs'[n].v \in {c.v, Garbled}
              \/ fs'[n] = fs[n] /\ (fs[n].ino = c.ino => c.v = 0)
<1>1. CASE c.v = 0 /\ fs' = fs
  BY <1>1, StaysIs
<1>2. CASE fs' = Filled(c, c.v, by)
  BY <1>2, FilledIs
<1>3. CASE fs' = Filled(c, Garbled, by)
  BY <1>3, GarbledIs, FilledIs
<1> QED
  BY <1>1, <1>2, <1>3 DEF Fills

LEMMA RestrictIs ==
  ASSUME Shapes, NEW c \in calls, NEW n, NEW by, fs' = Restrict(fs, DOMAIN fs \ {n})
  PROVE  Folder(c, by)
<1>1. /\ DOMAIN fs' \subseteq DOMAIN fs /\ fs' \in [DOMAIN fs' -> File]
      /\ \A x \in DOMAIN fs' : fs'[x] = fs[x]
  BY DEF Restrict, Shapes, FsOK
<1> QED
  BY <1>1 DEF Folder, Kept, Shapes, FsOK

LEMMA RenameIs ==
  ASSUME Shapes, NEW c \in calls, c.path \in DOMAIN fs, c.to \in Names,
         fs' = Restrict(Put(c.to, [fs[c.path] EXCEPT !.born = issued, !.by = None]),
                        (DOMAIN fs \cup {c.to}) \ {c.path})
  PROVE  Folder(c, None)
<1> DEFINE e == [fs[c.path] EXCEPT !.born = issued, !.by = None]
           D == (DOMAIN fs \cup {c.to}) \ {c.path}
<1>1. fs[c.path] \in File /\ issued \in Nat /\ None \in Maybe(Tabs)
  BY DEF Shapes, FsOK, Maybe
<1>2. e \in File /\ e.ino = fs[c.path].ino /\ e.born = issued /\ e.by = None
  BY <1>1 DEF File
<1>3. fs' = Restrict(Put(c.to, e), D)
  OBVIOUS
<1> HIDE DEF e
<1>4. fs' = [n \in D |-> IF n = c.to THEN e ELSE fs[n]]
  BY <1>3 DEF Restrict, Put
<1>5. FsOK'
  BY <1>2, <1>4 DEF Shapes, FsOK
<1>6. CASE c.to = c.path
  BY <1>4, <1>5, <1>6 DEF Folder, Kept
<1>7. CASE c.to # c.path
  <2>1. c.to \in DOMAIN fs' /\ fs'[c.to] = e /\ c.path \in DOMAIN fs \ DOMAIN fs'
    BY <1>4, <1>7
  <2>2. \A n \in DOMAIN fs' \ {c.to} : Same(n)
    BY <1>4 DEF Same
  <2>3. \E y \in DOMAIN fs \ DOMAIN fs' : fs'[c.to].ino = fs[y].ino
    BY <1>2, <2>1
  <2>4. fs'[c.to].born = issued /\ fs'[c.to].by = None
    BY <1>2, <2>1
  <2> QED
    BY <1>5, <2>1, <2>2, <2>3, <2>4 DEF Folder
<1> QED
  BY <1>6, <1>7

\* The handlers that look first.
LEMMA LooksIs ==
  ASSUME Shapes, NEW c \in calls, c.st = "sent", Refuses(c)
  PROVE  \E d : HostStep(c, d)
<1>1. c.st \in Before("checked") /\ c.st \in Before("fail") /\ "checked" \in States /\ "fail" \in States
  BY DEF Before, States
<1>2. c.op \in Refusing /\ c.op # "save" /\ c.op # "get" /\ fs' = fs /\ clobbered' = clobbered
  BY OpsAre DEF Refuses
<1>3. PICK st \in {"checked", "fail"} : Reply(c, st) /\ (st = "checked" => c.to \notin DOMAIN fs)
  BY DEF Refuses
<1>4. PICK d : Moved(c, d) /\ d.st = st
  BY <1>1, <1>3, ReplyIs
<1>5. Folder(c, Editor(c))
  BY <1>2, StaysIs
<1>6. Looked(d) /\ ~Looked(c) => fs' = fs /\ c.to \notin DOMAIN fs
  BY <1>2, <1>3, <1>4 DEF Looked
<1> QED
  BY <1>2, <1>4, <1>5, <1>6 DEF HostStep

\* The other calls that begin.
LEMMA BeginsIs ==
  ASSUME Shapes, NEW c \in calls, c.st = "sent",
         ListFiles(c) \/ ReadContent(c) \/ DeleteFile(c) \/ SaveContent(c) \/ Unzip(c)
  PROVE  \E d : HostStep(c, d)
<1>1. /\ \A st \in {"open", "ok", "fail"} : st \in States /\ c.st \in Before(st)
      /\ c.op \in {"list", "get", "delete", "save", "unzip"} /\ c.op \notin Refusing
      /\ clobbered' = clobbered
  BY OpsAre DEF Before, States, ListFiles, ReadContent, DeleteFile, SaveContent, Unzip
<1>2. ASSUME NEW d, Moved(c, d) PROVE ~Looked(d)
  BY <1>1, <1>2 DEF Moved, Looked
<1>3. fs' = fs => Folder(c, Editor(c))
  BY StaysIs
<1>4. CASE ListFiles(c)
  <2> DEFINE S == DOMAIN fs
             d == [c EXCEPT !.names = S, !.st = "ok"]
  <2>1. S \in SUBSET Names /\ c \in RawCalls /\ Sound(c)
    BY CallsAre DEF Shapes, FsOK
  <2>2. Replace(c, d) /\ fs' = fs /\ c.op = "list"
    BY <1>4 DEF ListFiles
  <2> HIDE DEF S
  <2>3. /\ d \in RawCalls /\ d.id = c.id /\ d.tab = c.tab /\ d.op = c.op /\ d.path = c.path
        /\ d.to = c.to /\ d.of = c.of /\ d.then = c.then /\ d.open = c.open /\ d.rest = c.rest
        /\ d.st = "ok"
    BY <1>1, <2>1 DEF RawCalls
  <2> HIDE DEF d
  <2>4. Moved(c, d)
    BY <1>1, <2>1, <2>2, <2>3 DEF Moved, Replace, Calls, Sound
  <2> QED
    BY <1>1, <1>2, <1>3, <2>2, <2>4 DEF HostStep
<1>5. CASE ReadContent(c)
  <2>1. fs' = fs /\ c.op = "get"
    BY <1>5 DEF ReadContent
  <2>2. CASE IsFile(c.path)
    <3> DEFINE v == fs[c.path].v
               d == [c EXCEPT !.v = v, !.st = "ok"]
    <3>1. v \in Nat /\ c.path \in DOMAIN fs
      BY <2>2 DEF IsFile, Shapes, FsOK, File
    <3>2. Replace(c, d)
      BY <1>5, <2>2 DEF ReadContent
    <3>3. c \in RawCalls /\ c.ino \in Maybe(Inodes)
      BY CallsAre DEF RawCalls
    <3> HIDE DEF v
    <3>4. d = Turned(c, "ok", v, c.ino)
      BY <3>3 DEF RawCalls, Turned
    <3> HIDE DEF d
    <3>5. Moved(c, d) /\ d.v = v
      BY <1>1, <3>1, <3>2, <3>3, <3>4, MovedTo
    <3> QED
      BY <1>1, <1>2, <1>3, <2>1, <3>1, <3>5 DEF HostStep, v
  <2>3. CASE ~IsFile(c.path)
    <3>1. Reply(c, "fail")
      BY <1>5, <2>3 DEF ReadContent
    <3>2. PICK d : Moved(c, d) /\ d.st = "fail"
      BY <1>1, <3>1, ReplyIs
    <3> QED
      BY <1>1, <1>2, <1>3, <2>1, <3>2 DEF HostStep
  <2> QED
    BY <2>2, <2>3
<1>6. CASE DeleteFile(c)
  <2>1. c.op = "delete"
    BY <1>6 DEF DeleteFile
  <2>2. PICK st \in {"ok", "fail"} : Reply(c, st)
    BY <1>6 DEF DeleteFile
  <2>3. PICK d : Moved(c, d)
    BY <1>1, <2>2, ReplyIs
  <2>4. Folder(c, Editor(c))
    BY <1>3, <1>6, RestrictIs DEF DeleteFile
  <2> QED
    BY <1>1, <1>2, <2>1, <2>3, <2>4 DEF HostStep
<1>7. CASE SaveContent(c)
  <2>1. c.op = "save" /\ c.path \in Names /\ c.v \in Nat /\ Editor(c) \in Maybe(Tabs)
    BY <1>7, CallsAre, EditorIs DEF SaveContent, Sound
  <2>2. CASE Opens(c, c.path, c.v, Editor(c))
    <3>1. Folder(c, Editor(c)) /\ c.path \in DOMAIN fs' /\ fs'[c.path].v = 0
      BY <2>1, <2>2, OpensIs
    <3>2. PICK d : Moved(c, d) /\ d.st = "open" /\ d.v = c.v /\ d.ino = fs'[c.path].ino
      BY <2>1, <2>2, OpensIs
    <3> QED
      BY <1>1, <1>2, <2>1, <3>1, <3>2 DEF HostStep, Written
  <2>3. CASE Reply(c, "fail") /\ fs' = fs
    <3>1. PICK d : Moved(c, d) /\ d.st = "fail" /\ d.v = c.v
      BY <1>1, <2>3, ReplyIs
    <3> QED
      BY <1>1, <1>2, <1>3, <2>1, <2>3, <3>1 DEF HostStep, Written
  <2> QED
    BY <1>7, <2>2, <2>3 DEF SaveContent
<1>8. CASE Unzip(c)
  <2>1. c.op = "unzip" /\ Editor(c) = None /\ c.v \in Nat /\ None \in Maybe(Tabs)
    BY <1>8, CallsAre, EditorIs DEF Unzip
  <2>2. PICK st \in {"ok", "fail"} : Reply(c, st)
    BY <1>8 DEF Unzip
  <2>3. PICK d : Moved(c, d)
    BY <1>1, <2>2, ReplyIs
  <2>4. fs' = fs \/ \E n \in Names : fs' = Put(n, Entry(c, "file", c.v, None))
    BY <1>8 DEF Unzip
  <2>5. Folder(c, Editor(c))
    BY <1>3, <2>1, <2>4, PutIs
  <2> QED
    BY <1>1, <1>2, <2>1, <2>3, <2>5 DEF HostStep
<1> QED
  BY <1>4, <1>5, <1>6, <1>7, <1>8

\* The handlers that have looked.
LEMMA ActsIs ==
  ASSUME Shapes, NEW c \in calls,
         \/ c.st = "checked" /\ (RenameFile(c) \/ CopyFile(c) \/ Mkdir(c) \/ Upload(c) \/ ZipMany(c))
         \/ UploadUrl(c)
  PROVE  \E d : HostStep(c, d)
<1>1. /\ c.st \in {"checked", "open", "again"}
      /\ \A st \in {"ok", "fail"} : st \in States /\ c.st \in Before(st)
  <2>1. c.st \in {"checked", "open", "again"}
    BY DEF UploadUrl
  <2> QED
    BY <2>1 DEF Before, States
<1>2. /\ c.op \in Refusing /\ c.op \notin {"get", "save", "list"} /\ c.to \in Names /\ c.v \in Nat
      /\ Looked(c)
  <2>1. c.op \in {"rename", "copy", "mkdir", "upload", "zip", "url"}
    BY DEF RenameFile, CopyFile, Mkdir, Upload, ZipMany, UploadUrl
  <2> QED
    BY <1>1, <2>1, CallsAre, OpsAre DEF Looked, Sound
<1>3. Editor(c) = None /\ None \in Maybe(Tabs)
  BY <1>2, EditorIs
<1> DEFINE Spoils == clobbered' = clobbered \/ Destroys(c, c.to)
<1>4. ASSUME Folder(c, None), Spoils, \E d : Moved(c, d)
      PROVE  \E d : HostStep(c, d)
  BY <1>2, <1>3, <1>4 DEF HostStep
<1>5. ASSUME NEW st \in {"ok", "fail"}, Reply(c, st)
      PROVE  \E d : Moved(c, d)
  BY <1>1, <1>5, ReplyIs
<1>6. fs' = fs => Folder(c, None)
  BY StaysIs
<1>7. ASSUME NEW v \in Nat, c.st # "again", Opens(c, c.to, v, None)
      PROVE  Folder(c, None) /\ \E d : Moved(c, d)
  BY <1>1, <1>2, <1>3, <1>7, OpensIs
<1>8. ASSUME Removes(c)
      PROVE  Folder(c, None) /\ (\E d : Moved(c, d)) /\ Spoils
  <2>1. Reply(c, "fail") /\ Spoils
    BY <1>8 DEF Removes
  <2>2. fs' = fs \/ fs' = Restrict(fs, DOMAIN fs \ {c.to})
    BY <1>8 DEF Removes
  <2> QED
    BY <1>5, <1>6, <2>1, <2>2, RestrictIs
<1>9. ASSUME MakesDir(c)
      PROVE  Folder(c, None) /\ \E d : Moved(c, d)
  <2>1. Reply(c, "ok") \/ Reply(c, "fail")
    BY <1>9 DEF MakesDir
  <2>2. fs' = fs \/ fs' = Put(c.to, Entry(c, "dir", 0, None))
    BY <1>9 DEF MakesDir
  <2>3. Folder(c, None)
    BY <1>2, <1>3, <1>6, <2>2, PutIs
  <2> QED
    BY <1>5, <2>1, <2>3
<1>10. CASE RenameFile(c)
  <2>1. CASE Reply(c, "fail") /\ UNCHANGED <<fs, clobbered>>
    BY <1>4, <1>5, <1>6, <2>1
  <2>2. CASE /\ c.path \in DOMAIN fs
             /\ fs' = Restrict(Put(c.to, [fs[c.path] EXCEPT !.born = issued, !.by = None]),
                               (DOMAIN fs \cup {c.to}) \ {c.path})
             /\ Destroys(c, c.to) /\ Reply(c, "ok")
    <3>1. Folder(c, None)
      BY <1>2, <2>2, RenameIs
    <3> QED
      BY <1>4, <1>5, <2>2, <3>1
  <2> QED
    BY <1>10, <2>1, <2>2 DEF RenameFile
<1>11. CASE c.st = "checked" /\ CopyFile(c)
  <2>1. CASE IsFile(c.path) /\ Opens(c, c.to, fs[c.path].v, None) /\ Destroys(c, c.to)
    <3>1. fs[c.path].v \in Nat
      BY <2>1 DEF IsFile, Shapes, FsOK, File
    <3> QED
      BY <1>4, <1>7, <1>11, <2>1, <3>1
  <2>2. CASE MakesDir(c) /\ UNCHANGED clobbered
    BY <1>4, <1>9, <2>2
  <2>3. CASE Reply(c, "fail") /\ UNCHANGED <<fs, clobbered>>
    BY <1>4, <1>5, <1>6, <2>3
  <2> QED
    BY <1>11, <2>1, <2>2, <2>3 DEF CopyFile
<1>12. CASE Mkdir(c)
  BY <1>4, <1>9, <1>12 DEF Mkdir
<1>13. CASE c.st = "checked" /\ Upload(c)
  <2>1. CASE Opens(c, c.to, c.v, None) /\ Destroys(c, c.to)
    BY <1>2, <1>4, <1>7, <1>13, <2>1
  <2>2. CASE Reply(c, "fail") /\ UNCHANGED <<fs, clobbered>>
    BY <1>4, <1>5, <1>6, <2>2
  <2> QED
    BY <1>13, <2>1, <2>2 DEF Upload
<1>14. CASE ZipMany(c)
  <2>1. CASE /\ fs' = Put(c.to, Entry(c, "file", c.v, None))
             /\ Destroys(c, c.to) /\ Reply(c, "ok")
    <3>1. Folder(c, None)
      BY <1>2, <1>3, <2>1, PutIs
    <3> QED
      BY <1>4, <1>5, <2>1, <3>1
  <2>2. CASE Removes(c)
    BY <1>4, <1>8, <2>2
  <2> QED
    BY <1>14, <2>1, <2>2 DEF ZipMany
<1>15. CASE UploadUrl(c)
  <2>1. CASE c.st # "again" /\ Opens(c, c.to, c.v, None) /\ Destroys(c, c.to)
    BY <1>2, <1>4, <1>7, <2>1
  <2>2. CASE Fills(c, None) /\ Reply(c, "ok") /\ UNCHANGED clobbered
    <3>1. Folder(c, None)
      BY <1>2, <1>3, <2>2, FillsIs
    <3> QED
      BY <1>4, <1>5, <2>2, <3>1
  <2>3. CASE Removes(c)
    BY <1>4, <1>8, <2>3
  <2> QED
    BY <1>15, <2>1, <2>2, <2>3 DEF UploadUrl
<1> QED
  BY <1>10, <1>11, <1>12, <1>13, <1>14, <1>15

LEMMA WritesIs ==
  ASSUME Shapes, NEW c \in calls, WriteEnds(c)
  PROVE  \E d : HostStep(c, d)
<1>1. /\ c.st = "open" /\ c.op \in {"save", "upload", "copy"} /\ clobbered' = clobbered
      /\ c.v \in Nat /\ Editor(c) \in Maybe(Tabs)
  BY CallsAre, EditorIs DEF WriteEnds
<1>2. \A st \in {"ok", "fail"} : st \in States /\ c.st \in Before(st)
  BY <1>1 DEF Before, States
<1>3. CASE Fills(c, Editor(c)) /\ Reply(c, "ok")
  <2>1. /\ Folder(c, Editor(c)) /\ DOMAIN fs' = DOMAIN fs
        /\ \A n \in DOMAIN fs :
             \/ fs[n].ino = c.ino /\ fs'[n].v \in {c.v, Garbled}
             \/ fs'[n] = fs[n] /\ (fs[n].ino = c.ino => c.v = 0)
    BY <1>1, <1>3, FillsIs
  <2>2. PICK d : Moved(c, d) /\ d.st = "ok" /\ d.v = c.v
    BY <1>2, <1>3, ReplyIs
  <2>3. Written(c, d)
    BY <1>1, <2>1, <2>2 DEF Written
  <2>4. ~Looked(d)
    BY <2>2 DEF Looked
  <2> QED
    BY <1>1, <2>1, <2>2, <2>3, <2>4 DEF HostStep
<1>4. CASE fs' \in {fs, Filled(c, Garbled, Editor(c))} /\ Reply(c, "fail")
  <2>1. PICK d : Moved(c, d) /\ d.st = "fail" /\ d.v = c.v
    BY <1>2, <1>4, ReplyIs
  <2>2. Written(c, d) /\ ~Looked(d)
    BY <1>4, <2>1 DEF Written, Looked
  <2>3. Folder(c, Editor(c))
    BY <1>1, <1>4, StaysIs, FilledIs, GarbledIs
  <2> QED
    BY <1>1, <2>1, <2>2, <2>3 DEF HostStep
<1> QED
  BY <1>3, <1>4 DEF WriteEnds

LEMMA HandlerIs ==
  ASSUME Shapes, NEW c \in calls, Handler(c)
  PROVE  /\ UNCHANGED <<listing, ed, made, late>>
         /\ \E d : HostStep(c, d)
BY LooksIs, BeginsIs, ActsIs, WritesIs DEF Handler, Host

----------------------------------------------------------------------------
(* Identity and what is spared *)

LEMMA BeforeIs ==
  ASSUME NEW s \in States, NEW t \in States, s \in Before(t)
  PROVE  /\ Before(s) \subseteq Before(t) /\ s \notin Before(s)
<1>1. s # "sent" => t # "sent"
  BY DEF Before, States
<1> QED
  BY <1>1 DEF Before, States

LEMMA InodeIs ==
  ASSUME Shapes, NEW n \in DOMAIN fs
  PROVE  /\ fs[n].ino \in Inodes /\ fs[n].ino[1] \in Nat /\ fs[n].born \in Nat
         /\ n \in Names /\ fs[n] \in File
BY DEF Shapes, FsOK, File, Inodes

LEMMA HostShapes ==
  ASSUME Shapes, NEW c \in calls, NEW d, HostStep(c, d), UNCHANGED <<listing, ed, made, late>>
  PROVE  Shapes'
BY DEF Shapes, HostStep, Moved, Folder

LEMMA HostNumbered ==
  ASSUME Shapes, Numbered, NEW c \in calls, NEW d, HostStep(c, d)
  PROVE  Numbered'
BY DEF Numbered, HostStep, Moved

LEMMA PageNumbered ==
  ASSUME Shapes, Numbered, PageStep
  PROVE  Numbered'
<1>1. \A x \in calls : x.id \in Nat /\ x.id <= issued /\ issued \in Nat /\ issued + 1 \in Nat
  BY CallsAre DEF Numbered, Shapes
<1>2. CASE calls' \subseteq calls /\ issued' = issued
  BY <1>2 DEF Numbered
<1>3. CASE \E d : Starting(d) /\ issued' = issued + 1 /\ calls' \subseteq calls \cup {d}
  <2>1. PICK d : d.id = issued + 1 /\ issued' = issued + 1 /\ calls' \subseteq calls \cup {d}
    BY <1>3 DEF Starting
  <2>2. \A x \in calls : x.id # issued + 1 /\ x.id <= issued + 1
    BY <1>1
  <2>3. issued \in Nat
    BY DEF Shapes
  <2>4. issued + 1 # 0 /\ issued + 1 <= issued + 1
    BY <2>3
  <2> DEFINE i == issued + 1
  <2>5. d.id = i /\ issued' = i /\ i # 0 /\ i <= i /\ \A x \in calls : x.id # i /\ x.id <= i
    BY <2>1, <2>2, <2>4
  <2> HIDE DEF i
  <2> QED
    BY <2>1, <2>5 DEF Numbered
<1> QED
  BY <1>2, <1>3 DEF PageStep

LEMMA PageDistinct ==
  ASSUME Shapes, Distinct, PageStep
  PROVE  Distinct'
<1>1. \A n \in DOMAIN fs : fs[n].ino[1] \in Nat /\ issued \in Nat
  BY InodeIs DEF Shapes
<1>2. fs' = fs /\ (issued' = issued \/ issued' = issued + 1)
  BY DEF PageStep
<1>3. \A n \in DOMAIN fs' : fs'[n].ino[1] <= issued'
  BY <1>1, <1>2 DEF Distinct
<1>4. ASSUME NEW n \in DOMAIN fs', NEW c \in calls', fs'[n].ino[1] = c.id
      PROVE  fs'[n].ino[2] \in Before(c.st)
  <2>1. c.id # issued + 1
    BY <1>1, <1>2, <1>4 DEF Distinct
  <2>2. c \in calls
    BY <2>1 DEF PageStep, Starting
  <2> QED
    BY <1>2, <1>4, <2>2 DEF Distinct
<1> QED
  BY <1>2, <1>3, <1>4 DEF Distinct

LEMMA HostDistinct ==
  ASSUME Shapes, Numbered, Distinct, NEW c \in calls, NEW d, HostStep(c, d)
  PROVE  Distinct'
<1>1. /\ d \in Calls /\ d.id = c.id /\ c.st \in Before(d.st) /\ calls' = (calls \ {c}) \cup {d}
      /\ issued' = issued /\ Folder(c, Editor(c)) /\ c.st \in States /\ d.st \in States
      /\ c.id <= issued
  BY CallsAre DEF HostStep, Moved, Calls, RawCalls, Numbered
<1>2. Before(c.st) \subseteq Before(d.st) /\ c.st \notin Before(c.st)
  BY <1>1, BeforeIs
<1>3. \A e \in calls' : e = d \/ (e \in calls /\ e.id # c.id)
  BY <1>1 DEF Numbered
\* Whatever has a number had it, or is new.
<1>4. \A n \in DOMAIN fs' : \/ \E m \in DOMAIN fs : fs'[n].ino = fs[m].ino
                            \/ fs'[n].ino = <<c.id, c.st>>
  BY <1>1 DEF Folder, Kept, Same
<1>5. \A m \in DOMAIN fs : fs[m].ino # <<c.id, c.st>>
  BY <1>2 DEF Distinct
<1>6. ASSUME NEW m \in DOMAIN fs', NEW n \in DOMAIN fs', fs'[m].ino = fs'[n].ino
      PROVE  m = n
  <2>1. CASE \A x \in DOMAIN fs' : Kept(x, Editor(c))
    BY <1>6, <2>1 DEF Kept, Distinct
  <2>2. CASE \E x \in DOMAIN fs' :
               /\ \/ fs'[x].ino = <<c.id, c.st>>
                  \/ \E y \in DOMAIN fs \ DOMAIN fs' : fs'[x].ino = fs[y].ino
               /\ \A z \in DOMAIN fs' \ {x} : Same(z)
    BY <1>5, <1>6, <2>2 DEF Same, Distinct
  <2> QED
    BY <1>1, <2>1, <2>2 DEF Folder
<1>7. \A n \in DOMAIN fs' : fs'[n].ino[1] <= issued'
  BY <1>1, <1>4 DEF Distinct
<1>8. ASSUME NEW n \in DOMAIN fs', NEW e \in calls', fs'[n].ino[1] = e.id
      PROVE  fs'[n].ino[2] \in Before(e.st)
  BY <1>1, <1>2, <1>3, <1>4, <1>8 DEF Distinct
<1> QED
  BY <1>6, <1>7, <1>8 DEF Distinct

LEMMA PageNewer ==
  ASSUME Shapes, Newer, PageStep
  PROVE  Newer'
<1>1. \A e \in calls' : Looked(e) => e \in calls
  BY DEF PageStep, Looked, Starting
<1>2. fs' = fs /\ clobbered' = clobbered
  BY DEF PageStep
<1> QED
  BY <1>1, <1>2 DEF Newer, IsFile

LEMMA HostNewer ==
  ASSUME Shapes, Numbered, Newer, NEW c \in calls, NEW d, HostStep(c, d)
  PROVE  Newer'
<1>1. /\ d.id = c.id /\ d.to = c.to /\ calls' = (calls \ {c}) \cup {d} /\ issued' = issued
      /\ Folder(c, Editor(c)) /\ (Looked(d) /\ ~Looked(c) => fs' = fs /\ c.to \notin DOMAIN fs)
  BY DEF HostStep, Moved
<1>2. ~clobbered'
  <2>1. ~clobbered /\ (Looked(c) /\ IsFile(c.to) => ~(c.id > fs[c.to].born))
    <3>1. Looked(c) /\ IsFile(c.to) => c.id <= fs[c.to].born /\ c.id \in Nat /\ fs[c.to].born \in Nat
      BY CallsAre, InodeIs DEF Newer, IsFile
    <3> QED
      BY <3>1 DEF Newer
  <2> QED
    BY <2>1 DEF HostStep, Destroys
\* A file that has a name now had it then, or has got it now.
<1>3. \A n \in DOMAIN fs' : \/ n \in DOMAIN fs /\ fs'[n].born = fs[n].born /\ fs'[n].kind = fs[n].kind
                            \/ fs'[n].born = issued
  BY <1>1 DEF Folder, Kept, Same
<1>4. ASSUME NEW e \in calls', Looked(e), e.to \in DOMAIN fs', fs'[e.to].kind = "file"
      PROVE  e.id <= fs'[e.to].born
  <2>1. CASE fs'[e.to].born = issued
    BY <1>1, <2>1 DEF Numbered
  <2>2. CASE /\ e.to \in DOMAIN fs /\ fs'[e.to].born = fs[e.to].born
             /\ fs'[e.to].kind = fs[e.to].kind
    <3>1. CASE e = d
      BY <1>1, <1>4, <2>2, <3>1 DEF Newer, IsFile
    <3>2. CASE e \in calls
      BY <1>4, <2>2, <3>2 DEF Newer, IsFile
    <3> QED
      BY <1>1, <3>1, <3>2
  <2> QED
    BY <1>3, <1>4, <2>1, <2>2
<1> QED
  BY <1>2, <1>4 DEF Newer, IsFile, Looked

----------------------------------------------------------------------------
(* The editor of a page *)

\* A page step that leaves the editor of q alone.
LEMMA Elsewhere ==
  ASSUME Shapes, NEW q \in Tabs, EditedTab(q), fs' = fs, ed'[q] = ed[q], q \in late' <=> q \in late,
         \A e \in calls' : e.tab = q => e \in calls \/ Plainly(e),
         \A e \in calls : e.tab = q /\ Saves(e) => e \in calls'
  PROVE  EditedTab(q)'
<1>1. /\ Timely(q)' <=> Timely(q)
      /\ Shown(q)' <=> Shown(q)
      /\ \A v : Holds(q, v)' <=> Holds(q, v)
  BY DEF Timely, Shown, Holds
<1>2. ASSUME NEW e \in calls', e.tab = q
      PROVE  /\ Awaited(e)' => e \in calls /\ Awaited(e)
             /\ e.then = "saved" => e \in calls
             /\ e.op = "save" => e \in calls \/ e.of = e.path
  BY <1>2 DEF Awaited, Plainly
<1>3. Named(q)'
  BY <1>1, <1>2 DEF EditedTab, Named
<1>4. OneSave(q)'
  BY <1>2 DEF EditedTab, OneSave
<1>5. Timely(q) => Stored0(q)'
  <2>1. Timely(q) => Stored0(q)
    BY DEF EditedTab, Matches
  <2> QED
    BY <1>1, <2>1 DEF Stored0
<1>6. ASSUME NEW e \in calls', e.tab = q, Timely(q)
      PROVE  Underway(e)'
  <2>1. CASE e \in calls
    <3>1. Underway(e)
      BY <1>6, <2>1 DEF EditedTab, Matches
    <3> QED
      BY <1>1, <1>6, <3>1 DEF Underway, Awaited
  <2>2. CASE e \notin calls
    <3>1. ~Saves(e) /\ ~Awaited(e)'
      BY <1>2, <1>6, <2>2 DEF Saves
    <3> QED
      BY <3>1 DEF Underway
  <2> QED
    BY <2>1, <2>2
<1> QED
  BY <1>1, <1>3, <1>4, <1>5, <1>6 DEF EditedTab, Matches

\* The editor opens a file.
LEMMA Opening ==
  ASSUME Shapes, Numbered, NEW p \in Tabs, EditedTab(p), fs' = fs, NEW f, NEW e,
         ed' = [ed EXCEPT ![p] = e],
         e.file = f, e.kind = "none", e.loading, e.saving = ed[p].saving, e.open = issued + 1,
         late' = IF ed[p].saving THEN late \cup {p} ELSE late,
         NEW d, d.op = "get", d.path = f, d.tab = p, d.then = "load", d.st = "sent",
         calls' \subseteq calls \cup {d}
  PROVE  EditedTab(p)'
<1>1. ed'[p] = e
  BY DEF Shapes
<1>2. ~Shown(p)'
  BY <1>1 DEF Shown
<1>3. \A x \in calls : x.id # issued + 1
  BY CallsAre DEF Numbered, Shapes
<1>4. ASSUME NEW x \in calls', x.tab = p, Awaited(x)'
      PROVE  x = d
  BY <1>1, <1>3, <1>4 DEF Awaited
<1>5. ed[p].saving \in BOOLEAN
  BY EditorsAre
<1>6. Timely(p)' => ~ed[p].saving /\ p \notin late
  BY DEF Timely
<1>7. ASSUME NEW x \in calls', x.tab = p, x.then = "saved"
      PROVE  x \in calls /\ ed[p].saving
  BY <1>7 DEF EditedTab, OneSave
<1>8. Named(p)'
  <2>1. \A x \in calls' : x.tab = p /\ x.op = "save" /\ p \notin late' => x.of = x.path
    BY DEF EditedTab, Named
  <2>2. \A x \in calls' : x.tab = p /\ Awaited(x)' => x.path = ed'[p].file
    BY <1>1, <1>4
  <2> QED
    BY <1>2, <2>1, <2>2 DEF Named
<1>9. OneSave(p)'
  <2>1. \A x \in calls' : x.tab = p /\ x.then = "saved" => ed'[p].saving
    BY <1>1, <1>7
  <2> QED
    BY <1>7, <2>1 DEF EditedTab, OneSave
<1>10. ASSUME Timely(p)', NEW x \in calls', x.tab = p
       PROVE  Underway(x)'
  <2>1. ~Saves(x)
    BY <1>6, <1>7, <1>10 DEF Saves
  <2>2. Awaited(x)' => x.st # "ok" /\ ed'[p].loading /\ ~ed'[p].saving
    BY <1>1, <1>4, <1>5, <1>6, <1>10
  <2> QED
    BY <1>10, <2>1, <2>2 DEF Underway
<1>11. Stored0(p)'
  BY <1>2 DEF Stored0
<1> QED
  BY <1>8, <1>9, <1>10, <1>11 DEF EditedTab, Matches

LEMMA UserEdits ==
  ASSUME Shapes, Numbered, Edited, NEW p \in Tabs, User(p), NEW q \in Tabs
  PROVE  EditedTab(q)'
<1>1. EditedTab(q) /\ EditedTab(p)
  BY DEF Edited, EditedTab
<1>2. ed \in [Tabs -> Editors]
  BY DEF Shapes
<1>3. CASE Submitting(p)
  BY <1>1, <1>3, SubmitIs, Elsewhere DEF Plainly
<1>4. CASE OpenEditor(p)
  <2>1. PICK f \in Names, d \in Calls :
           /\ Starting(d) /\ d.op = "get" /\ d.path = f /\ d.tab = p /\ d.then = "load"
           /\ calls' = calls \cup {d} /\ issued' = issued + 1
           /\ ed' = [ed EXCEPT ![p] = Opened(p, f, issued + 1)]
           /\ late' = IF ed[p].saving THEN late \cup {p} ELSE late
           /\ UNCHANGED <<fs, listing, made, clobbered>>
    BY <1>4, OpenEditorIs
  <2> DEFINE i == issued + 1
             e == Opened(p, f, i)
  <2>2. /\ e.file = f /\ e.loading /\ e.saving = ed[p].saving /\ e.open = i
        /\ e.kind = "none"
    <3>1. i \in Nat /\ f \in Maybe(Names)
      BY DEF Shapes, Maybe
    <3> HIDE DEF i
    <3> QED
      BY <3>1, OpenedIs
  <2>3. ed' = [ed EXCEPT ![p] = e]
    BY <2>1
  <2> HIDE DEF e
  <2>4. CASE q = p
    <3>1. d.st = "sent"
      BY <2>1 DEF Starting
    <3> QED
      BY <1>1, <2>1, <2>2, <2>3, <2>4, <3>1, Opening
  <2>5. CASE q # p
    <3>1. ed'[q] = ed[q] /\ (q \in late' <=> q \in late)
      BY <1>2, <2>1, <2>3, <2>5
    <3> QED
      BY <1>1, <2>1, <2>5, <3>1, Elsewhere
  <2> QED
    BY <2>4, <2>5
<1>5. CASE CloseEditor(p)
  <2> DEFINE e == [NoEditor EXCEPT !.loading = ed[p].loading, !.saving = ed[p].saving]
  <2>1. e.file = None /\ e.saving = ed[p].saving
    BY DEF NoEditor
  <2>2. ed' = [ed EXCEPT ![p] = e] /\ UNCHANGED <<fs, calls, late>>
    BY <1>5 DEF CloseEditor
  <2> HIDE DEF e
  <2>3. CASE q = p
    <3>1. ed'[q].file = None /\ ed'[q].saving = ed[q].saving
      BY <1>2, <2>1, <2>2, <2>3
    <3>2. ~Timely(q)'
      BY <3>1 DEF Timely
    <3> QED
      BY <1>1, <2>2, <3>1, <3>2 DEF EditedTab, Named, OneSave, Matches
  <2>4. CASE q # p
    BY <1>1, <1>2, <2>2, <2>4, Elsewhere
  <2> QED
    BY <2>3, <2>4
<1>6. CASE Type(p)
  <2>5. PICK t \in {0, made'} : ed' = [ed EXCEPT ![p].text = t]
    BY <1>6 DEF Type
  <2> DEFINE e == [ed[p] EXCEPT !.text = t]
  <2>1. /\ e.file = ed[p].file /\ e.kind = ed[p].kind /\ e.loading = ed[p].loading
        /\ e.saving = ed[p].saving /\ e.saved = ed[p].saved /\ e.of = ed[p].of /\ e.open = ed[p].open
    BY EditorsAre DEF Editors
  <2>2. ed' = [ed EXCEPT ![p] = e] /\ UNCHANGED <<fs, calls, late>>
    BY <1>6, <2>5 DEF Type
  <2> HIDE DEF e
  <2>3. CASE q = p
    <3>1. ed'[q] = e
      BY <1>2, <2>2, <2>3
    <3>2. /\ Timely(q)' <=> Timely(q)
          /\ Shown(q)' <=> Shown(q)
          /\ \A v : Holds(q, v)' <=> Holds(q, v)
          /\ \A c \in calls : c.tab = q => (Awaited(c)' <=> Awaited(c))
      BY <2>1, <2>2, <2>3, <3>1 DEF Timely, Shown, Holds, Awaited
    <3>3. Named(q)' /\ OneSave(q)'
      BY <1>1, <2>1, <2>2, <2>3, <3>1, <3>2 DEF EditedTab, Named, OneSave
    <3>4. Stored0(q) => Stored0(q)'
      BY <2>1, <2>2, <2>3, <3>1, <3>2 DEF Stored0
    <3>5. \A c \in calls : c.tab = q /\ Underway(c) => Underway(c)'
      BY <2>1, <2>2, <2>3, <3>1, <3>2 DEF Underway
    <3> QED
      BY <1>1, <2>2, <3>2, <3>3, <3>4, <3>5 DEF EditedTab, Matches
  <2>4. CASE q # p
    BY <1>1, <1>2, <2>2, <2>4, Elsewhere
  <2> QED
    BY <2>3, <2>4
<1>7. CASE SaveEditor(p)
  <2>1. PICK d :
           /\ Starting(d) /\ d.op = "save" /\ d.path = ed[p].file /\ d.of = ed[p].of
           /\ d.tab = p /\ d.then = "saved"
           /\ calls' = calls \cup {d}
           /\ ed' = [ed EXCEPT ![p].saving = TRUE]
           /\ UNCHANGED <<fs, late>>
    BY <1>7, SaveEditorIs
  <2>2. Shown(p) /\ ~ed[p].saving /\ d.st = "sent"
    BY <1>7, <2>1 DEF SaveEditor, Starting
  <2> DEFINE e == [ed[p] EXCEPT !.saving = TRUE]
  <2>3. /\ e.file = ed[p].file /\ e.kind = ed[p].kind /\ e.loading = ed[p].loading
        /\ e.saving = TRUE /\ e.saved = ed[p].saved /\ e.of = ed[p].of /\ e.open = ed[p].open
    BY EditorsAre DEF Editors
  <2>4. ed' = [ed EXCEPT ![p] = e]
    BY <2>1
  <2> HIDE DEF e
  <2>5. CASE q = p
    <3>1. ed'[q] = e
      BY <1>2, <2>4, <2>5
    <3>2. /\ Timely(q)' <=> Timely(q)
          /\ Shown(q)' <=> Shown(q)
          /\ \A v : Holds(q, v)' <=> Holds(q, v)
      BY <2>1, <2>3, <2>5, <3>1 DEF Timely, Shown, Holds
    \* No answer is awaited and no save is under way.
    <3>3. \A x \in calls : x.tab = q => x.then # "saved"
      BY <1>1, <2>2, <2>5 DEF EditedTab, OneSave
    <3>4. ASSUME Timely(q), NEW x \in calls', x.tab = q
          PROVE  ~Awaited(x)'
      <4>1. CASE x = d
        BY <2>1, <4>1 DEF Awaited
      <4>2. CASE x \in calls
        <5>1. Underway(x)
          BY <1>1, <3>4, <4>2 DEF EditedTab, Matches
        <5>2. ~Awaited(x)
          BY <2>2, <2>5, <3>4, <5>1 DEF Underway, Shown
        <5> QED
          BY <2>3, <2>5, <3>1, <3>4, <5>2 DEF Awaited
      <4> QED
        BY <2>1, <4>1, <4>2
    <3>5. Named(q)'
      <4>1. Timely(q) => ed[q].of = ed[q].file
        BY <1>1, <2>2, <2>5 DEF EditedTab, Named
      <4>2. \A x \in calls : x.tab = q /\ x.op = "save" /\ q \notin late => x.of = x.path
        BY <1>1 DEF EditedTab, Named
      <4>3. q \notin late => Timely(q)
        BY <2>2, <2>5 DEF Timely, Shown
      <4> QED
        BY <2>1, <2>3, <2>5, <3>1, <3>2, <3>4, <4>1, <4>2, <4>3 DEF Named
    <3>6. OneSave(q)'
      <4>1. ed'[q].saving
        BY <2>3, <3>1
      <4> QED
        BY <2>1, <3>3, <4>1 DEF OneSave
    <3>7. ASSUME Timely(q)
          PROVE  Stored0(q)'
      <4>1. Stored0(q)
        BY <1>1, <3>7 DEF EditedTab, Matches
      <4>2. Shown(q) => Holds(q, ed[q].saved)
        BY <3>3, <4>1 DEF Stored0, Saves
      <4> QED
        BY <2>3, <2>5, <3>1, <3>2, <4>2 DEF Stored0
    <3>8. ASSUME Timely(q), NEW x \in calls', x.tab = q
          PROVE  Underway(x)'
      <4>1. ~Awaited(x)'
        BY <3>4, <3>8
      <4>2. Saves(x) => x = d
        BY <2>1, <3>3, <3>8 DEF Saves
      <4>3. Saves(x) => Shown(q)' /\ x.path = ed'[q].file /\ x.st = "sent"
        BY <2>1, <2>2, <2>3, <2>5, <3>1, <3>2, <4>2
      <4> QED
        BY <3>8, <4>1, <4>3 DEF Underway
    <3> QED
      BY <3>2, <3>5, <3>6, <3>7, <3>8 DEF EditedTab, Matches
  <2>6. CASE q # p
    <3>1. ed'[q] = ed[q]
      BY <1>2, <2>4, <2>6
    <3> QED
      BY <1>1, <2>1, <2>6, <3>1, Elsewhere
  <2> QED
    BY <2>5, <2>6
<1> QED
  BY <1>3, <1>4, <1>5, <1>6, <1>7 DEF User, Submitting

\* The answer of an open call is there.
LEMMA OpenAnsweredEdits ==
  ASSUME Shapes, Numbered, NEW c \in calls, OpenAnswered(c), EditedTab(c.tab)
  PROVE  EditedTab(c.tab)'
<1> DEFINE p == c.tab
<1>1. /\ c.op = "get" /\ calls' = calls \ {c} /\ fs' = fs /\ p \in Tabs /\ ed[p] \in Editors
      /\ c.path \in Maybe(Names) /\ c.v \in Nat /\ ed \in [Tabs -> Editors]
      /\ late' = IF ed[p].file # None /\ ed[p].open # c.id THEN late \cup {p} ELSE late
  BY OpenAnsweredIs, CallsAre, EditorsAre DEF Shapes
<1>2. /\ ed'[p].file = ed[p].file /\ ed'[p].saving = ed[p].saving /\ ed'[p].open = ed[p].open
      /\ \/ /\ c.st = "ok" /\ ed'[p].kind = "text" /\ ed'[p].saved = c.v
            /\ ed'[p].of = c.path
         \/ ed'[p].kind = "error"
  <2> DEFINE e1 == [ed[p] EXCEPT !.loading = FALSE, !.kind = "text", !.text = c.v, !.saved = c.v,
                                 !.of = c.path]
             e2 == [ed[p] EXCEPT !.loading = FALSE, !.kind = "error"]
  <2>1. /\ e1.file = ed[p].file /\ e1.saving = ed[p].saving /\ e1.open = ed[p].open
        /\ e1.kind = "text" /\ e1.saved = c.v /\ e1.of = c.path
    BY <1>1 DEF Editors
  <2>2. e2.file = ed[p].file /\ e2.saving = ed[p].saving /\ e2.open = ed[p].open /\ e2.kind = "error"
    BY <1>1 DEF Editors
  <2>3. \/ c.st = "ok" /\ ed' = [ed EXCEPT ![p] = e1]
        \/ ed' = [ed EXCEPT ![p] = e2]
    BY OpenAnsweredIs
  <2> HIDE DEF e1, e2, p
  <2> QED
    BY <1>1, <2>1, <2>2, <2>3
<1> HIDE DEF p
\* A timely answer is the one that is awaited.
<1>3. ASSUME Timely(p)'
      PROVE  Timely(p) /\ Awaited(c) /\ Underway(c) /\ c.path = ed[p].file /\ ~ed[p].saving
  <2>1. Timely(p) /\ c.id = ed[p].open
    BY <1>1, <1>2, <1>3 DEF Timely
  <2>2. Awaited(c)
    BY <1>1, <2>1 DEF Awaited, p
  <2> QED
    BY <2>1, <2>2 DEF EditedTab, Matches, Named, Underway, p
<1>4. ASSUME Timely(p)', NEW x \in calls', x.tab = p
      PROVE  ~Awaited(x)'
  BY <1>1, <1>2, <1>3, <1>4 DEF Awaited, Numbered, p
<1>5. ASSUME Timely(p)', NEW x \in calls', x.tab = p
      PROVE  ~Saves(x)
  BY <1>1, <1>3, <1>5 DEF EditedTab, OneSave, Saves, p
<1>6. Named(p)'
  <2>1. Timely(p)' /\ Shown(p)' => ed'[p].of = ed'[p].file
    BY <1>2, <1>3 DEF Shown
  <2>2. \A x \in calls' : x.tab = p /\ x.op = "save" /\ p \notin late' => x.of = x.path
    BY <1>1 DEF EditedTab, Named, p
  <2> QED
    BY <1>4, <2>1, <2>2 DEF Named
<1>7. OneSave(p)'
  BY <1>1, <1>2 DEF EditedTab, OneSave, p
<1>8. ASSUME Timely(p)'
      PROVE  Stored0(p)'
  <2>1. \A v : Holds(p, v)' <=> Holds(p, v)
    BY <1>1, <1>2 DEF Holds
  <2>2. c.st = "ok" => Holds(p, c.v)
    BY <1>3, <1>8 DEF Underway, p
  <2> QED
    BY <1>2, <2>1, <2>2 DEF Stored0, Shown
<1>9. ASSUME Timely(p)', NEW x \in calls', x.tab = p
      PROVE  Underway(x)'
  BY <1>4, <1>5, <1>9 DEF Underway
<1> QED
  BY <1>6, <1>7, <1>8, <1>9 DEF EditedTab, Matches, p

\* The answer of a save is there.
LEMMA SaveAnsweredEdits ==
  ASSUME Shapes, Numbered, NEW c \in calls, SaveAnswered(c), EditedTab(c.tab)
  PROVE  EditedTab(c.tab)'
<1> DEFINE p == c.tab
<1>1. /\ c.op = "save" /\ c.then = "saved" /\ fs' = fs /\ p \in Tabs /\ ed[p] \in Editors
      /\ c.v \in Nat /\ ed \in [Tabs -> Editors]
      /\ late' = IF ed[p].file # None /\ ed[p].open # c.open THEN late \cup {p} ELSE late
  BY SaveAnsweredIs, CallsAre, EditorsAre DEF Shapes
<1>2. \/ /\ c.st = "ok"
         /\ ed' = [ed EXCEPT ![p].saved = c.v]
         /\ \E d : d.op = "list" /\ d.tab = p /\ d.then = "saved" /\ calls' = (calls \ {c}) \cup {d}
      \/ /\ c.st # "ok"
         /\ ed' = [ed EXCEPT ![p].kind = "error", ![p].saving = FALSE]
         /\ calls' = calls \ {c}
  BY SaveAnsweredIs
<1>3. ed[p].saving /\ Saves(c) /\ \A x \in calls : x.tab = p /\ x.then = "saved" => x = c
  BY <1>1 DEF EditedTab, OneSave, Saves, p
<1>4. /\ ed'[p].file = ed[p].file /\ ed'[p].open = ed[p].open /\ ed'[p].of = ed[p].of
      /\ ed'[p].loading = ed[p].loading
      /\ \/ /\ c.st = "ok" /\ ed'[p].kind = ed[p].kind /\ ed'[p].saved = c.v
            /\ ed'[p].saving = ed[p].saving
         \/ c.st # "ok" /\ ed'[p].kind = "error"
  <2> DEFINE e1 == [ed[p] EXCEPT !.saved = c.v]
             e2 == [ed[p] EXCEPT !.kind = "error", !.saving = FALSE]
  <2>1. /\ e1.file = ed[p].file /\ e1.saving = ed[p].saving /\ e1.open = ed[p].open
        /\ e1.kind = ed[p].kind /\ e1.saved = c.v /\ e1.of = ed[p].of /\ e1.loading = ed[p].loading
    BY <1>1 DEF Editors
  <2>2. /\ e2.file = ed[p].file /\ e2.open = ed[p].open /\ e2.kind = "error"
        /\ e2.of = ed[p].of /\ e2.loading = ed[p].loading
    BY <1>1 DEF Editors
  <2>3. \/ c.st = "ok" /\ ed'[p] = e1
        \/ c.st # "ok" /\ ed'[p] = e2
    BY <1>1, <1>2 DEF Editors
  <2> HIDE DEF e1, e2, p
  <2> QED
    BY <2>1, <2>2, <2>3
<1> HIDE DEF p
<1>5. \A x \in calls' : x \in calls \/ (x.op = "list" /\ x.then = "saved" /\ c.st = "ok")
  BY <1>2
<1>6. /\ Timely(p)' => Timely(p)
      /\ \A v : Holds(p, v)' <=> Holds(p, v)
      /\ \A x \in calls' : x.tab = p => (Awaited(x)' => x \in calls /\ Awaited(x))
      /\ \A x \in calls' : x.tab = p => ~Saves(x)
  <2>1. Timely(p)' => Timely(p)
    BY <1>1, <1>4 DEF Timely
  <2>2. \A v : Holds(p, v)' <=> Holds(p, v)
    BY <1>1, <1>4 DEF Holds
  <2>3. \A x \in calls' : x.tab = p => (Awaited(x)' => x \in calls /\ Awaited(x))
    BY <1>4, <1>5 DEF Awaited
  <2>4. \A x \in calls' : x.tab = p => ~Saves(x)
    BY <1>2, <1>3, <1>5 DEF Saves
  <2> QED
    BY <2>1, <2>2, <2>3, <2>4
<1>7. ASSUME Timely(p), NEW x \in calls, x.tab = p
      PROVE  ~Awaited(x)
  BY <1>3, <1>7 DEF EditedTab, Matches, Underway, p
<1>8. Named(p)'
  <2>1. Timely(p)' /\ Shown(p)' => ed'[p].of = ed'[p].file
    <3>1. Shown(p)' => Shown(p)
      BY <1>4 DEF Shown
    <3> QED
      BY <1>4, <1>6, <3>1 DEF EditedTab, Named, p
  <2>2. \A x \in calls' : x.tab = p /\ x.op = "save" /\ p \notin late' => x.of = x.path
    BY <1>1, <1>5 DEF EditedTab, Named, p
  <2> QED
    BY <1>6, <1>7, <2>1, <2>2 DEF Named
<1>9. OneSave(p)'
  <2>1. CASE c.st = "ok"
    BY <1>2, <1>3, <1>4, <2>1 DEF OneSave
  <2>2. CASE c.st # "ok"
    BY <1>2, <1>3, <2>2 DEF OneSave
  <2> QED
    BY <2>1, <2>2
<1>10. ASSUME Timely(p)'
       PROVE  Stored0(p)'
  <2>1. c.st = "ok" => Holds(p, c.v)
    BY <1>3, <1>6, <1>10 DEF EditedTab, Matches, Underway, p
  <2> QED
    BY <1>4, <1>6, <2>1 DEF Stored0, Shown
<1>11. ASSUME Timely(p)', NEW x \in calls', x.tab = p
       PROVE  Underway(x)'
  BY <1>6, <1>7, <1>11 DEF Underway
<1> QED
  BY <1>8, <1>9, <1>10, <1>11 DEF EditedTab, Matches, p

\* The folder is loaded again after a save.
LEMMA SavedListed ==
  ASSUME Shapes, NEW c \in calls, c.op = "list", c.then = "saved", EditedTab(c.tab),
         fs' = fs, late' = late, calls' = calls \ {c}, ed' = [ed EXCEPT ![c.tab].saving = FALSE]
  PROVE  EditedTab(c.tab)'
<1> DEFINE p == c.tab
           e == [ed[p] EXCEPT !.saving = FALSE]
<1>1. p \in Tabs /\ ed[p] \in Editors /\ ed \in [Tabs -> Editors]
  BY CallsAre, EditorsAre DEF Shapes
<1>2. /\ e.file = ed[p].file /\ e.kind = ed[p].kind /\ e.loading = ed[p].loading
      /\ e.saved = ed[p].saved /\ e.of = ed[p].of /\ e.open = ed[p].open
  BY <1>1 DEF Editors
<1>3. ed'[p] = e
  BY <1>1
<1> HIDE DEF p, e
<1>4. ed[p].saving /\ \A x \in calls : x.tab = p /\ x.then = "saved" => x = c
  BY DEF EditedTab, OneSave, p
<1>5. /\ Timely(p)' <=> Timely(p)
      /\ Shown(p)' <=> Shown(p)
      /\ \A v : Holds(p, v)' <=> Holds(p, v)
      /\ \A x \in calls : x.tab = p => (Awaited(x)' <=> Awaited(x))
  BY <1>2, <1>3 DEF Timely, Shown, Holds, Awaited
<1>6. ASSUME Timely(p), NEW x \in calls, x.tab = p
      PROVE  ~Awaited(x)
  BY <1>4, <1>6 DEF EditedTab, Matches, Underway, p
<1>7. \A x \in calls' : x.tab = p => ~Saves(x) /\ x.then # "saved"
  BY <1>4 DEF Saves
<1>8. Named(p)'
  <2>1. Timely(p)' /\ Shown(p)' => ed'[p].of = ed'[p].file
    BY <1>2, <1>3, <1>5 DEF EditedTab, Named, p
  <2>2. \A x \in calls' : x.tab = p /\ x.op = "save" /\ p \notin late' => x.of = x.path
    BY DEF EditedTab, Named, p
  <2> QED
    BY <1>5, <1>6, <2>1, <2>2 DEF Named
<1>9. OneSave(p)'
  BY <1>7 DEF OneSave
<1>10. ASSUME Timely(p)
       PROVE  Stored0(p)'
  <2>1. Stored0(p)
    BY <1>10 DEF EditedTab, Matches, p
  <2>2. Shown(p) => Holds(p, ed[p].saved)
    BY <1>4, <2>1 DEF Stored0, Saves
  <2> QED
    BY <1>2, <1>3, <1>5, <2>2 DEF Stored0
<1>11. ASSUME Timely(p), NEW x \in calls', x.tab = p
       PROVE  Underway(x)'
  BY <1>5, <1>6, <1>7, <1>11 DEF Underway
<1> QED
  BY <1>5, <1>8, <1>9, <1>10, <1>11 DEF EditedTab, Matches, p

LEMMA AnswerEdits ==
  ASSUME Shapes, Numbered, Edited, NEW c \in calls, Answer(c), NEW q \in Tabs
  PROVE  EditedTab(q)'
<1>1. EditedTab(q) /\ EditedTab(c.tab) /\ c.tab \in Tabs
  BY CallsAre DEF Edited, EditedTab
<1>2. ed \in [Tabs -> Editors]
  BY DEF Shapes
<1>3. CASE OpenAnswered(c)
  <2>1. CASE q = c.tab
    BY <1>1, <1>3, <2>1, OpenAnsweredEdits
  <2>2. CASE q # c.tab
    <3>1. fs' = fs /\ ed'[q] = ed[q] /\ (q \in late' <=> q \in late) /\ calls' = calls \ {c}
      BY <1>2, <1>3, <2>2, OpenAnsweredIs
    <3> QED
      BY <1>1, <2>2, <3>1, Elsewhere
  <2> QED
    BY <2>1, <2>2
<1>4. CASE SaveAnswered(c)
  <2>1. CASE q = c.tab
    BY <1>1, <1>4, <2>1, SaveAnsweredEdits
  <2>2. CASE q # c.tab
    <3>1. fs' = fs
      BY <1>4, SaveAnsweredIs
    <3>2. q \in late' <=> q \in late
      <4>1. late' = IF ed[c.tab].file # None /\ ed[c.tab].open # c.open THEN late \cup {c.tab} ELSE late
        BY <1>4, SaveAnsweredIs
      <4> QED
        BY <2>2, <4>1
    <3>3. \/ ed' = [ed EXCEPT ![c.tab].saved = c.v]
          \/ ed' = [ed EXCEPT ![c.tab].kind = "error", ![c.tab].saving = FALSE]
      BY <1>4, SaveAnsweredIs
    <3>4. ed'[q] = ed[q]
      BY <1>1, <1>2, <2>2, <3>3
    <3>5. /\ \A e \in calls' : e.tab = q => e \in calls
          /\ \A e \in calls : e.tab = q => e \in calls'
      BY <1>4, <2>2, SaveAnsweredIs
    <3> QED
      BY <1>1, <3>1, <3>2, <3>5, <3>4, Elsewhere
  <2> QED
    BY <2>1, <2>2
<1>5. CASE Answered(c)
  <2>1. /\ fs' = fs /\ ed' = ed /\ late' = late /\ ~Saves(c)
        /\ \A e \in calls' : e \in calls \/ Plainly(e)
        /\ \A e \in calls : e = c \/ e \in calls'
    BY <1>5, AnsweredIs DEF Saves
  <2> QED
    BY <1>1, <2>1, Elsewhere
<1>6. CASE Listed(c)
  <2>1. c.op = "list" /\ fs' = fs /\ ~Saves(c)
    BY <1>6, ListedIs DEF Saves
  <2>2. CASE c.then = "create"
    <3>1. PICK d : /\ Starting(d) /\ d.op = "get" /\ d.path = c.path /\ d.tab = c.tab
                   /\ d.then = "load" /\ calls' = (calls \ {c}) \cup {d}
      BY <1>6, <2>2, ListedIs
    <3> DEFINE i == issued + 1
               p == c.tab
               f == c.path
               e == Opened(p, f, i)
    <3>2. /\ e.file = c.path /\ e.loading /\ e.saving = ed[c.tab].saving
          /\ e.open = i /\ e.kind = "none"
      <4>1. i \in Nat /\ f \in Maybe(Names) /\ p \in Tabs
        BY CallsAre DEF Shapes
      <4> HIDE DEF i, p, f
      <4>2. /\ e.file = f /\ e.loading /\ e.saving = ed[p].saving
            /\ e.open = i /\ e.kind = "none"
        BY <4>1, OpenedIs
      <4> QED
        BY <4>2 DEF p, f
    <3>3. ed' = [ed EXCEPT ![c.tab] = e] /\ late' = IF ed[c.tab].saving THEN late \cup {c.tab} ELSE late
      BY <1>6, <2>2, ListedIs
    <3> HIDE DEF e
    <3>4. CASE q = c.tab
      <4>1. calls' \subseteq calls \cup {d} /\ d.st = "sent"
        BY <3>1 DEF Starting
      <4> QED
        BY <1>1, <2>1, <3>1, <3>2, <3>3, <3>4, <4>1, Opening
    <3>5. CASE q # c.tab
      <4>1. ed'[q] = ed[q] /\ (q \in late' <=> q \in late)
        BY <1>2, <3>3, <3>5
      <4> QED
        BY <1>1, <2>1, <3>1, <3>5, <4>1, Elsewhere
    <3> QED
      BY <3>4, <3>5
  <2>3. CASE c.then # "create"
    <3>1. calls' = calls \ {c} /\ late' = late
      BY <1>6, <2>3, ListedIs
    <3>2. ed' = IF c.then = "saved" THEN [ed EXCEPT ![c.tab].saving = FALSE] ELSE ed
      BY <1>6, <2>3, ListedIs
    <3>3. CASE c.then = "saved" /\ q = c.tab
      <4>1. ed' = [ed EXCEPT ![c.tab].saving = FALSE]
        BY <3>2, <3>3
      <4> QED
        BY <1>1, <2>1, <3>1, <3>3, <4>1, SavedListed
    <3>4. CASE c.then # "saved" \/ q # c.tab
      <4>1. ed'[q] = ed[q]
        BY <1>2, <3>2, <3>4
      <4> QED
        BY <1>1, <2>1, <3>1, <4>1, Elsewhere
    <3> QED
      BY <3>3, <3>4
  <2> QED
    BY <2>2, <2>3
<1> QED
  BY <1>3, <1>4, <1>5, <1>6 DEF Answer

LEMMA HostEdits ==
  ASSUME Shapes, Numbered, Edited, NEW c \in calls, NEW d, HostStep(c, d), UNCHANGED <<ed, late>>,
         NEW q \in Tabs
  PROVE  EditedTab(q)'
<1>1. EditedTab(q)
  BY DEF Edited, EditedTab
<1>2. /\ d.id = c.id /\ d.tab = c.tab /\ d.op = c.op /\ d.path = c.path /\ d.of = c.of
      /\ d.then = c.then /\ calls' = (calls \ {c}) \cup {d} /\ Folder(c, Editor(c))
      /\ (c.op \in {"get", "list"} => fs' = fs)
      /\ (c.op = "get" /\ d.st = "ok" => c.path \in DOMAIN fs /\ d.v = fs[c.path].v)
      /\ (c.op = "save" => Written(c, d))
  BY DEF HostStep, Moved
<1>3. d.st # "sent"
  BY DEF HostStep, Moved, Before
<1>4. /\ Timely(q)' <=> Timely(q)
      /\ Shown(q)' <=> Shown(q)
      /\ Awaited(d)' <=> Awaited(c)
      /\ \A e \in calls : Awaited(e)' <=> Awaited(e)
  BY <1>2 DEF Timely, Shown, Awaited
<1>5. Named(q)'
  <2>1. Timely(q) /\ Shown(q) => ed[q].of = ed[q].file
    BY <1>1 DEF EditedTab, Named
  <2>2. ASSUME NEW e \in calls, e.tab = q
        PROVE  /\ e.op = "save" /\ q \notin late => e.of = e.path
               /\ Timely(q) /\ Awaited(e) => e.path = ed[q].file
    BY <1>1, <2>2 DEF EditedTab, Named
  <2>3. ASSUME NEW e \in calls', e.tab = q
        PROVE  /\ e.op = "save" /\ q \notin late => e.of = e.path
               /\ Timely(q) /\ Awaited(e)' => e.path = ed[q].file
    <3>1. CASE e = d
      BY <1>2, <1>4, <2>2, <2>3, <3>1
    <3>2. CASE e \in calls
      BY <1>4, <2>2, <2>3, <3>2
    <3> QED
      BY <1>2, <3>1, <3>2
  <2> QED
    BY <1>4, <2>1, <2>3 DEF Named
<1>6. OneSave(q)'
  <2>1. \A e \in calls : e.tab = q /\ e.then = "saved" => ed[q].saving
    BY <1>1 DEF EditedTab, OneSave
  <2>2. \A x, y \in calls : x.tab = q /\ x.then = "saved" /\ y.tab = q /\ y.then = "saved" => x = y
    BY <1>1 DEF EditedTab, OneSave
  <2> QED
    BY <1>2, <2>1, <2>2 DEF OneSave
\* Who has changed a file is on it.
<1>7. \A n \in DOMAIN fs' : Same(n) \/ fs'[n].by = Editor(c)
  BY <1>2 DEF Folder, Kept, Same
<1>8. CASE Saves(c) /\ c.tab = q
  <2>1. ed[q].saving /\ \A e \in calls : e.tab = q /\ e.then = "saved" => e = c
    BY <1>1, <1>8 DEF EditedTab, OneSave, Saves
  <2>2. Stored0(q)'
    BY <1>2, <1>3, <1>8 DEF Stored0, Saves
  <2>3. ASSUME Timely(q), NEW e \in calls', e.tab = q
        PROVE  Underway(e)'
    <3>1. Underway(c) /\ \A x \in calls : x.tab = q => ~Awaited(x)
      BY <1>1, <1>8, <2>1, <2>3 DEF EditedTab, Matches, Underway
    <3>2. ~Awaited(e)'
      BY <1>2, <1>4, <1>8, <2>3, <3>1
    <3>3. CASE e = d
      <4>1. Shown(q) /\ c.path = ed[q].file
        BY <1>8, <3>1 DEF Underway
      <4>2. Written(c, d)
        BY <1>2, <1>8 DEF Saves
      <4>3. d.st = "open" => fs'[c.path].ino = d.ino /\ fs'[c.path].v = 0
        BY <4>2 DEF Written
      <4>4. ASSUME d.st = "ok", c.path \in DOMAIN fs', fs'[c.path].by = q
            PROVE  fs'[c.path].v \in {d.v, Garbled}
        <5>1. /\ c.st = "open" /\ c.path \in DOMAIN fs /\ d.v = c.v
              /\ \/ fs'[c.path].v \in {c.v, Garbled}
                 \/ fs'[c.path] = fs[c.path] /\ (fs[c.path].ino = c.ino => c.v = 0)
          BY <4>2, <4>4 DEF Written
        <5>2. fs'[c.path] = fs[c.path] => fs[c.path].ino = c.ino /\ fs[c.path].v = 0
          BY <1>8, <3>1, <4>1, <4>4, <5>1 DEF Underway
        <5> QED
          BY <5>1, <5>2
      <4>5. d.st = "ok" => Holds(q, d.v)'
        BY <4>1, <4>4 DEF Holds
      <4> QED
        BY <1>2, <1>4, <1>8, <3>2, <3>3, <4>1, <4>3, <4>5 DEF Underway
    <3>4. CASE e # d
      <4>1. ~Saves(e)
        BY <1>2, <2>1, <2>3, <3>4 DEF Saves
      <4> QED
        BY <3>2, <4>1 DEF Underway
    <3> QED
      BY <3>3, <3>4
  <2> QED
    BY <1>4, <1>5, <1>6, <2>2, <2>3 DEF EditedTab, Matches
<1>9. CASE ~(Saves(c) /\ c.tab = q)
  <2>1. ASSUME NEW n \in DOMAIN fs', fs'[n].by = q
        PROVE  n \in DOMAIN fs /\ fs'[n] = fs[n]
    <3>1. CASE fs' = fs
      BY <3>1
    <3>2. CASE fs' # fs
      <4>1. c.then = "saved" => Saves(c)
        BY <1>2, <3>2, CallsAre DEF Sound, Saves
      <4>2. Editor(c) # q
        BY <1>9, <4>1, FilesNameAssumption DEF Editor
      <4> QED
        BY <1>7, <2>1, <4>2 DEF Same
    <3> QED
      BY <3>1, <3>2
  <2>2. \A v : Holds(q, v) => Holds(q, v)'
    BY <2>1 DEF Holds
  <2>3. ASSUME Timely(q)
        PROVE  Stored0(q)'
    <3>1. Stored0(q)
      BY <1>1, <2>3 DEF EditedTab, Matches
    <3>2. \A x \in calls : Saves(x) /\ x.tab = q => x \in calls'
      BY <1>2, <1>9
    <3> QED
      BY <1>4, <2>2, <3>1, <3>2 DEF Stored0
  <2>4. ASSUME Timely(q), NEW e \in calls', e.tab = q
        PROVE  Underway(e)'
    <3>1. CASE e \in calls
      <4>1. Underway(e)
        BY <1>1, <2>4, <3>1 DEF EditedTab, Matches
      <4>2. /\ Saves(e) => Shown(q)' /\ e.path = ed'[q].file
            /\ Saves(e) /\ e.st = "ok" => Holds(q, e.v)'
            /\ Awaited(e)' => ed'[q].loading /\ ~ed'[q].saving
            /\ Awaited(e)' /\ e.st = "ok" => Holds(q, e.v)'
        BY <1>4, <2>2, <2>4, <3>1, <4>1 DEF Underway
      <4>3. /\ Saves(e) /\ e.st = "open" /\ ed[q].file \in DOMAIN fs' /\ fs'[ed[q].file].by = q
            => fs'[ed[q].file].ino = e.ino /\ fs'[ed[q].file].v = 0
        BY <2>1, <2>4, <4>1 DEF Underway
      <4> QED
        BY <2>4, <4>2, <4>3 DEF Underway
    <3>2. CASE e = d
      <4>1. Underway(c) /\ c.tab = q
        BY <1>1, <1>2, <2>4, <3>2 DEF EditedTab, Matches
      <4>2. ~Saves(d)
        BY <1>2, <1>9, <4>1 DEF Saves
      <4>3. Awaited(d)' => ed[q].loading /\ ~ed[q].saving
        BY <1>4, <4>1 DEF Underway
      <4>4. ASSUME Awaited(d)', d.st = "ok"
            PROVE  Holds(q, d.v)'
        <5>1. c.op = "get" /\ fs' = fs /\ d.v = fs[c.path].v
          BY <1>2, <1>4, <4>4 DEF Awaited
        <5>2. c.path = ed[q].file
          BY <1>1, <1>4, <2>4, <4>1, <4>4 DEF EditedTab, Named
        <5> QED
          BY <5>1, <5>2 DEF Holds
      <4> QED
        BY <2>4, <3>2, <4>2, <4>3, <4>4 DEF Underway
    <3> QED
      BY <1>2, <3>1, <3>2
  <2> QED
    BY <1>4, <1>5, <1>6, <2>3, <2>4 DEF EditedTab, Matches
<1> QED
  BY <1>8, <1>9

----------------------------------------------------------------------------
(* The inductive invariant *)

IInv == Shapes /\ Numbered /\ Distinct /\ Newer /\ Edited

LEMMA InitIInv == Init => IInv
<1> SUFFICES ASSUME Init PROVE IInv
  OBVIOUS
<1>1. PICK kind \in {"file", "dir"} :
        fs = [n \in Stored |-> [kind |-> kind, v |-> 0, by |-> None, ino |-> <<0, n>>, born |-> 0]]
  BY DEF Init
<1>2. /\ DOMAIN fs = Stored
      /\ \A n \in Stored : /\ fs[n] \in File /\ fs[n].ino = <<0, n>> /\ fs[n].born = 0 /\ fs[n].by = None
  <2>1. \A n \in Stored : <<0, n>> \in Inodes
    BY FilesNameAssumption DEF Inodes
  <2>2. None \in Maybe(Tabs)
    BY DEF Maybe
  <2> QED
    BY <1>1, <2>1, <2>2 DEF File
<1>3. FsOK
  BY <1>1, <1>2, FilesNameAssumption DEF FsOK
<1>4. NoEditor \in Editors
  <2>1. None \in Maybe(Names)
    BY DEF Maybe
  <2> QED
    BY <2>1 DEF NoEditor, Editors
<1>5. Shapes
  BY <1>3, <1>4, FilesNameAssumption DEF Init, Shapes
<1>6. Distinct
  BY <1>2 DEF Init, Distinct
<1>7. \A p \in Tabs : ~Timely(p) /\ ~Shown(p)
  BY DEF Init, Timely, Shown, NoEditor
<1>8. Edited
  BY <1>7 DEF Init, Edited, EditedTab, Named, OneSave, Matches
<1> QED
  BY <1>5, <1>6, <1>8 DEF Init, IInv, Numbered, Newer

LEMMA NextIInv == IInv /\ [Next]_vars => IInv'
<1> SUFFICES ASSUME IInv, [Next]_vars PROVE IInv'
  OBVIOUS
<1> USE DEF IInv
<1>1. CASE \E p \in Tabs : User(p)
  <2>1. PICK p \in Tabs : User(p)
    BY <1>1
  <2>2. Shapes' /\ PageStep
    BY <2>1, UserShapes
  <2>3. \A q \in Tabs : EditedTab(q)'
    BY <2>1, UserEdits
  <2> QED
    BY <2>2, <2>3, PageNumbered, PageDistinct, PageNewer DEF Edited, EditedTab
<1>2. CASE \E c \in calls : Answer(c)
  <2>1. PICK c \in calls : Answer(c)
    BY <1>2
  <2>2. Shapes' /\ PageStep
    BY <2>1, AnswerShapes
  <2>3. \A q \in Tabs : EditedTab(q)'
    BY <2>1, AnswerEdits
  <2> QED
    BY <2>2, <2>3, PageNumbered, PageDistinct, PageNewer DEF Edited, EditedTab
<1>3. CASE \E c \in calls : Handler(c)
  <2>1. PICK c \in calls : Handler(c)
    BY <1>3
  <2>2. UNCHANGED <<listing, ed, made, late>>
    BY <2>1, HandlerIs
  <2>3. PICK d : HostStep(c, d)
    BY <2>1, HandlerIs
  <2>4. Shapes' /\ Numbered' /\ Distinct' /\ Newer'
    BY <2>2, <2>3, HostShapes, HostNumbered, HostDistinct, HostNewer
  <2>5. \A q \in Tabs : EditedTab(q)'
    BY <2>2, <2>3, HostEdits
  <2> QED
    BY <2>4, <2>5 DEF Edited, EditedTab
<1>4. CASE UNCHANGED vars
  <2> USE <1>4 DEF vars
  <2>1. Shapes' /\ Numbered' /\ Distinct' /\ Newer'
    BY DEF Shapes, FsOK, Numbered, Distinct, Newer, IsFile
  <2>2. \A q \in Tabs : EditedTab(q)'
    BY Elsewhere DEF Edited, EditedTab
  <2> QED
    BY <2>1, <2>2 DEF Edited, EditedTab
<1> QED
  BY <1>1, <1>2, <1>3, <1>4 DEF Next

LEMMA Inductive == Spec => []IInv
BY InitIInv, NextIInv, PTL DEF Spec

----------------------------------------------------------------------------
(* The theorems *)

\* The folder and the calls of the handlers of files.rs stay well formed: a
\* file has one name, and a call of Files.tsx one answer.
THEOREM TypesOfHostFiles == Spec => []TypeOK
<1>1. IInv => TypeOK
  BY DEF IInv, Shapes, FsOK, Distinct, Numbered, TypeOK
<1> QED
  BY <1>1, Inductive, PTL

\* Once a handler of files.rs has looked, all that it may overwrite or remove
\* has come after its call, the clean-up of a failed upload-url included.
THEOREM OlderFilesAreSpared == Spec => []Spared
<1>1. IInv => Spared
  BY DEF IInv, Newer, Spared
<1> QED
  BY <1>1, Inductive, PTL

\* The text that the editor of Files.tsx stores was opened under the name it
\* is stored under, whatever order the answers come in, unless one was late.
THEOREM SavesKeepTheirName == Spec => []OwnText
<1>1. IInv => OwnText
  <2> SUFFICES ASSUME IInv, NEW c \in calls, c.op = "save", c.tab \notin late
               PROVE  c.of = c.path
    BY DEF OwnText
  <2>1. c.tab \in Tabs
    BY CallsAre DEF IInv
  <2> QED
    BY <2>1 DEF IInv, Edited, EditedTab, Named
<1> QED
  BY <1>1, Inductive, PTL

\* An editor of Files.tsx that shows no unsaved change shows what the host
\* stores, if no other hand has written the file since and no answer was late:
\* never another text, though two writes at once may have left a mixture.
THEOREM CleanEditorsShowTheFile == Spec => []CleanMeansStored
<1>1. IInv => CleanMeansStored
  <2> SUFFICES ASSUME IInv, NEW p \in Tabs \ late, Shown(p), ed[p].text = ed[p].saved, ~ed[p].saving,
                      ed[p].file \in DOMAIN fs, fs[ed[p].file].by = p
               PROVE  fs[ed[p].file].v \in {ed[p].text, Garbled}
    BY DEF CleanMeansStored
  <2>1. Timely(p) /\ OneSave(p) /\ Matches(p)
    BY DEF IInv, Edited, EditedTab, Timely, Shown
  <2>2. \A c \in calls : ~(Saves(c) /\ c.tab = p)
    BY <2>1 DEF OneSave, Saves
  <2>3. Holds(p, ed[p].saved)
    BY <2>1, <2>2 DEF Matches, Stored0
  <2> QED
    BY <2>3 DEF Holds
<1> QED
  BY <1>1, Inductive, PTL
=============================================================================
