-------------------------------- MODULE HostFiles --------------------------------
(***************************************************************************)
(* The Files page of the browser (src/cli/frontend/src/pages/Files.tsx)    *)
(* and the handlers of /api/files (src/cli/backend/src/files.rs) over one  *)
(* folder.                                                                 *)
(*                                                                         *)
(* A handler of the page runs to its next await: it sends a call, and its  *)
(* rest runs when the answer is there, whatever the page shows by then.  A *)
(* handler of the host looks at the folder and acts in separate steps; a   *)
(* file is opened (and emptied) and filled in two.  Contents are numbers,  *)
(* 0 is the empty file, Garbled one that is no text as it was sent; "ino"  *)
(* follows a file through renames.                                         *)
(***************************************************************************)
EXTENDS Naturals, FiniteSets, Functions

CONSTANTS
  Tabs,       \* Files pages that are open
  Names,      \* the names in the folder
  Stored,     \* those taken at first
  None,       \* no file, no tab
  Ops,        \* what the users do
  MaxCalls,   \* bound: calls a user starts
  MaxTexts    \* bound: texts typed

ASSUME FilesNameAssumption == Stored \subseteq Names /\ None \notin Names \cup Tabs
ASSUME FilesBoundAssumption == MaxCalls \in Nat /\ MaxTexts \in Nat

VARIABLES
  fs,       \* name -> file or folder
  listing,  \* tab -> the names of data.entries
  ed,       \* tab -> the editor
  busy,     \* tab -> busy, or the busy flag of the dialog that is open
  calls,    \* calls and answers under way
  issued,   \* calls so far
  made,     \* texts so far
  late,     \* tabs whose editor met the answer of an earlier use of it
  clobbered \* a handler that refuses to overwrite destroyed a file it had to see

vars == <<fs, listing, ed, busy, calls, issued, made, late, clobbered>>

NoEditor == [file |-> None, kind |-> "none", text |-> 0, saved |-> 0, of |-> None,
             loading |-> FALSE, saving |-> FALSE, open |-> 0]

\* The content of uploads and archives.
Foreign == MaxTexts + 1

\* What is cut short, or has the end of another content behind it.
Garbled == MaxTexts + 2

Refusing == {"rename", "copy", "upload", "url", "zip", "mkdir"}

Call(p, op, path) ==
  [id |-> issued + 1, tab |-> p, op |-> op, path |-> path, to |-> None, v |-> 0, of |-> None,
   then |-> "load", rest |-> {}, names |-> {}, open |-> 0, ino |-> None, st |-> "sent"]

Send(c) == calls' = calls \cup {c} /\ issued' = c.id
Replace(c, d) == calls' = (calls \ {c}) \cup {d} /\ UNCHANGED issued
Reply(c, st) == Replace(c, [c EXCEPT !.st = st])
FollowUp(c, d) == calls' = (calls \ {c}) \cup {d} /\ issued' = d.id
Forget(c) == calls' = calls \ {c} /\ UNCHANGED issued

Starts(p, op) == op \in Ops /\ issued < MaxCalls /\ ~busy[p] /\ ed[p].file = None
Submits(p, c) == Send(c) /\ busy' = [busy EXCEPT ![p] = TRUE] /\ UNCHANGED <<fs, listing, ed, made, late, clobbered>>

---------------------------------------------------------------------------
(* The page: every submit handler up to its first await. *)

Load(p) == Starts(p, "load") /\ Submits(p, Call(p, "list", None))

SubmitRename(p) ==
  /\ Starts(p, "rename")
  /\ \E f \in listing[p] : \E n \in Names \ {f} : Submits(p, [Call(p, "rename", f) EXCEPT !.to = n])

\* The dialog asks for any name but its own; a move is a rename.
SubmitTransfer(p) ==
  /\ \E mode \in {"copy", "rename"} : \E f \in listing[p] : \E n \in Names \ {f} :
       Starts(p, mode) /\ Submits(p, [Call(p, mode, f) EXCEPT !.to = n])

\* suggestCopyName picks a name that is not listed.
SubmitDuplicate(p) ==
  /\ Starts(p, "copy")
  /\ \E f \in listing[p], n \in Names \ listing[p] : Submits(p, [Call(p, "copy", f) EXCEPT !.to = n])

SubmitDelete(p) ==
  /\ Starts(p, "delete")
  /\ \E f \in listing[p] : Submits(p, Call(p, "delete", f))

\* One call after the other, whatever they return.
SubmitBulkDelete(p) ==
  /\ Starts(p, "delete")
  /\ \E S \in SUBSET listing[p] : \E f \in S :
       Submits(p, [Call(p, "delete", f) EXCEPT !.rest = S \ {f}, !.then = "bulk"])

SubmitLocalUpload(p) ==
  /\ Starts(p, "upload")
  /\ \E S \in SUBSET Names : \E n \in S :
       Submits(p, [Call(p, "upload", None) EXCEPT !.to = n, !.rest = S \ {n}, !.v = Foreign, !.then = "bulk"])

SubmitUrlUpload(p) ==
  /\ Starts(p, "url")
  /\ \E n \in Names : Submits(p, [Call(p, "url", None) EXCEPT !.to = n, !.v = Foreign])

SubmitBulkZip(p) ==
  /\ Starts(p, "zip")
  /\ \E f \in listing[p], n \in Names : Submits(p, [Call(p, "zip", f) EXCEPT !.to = n, !.v = Foreign])

SubmitExtract(p) ==
  /\ Starts(p, "unzip")
  /\ \E f \in listing[p] : Submits(p, [Call(p, "unzip", f) EXCEPT !.v = Foreign])

\* A folder by mkdir, a file by saving an empty text: only the listing says
\* whether the name is taken.
SubmitCreate(p) ==
  /\ Starts(p, "create")
  /\ \E n \in Names \ listing[p] :
       \/ Submits(p, [Call(p, "mkdir", None) EXCEPT !.to = n])
       \/ Submits(p, [Call(p, "save", n) EXCEPT !.then = "create", !.of = n])

---------------------------------------------------------------------------
(* The editor. *)

\* Faulty variant: the text of the last file stays until the new one is there.
OpenedOver(p, f, id) == [ed[p] EXCEPT !.file = f, !.open = id]

Opened(p, f, id) == [NoEditor EXCEPT !.file = f, !.loading = TRUE, !.saving = ed[p].saving, !.open = id]

\* From the list, or Retry on the banner of an error.
OpenEditor(p) ==
  /\ "edit" \in Ops /\ issued < MaxCalls
  /\ \E f \in IF ed[p].file = None THEN listing[p]
              ELSE IF ed[p].kind = "error" /\ ~ed[p].loading THEN {ed[p].file} ELSE {} :
       /\ Send(Call(p, "get", f))
       /\ ed' = [ed EXCEPT ![p] = Opened(p, f, issued')]
  /\ late' = IF ed[p].saving THEN late \cup {p} ELSE late
  /\ UNCHANGED <<fs, listing, busy, made, clobbered>>

\* A second click when the text is not saved.
CloseEditor(p) ==
  /\ ed[p].file # None
  /\ ed' = [ed EXCEPT ![p] = [NoEditor EXCEPT !.loading = ed[p].loading, !.saving = ed[p].saving]]
  /\ UNCHANGED <<fs, listing, busy, calls, issued, made, late, clobbered>>

Shown(p) == ed[p].file # None /\ ed[p].kind = "text" /\ ~ed[p].loading

\* A new text, or all of it is deleted.
Type(p) ==
  /\ Shown(p) /\ ~ed[p].saving /\ made < MaxTexts /\ made' = made + 1
  /\ \E t \in {0, made'} : ed' = [ed EXCEPT ![p].text = t]
  /\ UNCHANGED <<fs, listing, busy, calls, issued, late, clobbered>>

SaveEditor(p) ==
  LET e == ed[p] IN
  /\ Shown(p) /\ e.text # e.saved /\ ~e.saving
  /\ Send([Call(p, "save", e.file) EXCEPT !.v = e.text, !.of = e.of, !.then = "saved", !.open = e.open])
  /\ ed' = [ed EXCEPT ![p].saving = TRUE]
  /\ UNCHANGED <<fs, listing, busy, made, late, clobbered>>

\* The answer is not compared with the file that is open now.
OpenAnswered(c) ==
  LET p == c.tab
      e == [ed[p] EXCEPT !.loading = FALSE]
  IN
  /\ c.op = "get" /\ Forget(c)
  /\ ed' = [ed EXCEPT ![p] = IF c.st = "ok" THEN [e EXCEPT !.kind = "text", !.text = c.v, !.saved = c.v, !.of = c.path]
                             ELSE [e EXCEPT !.kind = "error"]]
  /\ late' = IF e.file # None /\ e.open # c.id THEN late \cup {p} ELSE late
  /\ UNCHANGED <<fs, listing, busy, made, clobbered>>

Relist(c, then) == [Call(c.tab, "list", c.path) EXCEPT !.then = then]

\* Faulty variant: res.ok is not looked at.
SaveTaken(c) ==
  LET p == c.tab IN
  /\ c.op = "save" /\ c.then = "saved"
  /\ ed' = [ed EXCEPT ![p].saved = c.v] /\ FollowUp(c, Relist(c, "saved"))
  /\ late' = IF ed[p].file # None /\ ed[p].open # c.open THEN late \cup {p} ELSE late
  /\ UNCHANGED <<fs, listing, busy, made, clobbered>>

SaveAnswered(c) ==
  LET p == c.tab IN
  /\ c.op = "save" /\ c.then = "saved"
  /\ IF c.st = "ok"
     THEN ed' = [ed EXCEPT ![p].saved = c.v] /\ FollowUp(c, Relist(c, "saved"))
     ELSE ed' = [ed EXCEPT ![p].kind = "error", ![p].saving = FALSE] /\ Forget(c)
  /\ late' = IF ed[p].file # None /\ ed[p].open # c.open THEN late \cup {p} ELSE late
  /\ UNCHANGED <<fs, listing, busy, made, clobbered>>

---------------------------------------------------------------------------
(* The page: what follows an answer. *)

\* The next file of a bulk delete or upload.
NextOf(c) ==
  /\ c.rest # {} /\ UNCHANGED busy
  /\ \E n \in c.rest :
       FollowUp(c, [c EXCEPT !.id = issued + 1, !.st = "sent", !.rest = @ \ {n}, !.ino = None,
                             !.path = IF c.op = "delete" THEN n ELSE @,
                             !.to = IF c.op = "upload" THEN n ELSE @])

\* Success loads the folder again, and so does the end of a bulk call.
Answered(c) ==
  /\ c.op \in Refusing \cup {"delete", "unzip"} \/ (c.op = "save" /\ c.then = "create")
  /\ \/ NextOf(c)
     \/ /\ c.rest = {} /\ (c.st = "ok" \/ c.then = "bulk")
        /\ FollowUp(c, Relist(c, IF c.then = "create" THEN "create" ELSE "load")) /\ UNCHANGED busy
     \/ /\ c.st = "fail" /\ c.then # "bulk"
        /\ Forget(c) /\ busy' = [busy EXCEPT ![c.tab] = FALSE]
  /\ UNCHANGED <<fs, listing, ed, made, late, clobbered>>

\* submitCreate opens the new file in the editor, over any other one.
Listed(c) ==
  LET p == c.tab IN
  /\ c.op = "list" /\ listing' = [listing EXCEPT ![p] = c.names]
  /\ busy' = IF c.then = "saved" THEN busy ELSE [busy EXCEPT ![p] = FALSE]
  /\ IF c.then = "create"
     THEN /\ FollowUp(c, Call(p, "get", c.path))
          /\ ed' = [ed EXCEPT ![p] = Opened(p, c.path, issued')]
          /\ late' = IF ed[p].saving THEN late \cup {p} ELSE late
     ELSE /\ Forget(c) /\ UNCHANGED late
          /\ ed' = IF c.then = "saved" THEN [ed EXCEPT ![p].saving = FALSE] ELSE ed
  /\ UNCHANGED <<fs, made, clobbered>>

---------------------------------------------------------------------------
(* The host. *)

IsFile(n) == n \in DOMAIN fs /\ fs[n].kind = "file"
IsDir(n) == n \in DOMAIN fs /\ fs[n].kind = "dir"
Entry(c, kind, v, by) == [kind |-> kind, v |-> v, by |-> by, ino |-> <<c.id, c.st>>, born |-> issued]
Put(n, e) == [x \in DOMAIN fs \cup {n} |-> IF x = n THEN e ELSE fs[x]]
Host(c) == UNCHANGED <<listing, ed, busy, made, late>>

\* A call that came after the file had this name was bound to refuse.
Destroys(c, n) == clobbered' = (clobbered \/ (IsFile(n) /\ c.id > fs[n].born))

\* open(O_CREAT | O_TRUNC): a file keeps its identity.
Truncated(c, n, by) ==
  Put(n, IF n \in DOMAIN fs THEN [fs[n] EXCEPT !.v = 0, !.by = by] ELSE Entry(c, "file", 0, by))

\* Bytes go to the file that was opened, under the name it has by now.
Filled(c, v, by) ==
  [n \in DOMAIN fs |-> IF fs[n].ino = c.ino THEN [fs[n] EXCEPT !.v = v, !.by = by] ELSE fs[n]]

\* They go to its beginning: of what another write has put there since it was
\* emptied, the end may stay.  No bytes change nothing.
Fills(c, by) ==
  \/ fs' = IF c.v = 0 THEN fs ELSE Filled(c, c.v, by)
  \/ /\ \E n \in DOMAIN fs : fs[n].ino = c.ino /\ fs[n].v \notin {0, c.v}
     /\ c.v # 0 /\ fs' = Filled(c, Garbled, by)

ListFiles(c) ==
  /\ c.op = "list" /\ Replace(c, [c EXCEPT !.names = DOMAIN fs, !.st = "ok"])
  /\ UNCHANGED <<fs, clobbered>>

ReadContent(c) ==
  /\ c.op = "get"
  /\ IF IsFile(c.path) THEN Replace(c, [c EXCEPT !.v = fs[c.path].v, !.st = "ok"]) ELSE Reply(c, "fail")
  /\ UNCHANGED <<fs, clobbered>>

DeleteFile(c) ==
  /\ c.op = "delete" /\ UNCHANGED clobbered
  /\ IF c.path \in DOMAIN fs THEN fs' = Restrict(fs, DOMAIN fs \ {c.path}) /\ Reply(c, "ok")
     ELSE UNCHANGED fs /\ Reply(c, "fail")

\* The call opens its file.
Opens(c, n, v, by) ==
  /\ ~IsDir(n)
  /\ fs' = Truncated(c, n, by)
  /\ Replace(c, [c EXCEPT !.st = IF @ = "open" THEN "again" ELSE "open", !.v = v, !.ino = fs'[n].ino])

Editor(c) == IF c.then = "saved" THEN c.tab ELSE None

SaveContent(c) ==
  /\ c.op = "save" /\ UNCHANGED clobbered
  /\ \/ Opens(c, c.path, c.v, Editor(c))
     \/ IsDir(c.path) /\ Reply(c, "fail") /\ UNCHANGED fs

\* Faulty variant: only what the call reads is looked for.
RefusesLess(c) ==
  /\ c.op \in Refusing /\ UNCHANGED <<fs, clobbered>>
  /\ IF c.op \in {"rename", "copy", "zip"} => c.path \in DOMAIN fs
     THEN Reply(c, "checked") ELSE Reply(c, "fail")

\* The check of rename, copy, mkdir, upload, upload-url and zip-many.
Refuses(c) ==
  /\ c.op \in Refusing /\ UNCHANGED <<fs, clobbered>>
  /\ IF c.to \notin DOMAIN fs /\ (c.op \in {"rename", "copy", "zip"} => c.path \in DOMAIN fs)
     THEN Reply(c, "checked") ELSE Reply(c, "fail")

\* Faulty variant: the old name stays.
RenameLinks(c) ==
  /\ c.op = "rename"
  /\ IF c.path \in DOMAIN fs /\ c.to \notin DOMAIN fs
     THEN fs' = Put(c.to, fs[c.path]) /\ Reply(c, "ok") ELSE Reply(c, "fail") /\ UNCHANGED fs
  /\ UNCHANGED clobbered

RenameFile(c) ==
  /\ c.op = "rename"
  /\ LET gone == c.path \notin DOMAIN fs
         mixed == c.to \in DOMAIN fs /\ ~gone /\ fs[c.to].kind # fs[c.path].kind
     IN IF gone \/ mixed THEN Reply(c, "fail") /\ UNCHANGED <<fs, clobbered>>
        ELSE /\ fs' = Restrict(Put(c.to, [fs[c.path] EXCEPT !.born = issued, !.by = None]),
                               (DOMAIN fs \cup {c.to}) \ {c.path})
             /\ Destroys(c, c.to) /\ Reply(c, "ok")

MakesDir(c) ==
  IF IsFile(c.to) THEN Reply(c, "fail") /\ UNCHANGED fs
  ELSE fs' = (IF c.to \in DOMAIN fs THEN fs ELSE Put(c.to, Entry(c, "dir", 0, None))) /\ Reply(c, "ok")

CopyFile(c) ==
  /\ c.op = "copy"
  /\ \/ IsFile(c.path) /\ Opens(c, c.to, fs[c.path].v, None) /\ Destroys(c, c.to)
     \/ IsDir(c.path) /\ MakesDir(c) /\ UNCHANGED clobbered
     \/ /\ c.path \notin DOMAIN fs \/ (IsFile(c.path) /\ IsDir(c.to))
        /\ Reply(c, "fail") /\ UNCHANGED <<fs, clobbered>>

Mkdir(c) == c.op = "mkdir" /\ MakesDir(c) /\ UNCHANGED clobbered

Upload(c) ==
  /\ c.op = "upload"
  /\ \/ Opens(c, c.to, c.v, None) /\ Destroys(c, c.to)
     \/ IsDir(c.to) /\ Reply(c, "fail") /\ UNCHANGED <<fs, clobbered>>

\* The write ends, or the disk is full, after some of the bytes maybe.
WriteEnds(c) ==
  /\ c.st = "open" /\ c.op \in {"save", "upload", "copy"} /\ UNCHANGED clobbered
  /\ \/ Fills(c, Editor(c)) /\ Reply(c, "ok")
     \/ fs' \in {fs, Filled(c, Garbled, Editor(c))} /\ Reply(c, "fail")

\* remove_file of whatever has the name.
Removes(c) ==
  /\ fs' = (IF IsFile(c.to) THEN Restrict(fs, DOMAIN fs \ {c.to}) ELSE fs)
  /\ Destroys(c, c.to) /\ Reply(c, "fail")

\* curl, then wget: each opens the file when its data comes.
UploadUrl(c) ==
  /\ c.op = "url" /\ c.st \in {"checked", "open", "again"}
  /\ \/ c.st # "again" /\ Opens(c, c.to, c.v, None) /\ Destroys(c, c.to)
     \/ c.st # "checked" /\ Fills(c, None) /\ Reply(c, "ok") /\ UNCHANGED clobbered
     \/ Removes(c)

\* zip writes elsewhere and renames; an existing file it adds to or chokes on.
ZipMany(c) ==
  /\ c.op = "zip"
  /\ \/ /\ c.to \notin DOMAIN fs \/ IsFile(c.to)
        /\ fs' = Put(c.to, Entry(c, "file", c.v, None)) /\ Destroys(c, c.to) /\ Reply(c, "ok")
     \/ Removes(c)

\* unzip -n: a member that is there is left alone.  An archive has one member.
Unzip(c) ==
  /\ c.op = "unzip" /\ UNCHANGED clobbered
  /\ \/ IsFile(c.path) /\ \E n \in Names :
          /\ fs' = IF n \in DOMAIN fs THEN fs ELSE Put(n, Entry(c, "file", c.v, None))
          /\ Reply(c, "ok")
     \/ UNCHANGED fs /\ Reply(c, "fail")

---------------------------------------------------------------------------
Init ==
  /\ \E kind \in {"file", "dir"} : fs = [n \in Stored |-> [kind |-> kind, v |-> 0, by |-> None, ino |-> <<0, n>>, born |-> 0]]
  /\ listing = [p \in Tabs |-> Stored] /\ ed = [p \in Tabs |-> NoEditor]
  /\ busy = [p \in Tabs |-> FALSE] /\ calls = {} /\ issued = 0 /\ made = 0
  /\ late = {} /\ clobbered = FALSE

User(p) ==
  \/ Load(p) \/ SubmitRename(p) \/ SubmitTransfer(p) \/ SubmitDuplicate(p)
  \/ SubmitDelete(p) \/ SubmitBulkDelete(p)
  \/ SubmitLocalUpload(p) \/ SubmitUrlUpload(p) \/ SubmitBulkZip(p) \/ SubmitExtract(p)
  \/ SubmitCreate(p) \/ OpenEditor(p) \/ CloseEditor(p) \/ Type(p) \/ SaveEditor(p)

Handler(c) ==
  /\ Host(c)
  /\ \/ c.st = "sent" /\ (ListFiles(c) \/ ReadContent(c) \/ DeleteFile(c) \/ SaveContent(c) \/ Refuses(c) \/ Unzip(c))
     \/ c.st = "checked" /\ (RenameFile(c) \/ CopyFile(c) \/ Mkdir(c) \/ Upload(c) \/ ZipMany(c))
     \/ WriteEnds(c) \/ UploadUrl(c)

Answer(c) ==
  /\ c.st \in {"ok", "fail"}
  /\ OpenAnswered(c) \/ SaveAnswered(c) \/ Answered(c) \/ Listed(c)

Next == (\E p \in Tabs : User(p)) \/ (\E c \in calls : Handler(c) \/ Answer(c))

Spec == Init /\ [][Next]_vars
---------------------------------------------------------------------------
(* Properties. *)

\* The state stays well formed; a file has one name.
TypeOK ==
  /\ DOMAIN fs \subseteq Names
  /\ \A m, n \in DOMAIN fs : fs[m].ino = fs[n].ino => m = n
  /\ \A p \in Tabs : listing[p] \subseteq Names
  /\ \A c, d \in calls : c.id = d.id => c = d

\* A save stores under a name the text that was opened under it, as edited:
\* unless the answer of an earlier open came after a later one began.
OwnText ==
  \A c \in calls : c.op = "save" => c.of = c.path \/ c.tab \in late

\* An editor without unsaved changes shows the file, if the file was last
\* written by its own tab and no save is under way: the text, or what a write
\* that had the file open at the same time has left of it.  No other text.
CleanMeansStored ==
  \A p \in Tabs \ late :
    LET f == ed[p].file IN
    /\ Shown(p) /\ ed[p].text = ed[p].saved /\ ~ed[p].saving
    /\ f \in DOMAIN fs /\ fs[f].by = p
    => fs[f].v \in {ed[p].text, Garbled}

\* A handler that refuses to overwrite, its clean-up after a failure included,
\* destroys no file that had its name before the call was made.
Spared == ~clobbered
=============================================================================
