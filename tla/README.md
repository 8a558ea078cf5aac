# KS SSH: a TLA+ model of shells, the relay, the tunnel room, accounts and files

KS SSH serves the shells, files and settings of one host to browser tabs. A Rust program on the host
(`src/cli/backend`, "the CLI") runs the shells and an HTTP/WebSocket API; a React app (`src/cli/frontend`) is the
tab. A tab reaches the host directly, or through a Cloudflare worker (`src/cf`): one Durable Object per token, the
*tunnel room*, joins the CLI's outgoing WebSocket (the *agent*) to the tabs (*viewers*, or *clients*), and both
ends encrypt what passes through it.

This directory holds TLA+ specifications of the concurrent parts, instances for TLC, and proofs for TLAPS.
Everything is run from this directory: `tlasany M.tla`, `tlc -workers 2 -config C.cfg M`, `tlapm M.tla`.

## 1. The system

| Component | Source | State it keeps | Operations |
|---|---|---|---|
| Shell session | `backend/src/shell.rs` | `Session`: ring, `ring_base`, `offset`, `dead`, `epoch`, `sub`; PTY, child | reader thread, child watcher, attach, replay, forward, takeover, release, kill, reap |
| Session registry | `shell.rs` | `SESSIONS` map, `last_active` | `get_or_create_session`, eviction over `MAX_SESSIONS`, `persist_session`, persister, `load_persisted` |
| SQLite store | `db.rs` | session rows, audit log, recording frames, chat | upserts, deletes, `rec_append`, pruning |
| Terminal tab | `frontend/src/pages/Terminal.tsx` | `offRef`, `v2Ref`, screen, exit flag, retry timer | connect with `from`, ready, frame trimming, close codes |
| Sealed channel | `backend/src/e2e.rs`, `frontend/src/relay-e2e.ts` | key, session, epoch, a counter per direction | seal, open |
| Relay agent | `relay.rs` | connection epoch, `E2e`, `peer`, pending uploads, shell bridges | reconnect, hello, requests, responses in parts, UI upload |
| Relay shim | `frontend/src/relay-shim.ts` | handshake, channel, presence, pending requests, shell sockets | ensure, upgrade, route, rpc, time out |
| Tunnel room | `cf/worker/room.ts` | `agent`, `clients`, caps, gate, UI (memory and storage), flood buckets | join, replace, leave, wake, relay, UI upload |
| Router, rate limits | `cf/worker/index.ts`, `limit.ts` | fixed windows per address | route, count |
| Authentication | `auth.rs` | `Inner` behind one mutex: users, sessions, rate buckets; `users.json`; `OidcState` | login, lockout, second factor, account changes, OpenID |
| Files API | `files.rs` | the file system | list, read, save, create, rename, copy, delete, upload, fetch, pack, unpack |
| Files page | `frontend/src/pages/Files.tsx` | listing, editor, a dialog's busy flag | one handler per button, each split at its awaits |
| Host, ports, chat, UI bundle | `host.rs`, `ports.rs`, `chat.rs`, `ui.rs` | little beyond the operating system | handlers |
| Startup | `main.rs`, `banner.rs` | options | wiring |
| Web pages | `cf/src`, `frontend/src/pages` | view state | presentation |

How they interact:

- *Tab and session.* A socket is one call of `handle_socket`. It takes the session's `sub` slot (one subscriber at
  most; the previous one is sent `Takeover`), replays the ring from the tab's `from`, then forwards what the
  reader thread pushes into its bounded channel. Reader, watcher, kill request, reaper and sockets share
  `Session`, in which *each field has a lock of its own*.
- *Agent, room and shim.* The agent connects out and says hello; the room keeps a copy of that hello for viewers
  that come later, tells viewers about the agent's presence, forwards what viewers send to the agent, and
  broadcasts what the agent sends to all viewers. The agent has one pair of counters for all of them.
- *Shim and browser crypto.* WebCrypto is asynchronous. Socket messages, requests and finished crypto calls
  interleave at every `await`.
- *Sockets, registry and store.* A socket looks its session up in `SESSIONS` or spawns one, outside the map's lock.
  Kill requests, the reaper and the eviction take sessions out of the map and then, in later steps, reap the child
  and delete the row; the creator, the persister and the reader's last flush write the row. Map and database have
  separate locks.
- *Requests and accounts.* Each request is a thread that takes the one mutex several times, and writes `users.json`
  after it has let go of it.
- *Page and files.* What a page does next depends on answers that may come after the user has moved on; two pages
  and the host's handlers, which look at the disk and act in separate steps, share one folder.
- *Room and platform.* A Durable Object may be evicted between any two events. Its sockets and its storage
  survive, its fields do not.

### What is hard, and what makes it correct

- **Shell session.** Labels and bytes must agree although offset, ring and ring base change under separate locks;
  nothing may fall between replay and live stream; a takeover must leave exactly one owner; everybody must hear of
  the end of the shell, through a bounded channel.
- **Terminal tab.** After any number of reconnects the screen is a prefix of the output.
- **Sealed channel, agent and shim.** A number may be used once per connection and direction, across page loads and
  reconnects; every request must come to an end without waiting for its 120 s timer, also when the agent goes.
- **Shells over the relay.** Keystrokes and output must survive bridges that are still being made, timers and
  reconnects without a gap; a socket that was closed must stay closed and hold no shell.
- **Tunnel room.** Presence, caps and the served UI must be right across replacement and eviction; the flood guard
  must not hit legitimate traffic.
- **Registry and store.** No shell may run outside the registry; a listed session must have its row, whoever
  writes and deletes meanwhile; a killed one must not come back.
- **Authentication.** After a change of password, role or account only the sessions it means to keep may remain; the
  users file must end up with the last change, also after a save that failed; the number of guesses per window is
  bounded; a recovery code is good for one login.
- **Files.** A save must store under a name only text that belongs to it; an editor that shows no unsaved changes
  must show what is stored; handlers that refuse to overwrite must not destroy what they saw.

`PROJECT.json` lists each hazard at its line, with the property that covers it or the reason why none does yet.

## 2. The modules

| Module | What it is |
|---|---|
| `ShellSession` | one session with its threads, sockets and tabs |
| `TerminalStream` | abstract: every tab shows a growing prefix of one stream of bytes |
| `MCShellSession` | its instances: `_stream`, `_follow`, `_end` |
| `ShellSession_proofs` | its types, offset accounting, no gap, one late frame, and that it implements `TerminalStream` |
| `SessionRegistry` | the map of sessions, the rows in SQLite, everybody who adds to or removes from either, and crashes |
| `MCSessionRegistry` | its instances: `_any`, `_killed` |
| `SessionRegistry_proofs` | its types, no shell escapes the registry, what is listed has its row |
| `SealedRelay` | the agent's connection, the channel at both ends, the shim; the room as queues |
| `MCSealedRelay` | its instances: `_any`, `_seq` |
| `SealedRelay_proofs` | its types, no wait for an agent that is gone |
| `ShellBridges` | terminals over the relay: the page's socket, the agent's bridge, the link and the agent that come and go |
| `MCShellBridges` | its instance: `_any` |
| `ShellBridges_proofs` | the relay's close is final |
| `ShellBridgesOrder_proofs` | its types, keystrokes and output arrive in order, without a gap |
| `TunnelRoom` | the room, with agents and viewers that come and go, and eviction |
| `MCTunnelRoom` | its instance: `_pair` |
| `TunnelRoom_proofs` | its types, presence, caps and served UI |
| `Accounts` | accounts, sessions, lockout, second factors, OpenID and `users.json`, lock by lock |
| `MCAccounts` | its instances: `_changes`, `_logins` |
| `Accounts_proofs` | its types, the file, sessions, the budget of guesses, recovery codes |
| `HostFiles` | Files pages and the handlers of the host over one folder |
| `MCHostFiles` | its instance: `_any` |
| `HostFiles_proofs` | its types, no older file destroyed, saves keep their name, clean editors show the file |

The modules called `..._proofs` hold for every value of the constants (section 4).

Operators called `...Unsaturated`, `...Untrimmed`, `...Late` and so on, each headed "Faulty variant", belong to no
specification. Each is the definition below it with one plausible mistake; with the mistake in place the property
it is meant for fails.

### 2.1 ShellSession

| Variables | In the code |
|---|---|
| `ring`, `ringBase`, `offset`, `dead`, `epoch`, `sub` | the fields of `Session` (`shell.rs` 227-254) |
| `inMap`, `childAlive`, `killer` | entry of `SESSIONS`, the child process, progress of kill or reap |
| `reader`, `watcher` | the two threads of `spawn_session`: program counter, claimed chunk, cloned sender |
| `pc`, `my`, `snap`, `chan`, `sent`, `late` | the locals of each `handle_socket`; the last two are history for properties |
| `net`, `tab`, `open`, `off`, `screen`, `exited` | frames in flight, and the tab: `offRef` and what it has written |

The byte at position *p* of the output is the number *p*. A frame carries the interval of bytes it really contains
*and* the offset it is labelled with, so a wrong label is visible; so is a replay that is longer than its label.

Each action is what one thread does between two places at which another may run. The reader is `ReaderClaim`
(`offset.fetch_add`), `ReaderPush` (ring and base, both locked), `ReaderTake` (clone the sender), `ReaderSend`
(`blocking_send`). Attach is `Bump`, `ReplaceSub`, `SnapRing`, `SnapBase`, `SendReady`, `CheckDead`; forwarding is
`Loop` (compare the epoch) and then `Forward`, `ForwardEof` or `ForwardTakeover`; `release` is `ReleaseCheck` and
`ReleaseTake`.

`TerminalStream` is what `shell.rs` 22-27 promises. `StreamRefined` maps `produced` to `offset` and `screen` to
`screen`.

Abstractions. `SendReady` reads the head once where the code reads it again for the `seq` of ready: the head only
grows and the tab uses `seq` only to lower a watermark that is above it. `send_task.abort()` takes effect at once
although the task ends at its next await, and a return path that skips the send task keeps its receiver alive
until `release` is through; both only shorten the life of a channel nobody reads. Input, resize, acknowledgements,
recording and pings are left out, except that any message from the browser lets a superseded socket notice.

### 2.2 SealedRelay

| Variables | In the code |
|---|---|
| `online`, `epoch`, `tx`, `rx`, `peer`, `greeting`, `task` | `run_agent`, `agent_session`, its `E2e` and `SharedPeer`, how far it is with a client hello, `proxy_rpc` tasks |
| `caps`, `toAgent`, `toViewer` | `lastAgentHello` of the room; messages in flight through the room |
| `link`, `connects`, `known`, `presence` | `RelayConnection`: socket and `helloDone`, `agentEpoch`, `agentOnline` |
| `chans`, `making`, `buffer`, `drain` | `this.e2e` and earlier channel objects, creations under way, `upgradePending`, what `upgradeLate` still has to open |
| `opening`, `sealing` | calls of `open` and `seal` that await the crypto |
| `req`, `got` | `pending` and the parts that have arrived |

A `seal` is two steps because the code takes the seq *after* the encryption; an `open` is two because the code
compares the seq *before* the decryption and counts after it. An envelope opens exactly under the epoch and the
seq it was sealed for: the cipher itself is assumed to be perfect, and all viewers have the right key.

The agent answers a client hello in three steps: it stores the peer (`HelloNoted`), resets both counters
(`HelloReset`) and sends its own hello (`HelloReply`). Its message loop is busy until then, but the tasks that serve
requests are not: they seal before the reset, between reset and reply, and after it.

Abstractions. The room's two hops are one queue per direction. The hello is sent when the socket opens (the
fingerprint it carries is awaited, but nothing can be received that depends on it). Requests have no body.
`upgradePending` holds 32 envelopes, more than an instance ever has in flight. The agent is online at first: the
CLI prints the link a tab is opened with when it starts. `run_agent` waits longer after each failure; how long does not
matter here.

### 2.3 TunnelRoom

| Variables | In the code |
|---|---|
| `agent`, `clients`, `gated`, `caps`, `pending`, `ui`, `loaded`, `count` | the fields of `TunnelRoom` (`room.ts` 34-53), lost by an eviction |
| `stored` | the UI in the object's storage |
| `sock` | what the platform knows of each socket, and `getWebSockets` returns |
| `step`, `owes` | where an agent is: hello, ui-begin, ui-chunks, ui-end, answers |
| `told`, `seen`, `newest` | history: the presence a viewer was told last, the agent whose caps it was sent last, the last complete upload |

Every handler is one step: the only awaits in them are storage calls, and the platform delivers no event while one
is pending. An upload is the name of the agent each chunk came from, so a mixed upload is visible. The loaded UI
may differ from the stored one only when a put fails (`StorageFails`).

Two assumptions about the platform are worth naming. A socket that the room has closed delivers nothing more, and
no eviction happens until its close handshake is over. The second one is optimistic, and the code relies on it:
`getWebSockets` may return a socket that is closing, and an object that wakes up takes the first agent it is given
(`room.ts` 58-65).

### 2.4 ShellBridges

A page that runs over the relay gets a `RelaySocket` instead of a WebSocket. It registers with the connection once
`ensure` and the PIN are through, and asks the agent to open a bridge: a task with a loopback WebSocket to the
agent's own server, and an entry in a map that belongs to one connection of the agent.

| Variable | Code |
|---|---|
| `ready`, `opened`, `timers` | `readyState`, `opened`, the open timer and the 2 s timer of `close` (`relay-shim.ts` 868-1027) |
| `want`, `reg` | where `openShell` waits (745-777); `RelayConnection.shells` |
| `link`, `presence` | the browser's socket, `agentOnline` |
| `line`, `conn`, `home` | `agent_session`: in its loop, after it, over; which connection; which one a bridge belongs to |
| `bridge`, `hold`, `inq` | the task of `spawn_shell_bridge` (`relay.rs` 738-869); its entry in the map; `in_rx` |
| `room`, `toAgent`, `toViewer` | the room as two queues and what it believes of the agent |
| `typed`, `got`, `out`, `shown`, `ends`, `told` | history: what was typed, received, put out, shown; close events, and who sent them |

`OnShellOpen` only starts the task; `Insert` is the task's first step, `Dialed` its second, so that a keystroke, a
close, or the teardown (`AgentClear`) may come in between. The room may learn that the agent is gone (`RoomNotices`)
or find out when the next connection replaces the last (`AgentConnect`), which the browser is not told. Sealing is
left out: `SealedRelay` says when envelopes keep their order. What the server does with a loopback socket (output,
`Takeover`, exit, breakdown) is free; `ShellSession` models it.

### 2.5 SessionRegistry

| Variables | In the code |
|---|---|
| `sessions` | `SESSIONS`, by id |
| `id`, `child`, `dirty`, `sub`, `recent` | `Session.id`, `.child`, `.dirty`, `.sub`; `recent` is the strict order of the sessions by `.last_active`, as pairs (older, newer) |
| `reader` | the PTY reader thread, as far as its final flush |
| `conn`, `kill`, `persist`, `rm`, `wr` | where `handle_socket`, `api_kill_term`, the persister, each task that removes sessions and each call of `persist_session` stand |
| `rows` | the ids in the `sessions` table |
| `lapsed` | history: ids taken out, refused by SQLite or pruned since they were last written with no delete to come |
| `made`, `restarts` | bounds |

A session is a number, so that one id may name several of them in turn. `get_or_create_session` is `LookUp` (the
fast path), `Spawn` or `SpawnFails` (outside the lock), and `JoinWinner` or `Insert` (the second look, with the
choice of victims); what it and the others take out is reaped and deleted one session after the other by `Reap` and
`Delete`. `PersistSession` writes the row (`UpsertRow`) and clears the dirty flag whatever SQLite said: `with_db`
prints an error and goes on (`db.rs` 137-147). A round of the reaper ends with `Prune` (`shell.rs` 923), which
deletes rows by their age (`db.rs` 295-314) and so also the row of a session that is listed, because a terminal that
is attached and silent is not written. `Restart` is a crash at any moment followed by `load_persisted`.

`LookUp` and `Attach` are separate because `handle_socket` locks nothing in between. A placeholder session (the PTY
could not be had) is never listed and is left out with its socket. Time is an order: `ReaperRound` takes the
detached sessions that are at least as old as one of them, whichever that is.

### 2.6 Accounts

| Variables | In the code |
|---|---|
| `acct`, `sess`, `rate` | `Inner.users` with the owner's fields as one more account, `.sessions`, the buckets of one address |
| `file` | `users.json`: accounts, or text that does not parse |
| `pending`, `held` | `OidcState.pending`; that a thread waits for the mutex it holds |
| `th` | the request each thread serves: where it stands, what it has read and been asked |
| `mirror` | history: whether the saves have kept the file what memory is (`good`), one is under way that will make it so (`mending`), or neither (`bad`) |
| `guesses`, `spent`, `anomaly` | history for the properties |

Each action is one hold of the mutex. A login is `LoginVerified`, perhaps `LoginMigrate`, `LoginTotp` and
`LoginRecover`, then `LoginSuccess` and `LoginMint`; a change of the accounts is one action that ends in `Changed`
(clone, unlock) followed by `OpenFile` and `WriteFile`, because `fs::write` truncates first. Either step may fail, for
want of a folder, a right or space; `persist` prints that and the request succeeds all the same (`auth.rs` 616-618),
with the file stale, empty or cut short. A password is a number and a hash is its password; a second factor is the
number of its enrolment. Time is nondeterministic: a lockout, a session or a pending OpenID login may expire at any
moment. Callers of the administrator's routes are admitted by the role of their session's account at that moment, as
the middleware does. They type the owner's password as it is when they ask; the check comes later and may fail.

`anomaly` collects what the code does nothing about, so that the properties can say that nothing *else* goes wrong:
`lost` (the host restarted when the file was not what memory was), `migrate` (the upgrade of an old hash wrote a password
back that had been changed since) and `respent`, the failure `RecoveryOnce` is about.

### 2.7 HostFiles

| Variables | In the code |
|---|---|
| `fs` | the folder; `ino` follows a file through renames, `by` is the page that wrote it last |
| `listing`, `ed`, `busy` | `data.entries`, the editor's state variables, the busy flags of a page |
| `calls` | requests and answers under way, with the locals of the handler at either end |
| `late`, `clobbered` | history for the properties |

A handler of the page runs to its next `await`: `Submit...`, `OpenEditor` and `SaveEditor` send a call, and
`OpenAnswered`, `SaveAnswered`, `Answered`, `NextOf` (bulk calls) and `Listed` are what follows an answer, whatever
the page shows by then. On the host a handler that refuses to overwrite is `Refuses` (the check) and then its
effect; writing a file is `Opens` (create or truncate) and `WriteEnds`. `fs::write` (`files.rs` 689) truncates at
the open and nowhere else, and writes from the start: of two writes at once the shorter, if it is last, leaves the end
of the longer, and a disk may be full in the middle of one. Both leave `Garbled`. Other contents are numbers, an
archive has one member, and names lie in one folder. Navigation is left out: another folder is another set of names.

## 3. The runs

### Runs that pass

| Run | Checks | Instance | Shows |
|---|---|---|---|
| `shell_stream` | `TypeOK`, `OffsetAccount`, `NoHole`, `OneLateFrame` | 2 sockets, 1 tab, ring of 2, channel of 1, 3 bytes in reads of up to 2 | chunks overflow the ring and the channel blocks the reader while two sockets take the session from each other: the accounting is exact, no byte falls between replay and live stream, a superseded socket sends at most one more frame |
| `shell_follow` | `StreamRefined`, `TabCatchesUp` | 2 sockets in turn, no eviction (2 bytes, ring of 2), channel of 1 | the tab's screen is a prefix of the output across a reconnect, and a tab that keeps its socket ends up with everything, although the reader has to wait for sockets that come and go |
| `shell_end` | `NobodyLingers` | 2 sockets; exit, kill and reap; room in the channel | attaching while the shell ends, in any order: everybody is told |
| `sealed_any` | `TypeOK`, `FailFast` | 1 tab that may open twice, 1 request of 2 parts, 1 reconnect | with crypto of any delay, no request waits for an agent that is gone |
| `bridges_any` | `TypeOK`, `TypedInOrder`, `ShownInOrder`, `FinalWord`, `Released` | 1 socket, 2 keystrokes, 2 pieces of output, 2 connections of the agent, 2 of the browser, both timers at any time | what reaches the shell and what reaches the page are prefixes of what was sent; the relay's close is final; closing an open terminal releases its shell |
| `room_pair` | `TypeOK`, `PresenceTold`, `FreshCaps`, `UiCurrent` | 2 agents, 2 viewers, windows of 3 messages, uploads of 2 chunks, 1 eviction anywhere | presence and UI are right across replacement, flooding and eviction; once an agent has said hello no viewer is left with the caps of another |
| `registry_any` | `TypeOK`, `NoOrphan`, `HistoryKept` | 2 ids, 2 sockets, 1 kill, reaper, persister, a registry of 1, 2 sessions per life, 1 crash, any statement refused, any row pruned | a shell that runs is listed, about to be, or about to be reaped; what is listed has its row, except for ids taken out, refused or pruned and not written since |
| `accounts_changes` | `TypeOK`, `SessionsCurrent`, `FileSettled` | 2 threads, 3 requests, owner and 2 names, 2 passwords, 1 restart | a change leaves the sessions it means to keep and those of logins that had already verified; the file is what is in memory unless a save failed or two overlapped, and none that had the file for itself has ended well since |
| `accounts_logins` | `GuessBudget`, `RecoveryOnce` | 2 threads, 4 requests, owner and 1 name, 1 enrolment, 1 restart | the lockout is overrun by no more than the requests under way; a recovery code opens one session, unless a restart finds a file that the saves had spoilt |
| `files_any` | `TypeOK`, `OwnText`, `CleanMeansStored`, `Spared` | 2 pages, 2 names, 2 calls and all that follow from them, 2 texts | no text is stored under the name of another file, an editor without changes whose page wrote last shows what is stored, or two writes at once have mixed, refusing handlers destroy nothing they had to see |

`CHECK_DEADLOCK FALSE` is in every cfg: when all sockets and requests have been used and the bounds are reached,
nothing is left to do.

### 3.1 The runs that show a disagreement

| Run | Property | What the code does |
|---|---|---|
| `registry_killed` | `Forgotten` | `api_kill_term` reaps the child and deletes the row; the reader thread wakes up and flushes the session once more (`shell.rs` 393): the row is back, and so is the terminal after a restart |
| `sealed_seq` | `SeqRises` | every client hello resets the agent's counters (`relay.rs` 1205) within the epoch and with responses under way: a tab that comes back in the middle of one has the rest of it sealed with numbers that were used before (1 tab, 2 page loads, 1 response of 3 parts) |

The findings in `PROJECT.json` quote the comments that say otherwise.

### 3.2 Further disagreements

The modules state these properties, and the code does not keep them. No cfg is kept for them; each is found in
seconds by the run named, with the constants changed as shown and the property as the only one.

| Property | From the cfg | Changed | What the code does |
|---|---|---|---|
| `NoDuplicationOrSilentLoss` | `_stream` | `ChanCap = 2` | the ring is copied under one lock (`shell.rs` 969), its base is read under another (975); an eviction in between labels the copy with the newer base, and the tab shows bytes twice, or skips some without the "missed" line |
| `SupersededHasSuccessor` | `_stream` | 2 tabs, `ChanCap = 2`, `MaxBytes = 1`, `MaxChunk = 1` | the epoch is bumped (949) before the slot is taken (956); if two attaches interleave there, the newest socket is sent `Takeover` and nobody is attached |
| `NobodyLingers` | `_end` | 1 socket, `ChanCap = 1`, `MaxBytes = 2`, `Ends = {"exit"}` | `Eof` goes out with `try_send`; a channel full of output drops it and the socket waits for ever |
| `InTurnOpened` | `_any` of `MCSealedRelay` | no `SYMMETRY`, `Parts = 3`, `MaxEpoch = 0`, `MaxConnects = 1` | `open` compares the seq before it awaits and counts after it (`relay-e2e.ts` 234, 255): the next envelope of a burst is refused |
| `Answered` | `_any` of `MCSealedRelay` | `SPECIFICATION FairSpec`, no `SYMMETRY`, `MaxConnects = 1` | a tab with a channel ignores the epoch of a reconnected agent (`relay-shim.ts` 478) and does not say hello again; if the room replaced the agent instead of losing it (`room.ts` 121-130), the tab is not even told that it was gone |
| `ClosedForGood` | `_any` of `MCShellBridges` | | both timers leave a socket registered or about to be (`relay-shim.ts` 767, 892, 1019): the first output reopens a closed socket, by when `Terminal.tsx` may have made another |
| `LetGo` | `_any` of `MCShellBridges` | | a close that comes before the bridge is listed is dropped (`relay.rs` 1489), one sent while `openShell` waits overtakes its own open, and a browser that loses its link tells nobody: the bridge holds the shell until another takes it over |
| `BridgesDropped` | `_any` of `MCShellBridges` | | a bridge that lists itself (`relay.rs` 756) after the teardown has cleared the map (400) is dropped by nobody, although "their tasks notice" (399) |
| `Served` | `_logins` | `SPECIFICATION FairSpec`, no `SYMMETRY`, `MaxPass = 1`, `MaxReqs = 3`, `MaxKeys = 0`, `MaxRestarts = 0` | `lookup_oidc` (`auth.rs` 1358) locks the mutex in a closure while the guard of the outer lock is alive: the first OpenID callback never ends, nor does any later request that needs the accounts |
| `NoStaleGreeting` | `_pair` | no `SYMMETRY` | a replacement keeps the caps of the agent replaced (`room.ts` 121-130) until the new one says hello, and a viewer that joins in between is greeted with them, although "Stale caps would seal viewers to a dead (sess,epoch) — drop them" (411-412); the new agent's hello puts it right (`FreshCaps`) |
| `AgentKeepsLine` | `_pair` | 1 agent, 1 client, `RespMax = 6`, `MaxMsg = 5`, `MaxWakes = 0` | the flood guard (200 messages in 10 s) counts the envelopes of one response (up to 685) and closes the agent with 4408 |

### 3.3 Bounds

Tabs and sockets are symmetric, and every race named above needs two sockets. A ring of 2 with reads of up to 2 bytes
has partial and complete eviction; a channel of 1 is full as soon as it is used (256 in the code). Two parts are the
smallest response (`rpc-begin`, `rpc-end`); three make a burst in which an envelope follows one that is being opened.
One reconnect and two page loads give every pair of an old and a new epoch or channel. One viewer is enough for
`FailFast`: viewers share the agent and the room's queue to it, and each waits for its own requests (the theorem is
for any number). One eviction may come in every state of the room; nothing an object keeps survives it, so a second
one starts from the same kind of state. A socket or a page load is used once; a retry is the next one.

*Bridges.* Sockets have separate bridges, queues and timers and meet only in the link and in the agent's connection,
which the bounds let come and go on their own: one socket is enough. Two keystrokes and two pieces of output make a
gap visible; two connections are an old and a new one, on either side.

*Registry.* Two ids and a cap of one make every insertion an eviction; two sockets are a spawn race, or a socket that
arrives while another's session is evicted. Two sessions per life let an id be taken again after a kill.
With `Refusals` the database may refuse any insertion; pruning may choose any rows. The run
with one of everything is enough for `Forgotten`.

*Accounts.* Two threads are every race of two requests; the third request finds what they left, and the fourth (in
`accounts_logins`) lets an enrolment, its confirmation and two logins with its codes follow each other. With two
wrong attempts allowed the third meets the lockout. One restart shows what the file is worth.

*Files.* Two calls are enough for two pages to race on one file, and for an open or a save to be overtaken; what
follows from a call (the next file of a bulk, the reload, the opening of a new file) is not counted. Two names are
a source and a target; at first one of them is taken, by a file or a folder.

### 3.4 Fairness

`ShellSession`: weak fairness of the reader after it has claimed (a thread that is not waiting for the PTY), of the
watcher's poll, of a kill or a reap that has begun, of each socket's tasks and of the browser's event loop. None for input,
connecting, dropping, exit or kill: nobody has to do those. The threads are scheduled by the operating system and
the tasks by tokio; no step waits for a lock that is held across an await.

`ShellBridges`: weak fairness of the agent's message loop, of the teardown once it has begun, and of each bridge's
own steps. None for links, timers, pages or the server behind the loopback socket.

`SealedRelay`: only `FairSpec`, for `Answered` (3.2), states any. Weak fairness of the agent's reconnection
(`run_agent` loops for ever), of its message loop and tasks, of each tab's socket and of its crypto. Weak fairness of
`Serve` as a whole is enough: requests are bounded, so the agent runs out of other things to do. The 120 s timer has
*no* fairness: `Answered` says that a request comes to an end without it.

`Accounts`: weak fairness of each thread that serves a request. A std mutex is handed over eventually and nothing
is awaited under it; a thread that waits for itself has no step.

## 4. The proofs

Every safety property that a passing run checks is a theorem, for every value of the constants and so for any number of
actors and of steps. Each proof has the same form: an inductive invariant, one lemma per action that it is preserved
(split by conjunct), lemmas about the operators, and a last step by temporal reasoning. TLC checked every invariant
with the constants of a run before it was proved. The properties are not inductive; what has to be added is
what the code relies on without saying so, and is told here.

### 4.1 ShellSession (`ShellSession_proofs`)

- `TypeCorrect`: `Spec => []TypeOK`. Beyond the plain types it says that no frame, and no snapshot of the ring,
  runs backwards (`lo <= hi`), which the arithmetic of `ReplayFrame` must preserve.
- `OffsetAccounting`: `Spec => []OffsetAccount`. `ring_base` is the number of evicted bytes, the ring never
  exceeds its capacity, and `offset` is ahead of the ring by the chunk the reader has claimed and not yet stored.
- `SupersededStandsDown`: `Spec => []OneLateFrame`.
- `NothingFallsBetween`: `Spec => []NoHole`.
- `TabsSeeTheStream`: `Spec => StreamRefined` if `Roomy`: `ShellSession` implements `TerminalStream`.

The first two are proved together: the types of snapshots and frames need `ring.lo <= ring.hi`, which is part of
`OffsetAccount`, and `OffsetAccount` needs the types for its arithmetic.

`Late` says where a socket that has sent a frame since it was superseded can be: before the epoch check of the send
loop, or out of it. `Lines` describes the queue of a socket from its subscription to its release. Its chunks are
consecutive (`Joined`) and stored in the ring (`Stored`); the first starts at or before the byte the socket sends next
(`Begins`); as long as the session still sends to the socket, the last ends where the next chunk starts
(`Coming`). What the next chunk is depends on where the reader stands (`InHand`, `NextFor`): between its claim and
its send it may have cloned the sender of a socket that has been replaced since. So a socket that subscribes in that
window misses the chunk in its queue, and has it in its snapshot: `Coming` is this trade.

For the refinement, `Wires` adds the browser. A frame carries what the shell has written, under the label the server
gave it (`Honest`); what is on a wire continues what its tab has (`Smooth`) and brings it up to what the server
believes sent (`Brings`). `Roomy` (`MaxBytes <= RingCap`) says that nothing is evicted. It is needed: once bytes are
evicted a tab may be told that output was missed, which `TerminalStream` has not, and the replay may be mislabelled (3.2).

### 4.2 SessionRegistry (`SessionRegistry_proofs`)

For any ids, sockets, kill requests, cap, number of sessions and crashes:

- `ShellsAccounted`: `Spec => []NoOrphan`.
- `HistorySurvives`: `Spec => []HistoryKept`: a listed session has its row, or its creator is about to write it, unless
  its id is in `lapsed`. What puts it there is a removal from the registry, a refusal of SQLite or the pruning of the
  row; a row that is written takes it out again, unless a delete of the id is still to come.
- `TypesOfRegistry`: `Spec => []TypeOK`, which includes that `recent` is a strict order.

`IInv` adds to the first two what they silently rest on. `Named`: the registry and the sockets know a session by its
own id. `Made`: whatever is listed, written, reaped or has a child was made before, so that a spawn cannot give a new
id to a session in use. `Quiet`: a task that has yet to start has nothing left to reap or to write, so that starting
it loses nothing. `Taken`: an id that a task will yet delete stays in `lapsed`, whoever writes its row meanwhile,
which is what makes the exemption in `HistoryKept` enough. `Shapes` has the types this needs.

`Restart` needs that a bijection onto the rows gives each
of them one session, for which the ids are assumed to be finite (`IdsAssumption`: an id has at most 64 characters).
For the third, `Touched`, `Spawned` and `Numbers` show that what an attach, a new session and `load_persisted` make of
`recent` is a strict order again.

### 4.3 SealedRelay (`SealedRelay_proofs`)

For any tabs, requests, parts, connections of the agent and page loads, with crypto calls that end at any time:

- `TypesOfSealedRelay`: `Spec => []TypeOK`. No crypto call is under way on a channel the tab does not have;
  `DrainSealed` must be added: what a late upgrade drains is for a channel that exists.
- `GoneFailsFast`: `Spec => []FailFast`. `Gone`: while the agent is away nothing is being answered, no client hello is
  half done, and every tab with a socket has the news as the last message of its queue, or has read it and has nothing
  pending.

That requests run once needs no theorem: each is sealed once, and a queue does not duplicate. That both ends keep count
has none because the code does not (`SeqRises`, `Answered`, `InTurnOpened`, 3.1 and 3.2).

### 4.4 ShellBridges (`ShellBridges_proofs`, `ShellBridgesOrder_proofs`)

For any sockets and bounds:

- `LastWord`: `Spec => FinalWord`.
- `TypesOfBridges`: `Spec => []TypeOK`.
- `KeysInOrder`: `Spec => []TypedInOrder`.
- `OutputInOrder`: `Spec => []ShownInOrder`.

`FinalWord` says what a step may not do to a socket in `told`; `Final` says why it cannot: the socket is closed, not
registered, its open timer is off and `openShell` is through with it. `Registered` is what keeps `Final` when a
connection fails its sockets: a registered socket is not also awaited, so none is failed and then registered.
`RingOK` covers all the places that fail sockets at once.

The other three share `OInv`. `Flow` says what the two ends can know of each other: an open is sent once and before its
bridge exists; keystrokes and output only flow once the bridge is up; a bridge of the present connection is in its map.
`Keys` and `View` are the two streams: what has been taken, what waits in the queues and what was sent are one sequence
without a gap (`Chained`), and complete (`Complete`) as long as the sender may go on. The queue of a bridge is in
order up to a close, behind which anything may follow (`Queued`), as `spawn_shell_bridge` stops there.

### 4.5 TunnelRoom (`TunnelRoom_proofs`)

For any agents, viewers, upload sizes, windows and number of evictions:

- `TypeCorrect`: `Spec => []TypeOK`; a stored or served UI has all its chunks.
- `PresenceCorrect`: `Spec => []PresenceTold`.
- `CapsCorrect`: `Spec => []FreshCaps`.
- `UiCorrect`: `Spec => []UiCurrent`.

The properties speak of sockets, the handlers write fields, and an eviction loses the fields. `IInv` says what ties
the two together. `Members`: `clients` are the viewer sockets that have not gone. `OneAgent`: every agent socket but
the current one is at least being closed, so that a waking object finds at most one live agent (the model evicts only
when no socket is being closed, 3.3), and an agent that has not joined has sent nothing. `AllTold` is `PresenceTold`
also of the viewers being closed, who stay in `clients` until they are gone, and says of the field what the property
says of sockets: that a live agent is the room's is `OneAgent`. `CapsKept` is `FreshCaps` also of viewers being closed
and of the caps that the next viewer would be greeted with; it starts with the hello, because until then the code
keeps the caps of the agent replaced (3.2). `UiKept`: a storage that works holds the last complete upload, and the
object has the same or has not loaded (TLC checked it with `StorageFails` as well). `PassType` and `AdvanceType` state
once what the flood guard and the upload counter return, `LoadUiOK` that loading keeps `UiKept`.

### 4.6 Accounts (`Accounts_proofs`)

For any names, any finite set of threads, any limits and number of restarts:

- `TypesOfAccounts`: `Spec => []TypeOK`.
- `FileFollowsMemory`: `Spec => []FileSettled`.
- `SessionsFollowAccounts`: `Spec => []SessionsCurrent`.
- `GuessesAreLimited`: `Spec => []GuessBudget`.
- `CodesOpenOneSession`: `Spec => []RecoveryOnce`.

`Types` says what a request carries at each of its steps (`Shaped`); every other invariant rests on it. `Settled`: as
long as `mirror` is not `bad`, at most one thread saves and its snapshot is what is in memory (`Lone`); while it is
`good`, the file is torn only as long as that thread writes. A save that ends well with the file for itself makes it
`good` again. `Current` extends the property to a login that has verified the password and not yet minted its session:
no change has raced with it, or it is marked. `Budget` (`Bounded`) counts a guess from the moment it is allowed: while
a bucket is open its failures account for the guesses but those whose failure is yet to be entered; once it is locked,
those already past the check are all that may still come. The set of threads must be finite for that sum
(`AccountsThreadAssumption`: the host serves finitely many requests at a time). `OnePlace` says where a recovery code
can be: in the account, with one login, or spent; and, as long as `mirror` is `good`, in the file, which a restart
reads back, no longer than until the login that took it has saved. `AccountsTornAssumption` says that a torn file is
no table of accounts: the loader tells the two apart by parsing.

### 4.7 HostFiles (`HostFiles_proofs`)

For any names, pages and bounds:

- `TypesOfHostFiles`: `Spec => []TypeOK`.
- `OlderFilesAreSpared`: `Spec => []Spared`.
- `SavesKeepTheirName`: `Spec => []OwnText`.
- `CleanEditorsShowTheFile`: `Spec => []CleanMeansStored`.

A file carries the call that made it and the state that call was in; `Distinct` says that no call is in such a state
again, so that an open file is told from one made later under its name. `Newer`: once a handler has looked, its name
belongs to nothing older than the call; each of them looks and creates in that order, and no step of another call puts
an older file there. `Named`: a text belongs to the file it was opened from. `OneSave` and `Underway` follow a save of
an editor through its steps: which file it has open, that it has written what the page will take for saved or a
mixture of two writes, and that the load after it reads that.

### 4.8 What is assumed, and what is only model-checked

The proofs use the named `ASSUME`s of the modules, which TLC evaluates on every run, and the hypotheses written in the
statement of `TabsSeeTheStream`; nothing else.

Model-checked only: `TabCatchesUp`, `NobodyLingers` and `Released`. They need fairness, and liveness and
ENABLED are beyond the prover. What the code does not keep (3.1, 3.2) has no theorem.

## 5. Not modelled

- What a row of SQLite contains, and so the base a restored session gets; recording frames, audit log, chat.
- Bodies in chunks; what the viewer PIN is compared with (the wait for it, and a refusal, are modelled).
- The fixed-window limiter and the worker's router: one function without an await each.
- The table of routes and roles, hashes and cookies; lockout of several addresses (a bucket is per address and name).
- chmod, stat, search, downloads and paths into other folders; navigation, search and preview of the Files page.
- Host, ports, chat, UI bundle, startup, other pages: handlers over the operating system, or presentation.
- Cryptography: perfect by assumption.
- Rendering, predictive echo and the layout of the terminal.

## 6. Plan

Done: `ShellSession` with `TerminalStream`, `SealedRelay`, `ShellBridges`, `TunnelRoom`, `SessionRegistry`,
`Accounts`, `HostFiles`; the proofs of section 4.

Left, in this order:

1. Proofs: the inductive invariants say more than the properties they were made for; where that is of use to a
   reader of the code (`Flow`, `OnePlace`, `Distinct`) state it as a property of a run.
2. `TunnelRoom` with sockets that linger: messages and evictions while a close handshake is under way, for which the
   platform's promises would have to be known better.
3. The agent's bodies in chunks with `MAX_PENDING_RPC`; a socket of the browser that closes late.
4. The contents of a row: ring and offset as one snapshot, the base of a restored session.
