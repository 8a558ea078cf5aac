-------------------------------- MODULE Accounts --------------------------------
(***************************************************************************)
(* Accounts, sessions, lockout and two-factor codes of the host            *)
(* (src/cli/backend/src/auth.rs).  All of it is in one map behind one      *)
(* mutex; the accounts other than the owner's are mirrored in users.json.  *)
(*                                                                         *)
(* A request is a thread.  It takes the mutex several times, and each time *)
(* is one step: what it read before may be gone when it comes back.  It    *)
(* writes the file after it has given the mutex back, in two steps, since  *)
(* fs::write truncates first; a save that fails is printed and no more.    *)
(* A password is a number, a two-factor secret and the recovery codes      *)
(* handed out with it are the number of their enrolment; time passes in    *)
(* LockExpires, SessionExpires, PendingExpires.                            *)
(***************************************************************************)
EXTENDS Naturals, FiniteSets, Functions

CONSTANTS
  Threads,      \* requests served at the same time
  Owner,        \* the account of --user
  Names,        \* other user names
  Known,        \* those with an account at first
  None,         \* no name, no role
  Torn,         \* a users.json that cannot be parsed
  Roles,        \* the roles an administrator may give
  MaxPass,      \* passwords are 1..MaxPass
  MaxFails,     \* RATE_MAX_FAILS
  MaxReqs,      \* bound: requests
  MaxKeys,      \* bound: enrolments
  MaxRestarts,  \* bound: restarts of the host
  Ops           \* the requests that are made

ASSUME AccountsNameAssumption == Known \subseteq Names /\ Owner \notin Names /\ None \notin Names \cup {Owner} \cup Roles
ASSUME AccountsRoleAssumption == Roles \subseteq {"viewer", "operator", "admin"}
ASSUME AccountsBoundAssumption ==
  /\ MaxPass \in Nat \ {0} /\ MaxFails \in Nat \ {0}
  /\ {MaxReqs, MaxKeys, MaxRestarts} \subseteq Nat
ASSUME AccountsThreadAssumption == IsFiniteSet(Threads)
\* A text that cannot be parsed is not one that can.
ASSUME AccountsTornAssumption ==
  \A S \in SUBSET Names :
    Torn \notin [S -> [pass : 1..MaxPass, legacy : BOOLEAN, role : {"viewer", "operator", "admin"},
                      totp : {"off", "set", "on"}, key : Nat, code : BOOLEAN]]

VARIABLES
  acct,     \* name -> account: users, and the owner's fields
  sess,     \* token -> session
  rate,     \* name -> [fails, locked] of one address
  held,     \* a thread waits for the mutex it holds
  pending,  \* OidcState.pending
  file,     \* users.json: accounts, or Torn
  mirror,   \* what the saves have made of it
  th,       \* the request of each thread
  minted, keys, reqs, restarts,  \* tokens, enrolments, requests, restarts so far
  guesses,  \* wrong passwords and codes tried since the bucket was last clear
  spent,    \* recovery codes that opened a session
  anomaly   \* what went wrong so far

vars == <<acct, sess, rate, held, pending, file, mirror, th, minted, keys, reqs, restarts,
          guesses, spent, anomaly>>

All == Names \cup {Owner}
Passwords == 1..MaxPass
Codes == {[kind |-> "none", key |-> 0]} \cup [kind : {"totp", "recovery"}, key : 1..keys]

Account(p, legacy, role) ==
  [pass |-> p, legacy |-> legacy, role |-> role, totp |-> "off", key |-> 0, code |-> FALSE]

Saved(a) == Restrict(a, DOMAIN a \ {Owner})
NoBucket == [fails |-> 0, locked |-> FALSE]
Rank == [viewer |-> 0, operator |-> 1, admin |-> 2]

\* The role a session acts with: that of its account at this moment.
RoleOf(n) == IF n \in DOMAIN acct THEN acct[n].role ELSE "operator"

Blank == [pc |-> "idle", op |-> "none", who |-> None, keep |-> 0, name |-> None, pass |-> 0,
          role |-> None, own |-> 0, code |-> [kind |-> "none", key |-> 0], twofa |-> FALSE,
          raced |-> FALSE, snap |-> <<>>, next |-> "idle"]

At(t, pc) == ~held /\ th[t].pc = pc
Goto(t, pc) == th' = [th EXCEPT ![t].pc = pc]
Done(t) == th' = [th EXCEPT ![t] = Blank]

Saving == {t \in Threads : th[t].pc \in {"open", "write"}}

\* users.json is "bad" once two saves overlap or one fails.  A save that has it
\* for itself is "mending" it, and makes it "good" by ending well.
Begun(t) == IF Saving \ {t} # {} THEN "bad" ELSE IF mirror = "good" THEN "good" ELSE "mending"
Mended == IF mirror = "mending" THEN "good" ELSE mirror

Verified(x) == th[x].op = "login" /\ th[x].pc \notin {"verify", "fail"}

\* Faulty variant: the accounts are cloned before they are changed.
ChangedAfterClone(t, new, rotated, next) ==
  /\ acct' = new /\ mirror' = Begun(t)
  /\ th' = [x \in Threads |->
       IF x = t THEN [th[t] EXCEPT !.pc = "open", !.snap = Saved(acct), !.next = next]
       ELSE [th[x] EXCEPT !.raced = @ \/ (Verified(x) /\ th[x].who \in rotated)]]

\* The end of every change to the accounts: clone them for the file, unlock,
\* save.  The logins into the accounts of "rotated" that have verified the
\* password already race with the change.
Changed(t, new, rotated, next) ==
  /\ acct' = new /\ mirror' = Begun(t)
  /\ th' = [x \in Threads |->
       IF x = t THEN [th[t] EXCEPT !.pc = "open", !.snap = Saved(new), !.next = next]
       ELSE [th[x] EXCEPT !.raced = @ \/ (Verified(x) /\ th[x].who \in rotated)]]

Note(b, what) == IF b THEN {what} ELSE {}

\* Faulty variant: the other sessions stay.
RetainedAll(n, keep) == sess

\* retain(s.username != n or s is keep).
Retained(n, keep) ==
  LET left == {k \in DOMAIN sess : sess[k].user # n \/ k = keep}
  IN [k \in left |-> IF sess[k].user = n THEN [sess[k] EXCEPT !.how = "kept"] ELSE sess[k]]

---------------------------------------------------------------------------
(* Admission: the session of the caller, its role now, the route's role. *)

Begins(t, op) == At(t, "idle") /\ op \in Ops /\ reqs < MaxReqs /\ reqs' = reqs + 1
Admits(k, need) == k \in DOMAIN sess /\ Rank[RoleOf(sess[k].user)] >= Rank[need]
Request(t, op, k, pc) == [Blank EXCEPT !.pc = pc, !.op = op, !.who = sess[k].user, !.keep = k]
Ask(t, r) ==
  /\ th' = [th EXCEPT ![t] = r]
  /\ UNCHANGED <<acct, sess, rate, held, pending, file, mirror, minted, keys, restarts, guesses,
                 spent, anomaly>>

\* A locked bucket is answered at once and changes nothing.
ApiLogin(t) ==
  /\ Begins(t, "login")
  /\ \E n \in All, p \in Passwords, c \in Codes :
       /\ ~rate[n].locked
       /\ Ask(t, [Blank EXCEPT !.pc = "verify", !.op = "login", !.who = n, !.pass = p, !.code = c])

ApiLogout(t) ==
  /\ Begins(t, "logout")
  /\ \E k \in DOMAIN sess : sess' = Restrict(sess, DOMAIN sess \ {k})
  /\ UNCHANGED <<acct, rate, held, pending, file, mirror, th, minted, keys, restarts, guesses, spent, anomaly>>

ApiChangePassword(t) ==
  /\ Begins(t, "chpass")
  /\ \E k \in DOMAIN sess, cur \in Passwords, new \in Passwords :
       Ask(t, [Request(t, "chpass", k, "chpass") EXCEPT !.own = cur, !.pass = new])

ApiTotpEnroll(t) ==
  /\ Begins(t, "enroll") /\ keys < MaxKeys
  /\ \E k \in DOMAIN sess : Ask(t, Request(t, "enroll", k, "enroll"))

ApiTotpVerify(t) ==
  /\ Begins(t, "totpon")
  /\ \E k \in DOMAIN sess, c \in Codes :
       Ask(t, [Request(t, "totpon", k, "check") EXCEPT !.code = c])

ApiTotpDisable(t) ==
  /\ Begins(t, "totpoff")
  /\ \E k \in DOMAIN sess, p \in Passwords :
       Ask(t, [Request(t, "totpoff", k, "totpoff") EXCEPT !.own = p])

ApiCreateUser(t) ==
  /\ Begins(t, "create")
  /\ \E k \in DOMAIN sess, n \in All, p \in Passwords, r \in Roles :
       /\ Admits(k, "admin")
       /\ Ask(t, [Request(t, "create", k, "create") EXCEPT !.name = n, !.pass = p, !.role = r])

\* The caller types the main password that is right when it asks; with any
\* other one the request ends without a change.
ApiUpdateUser(t) ==
  /\ Begins(t, "update")
  /\ \E k \in DOMAIN sess, n \in All, m \in All \cup {None}, p \in 0..MaxPass, r \in Roles \cup {None} :
       /\ Admits(k, "admin") /\ <<m, p, r>> # <<None, 0, None>>
       /\ Ask(t, [Request(t, "update", k, "confirm") EXCEPT
                    !.who = n, !.name = m, !.pass = p, !.role = r, !.own = acct[Owner].pass])

ApiDeleteUser(t) ==
  /\ Begins(t, "delete")
  /\ \E k \in DOMAIN sess, n \in All :
       /\ Admits(k, "admin")
       /\ Ask(t, [Request(t, "delete", k, "confirm") EXCEPT !.who = n, !.own = acct[Owner].pass])

\* api_unlock_user and api_revoke_user_sessions take the mutex once.
ApiUnlockUser(t) ==
  /\ Begins(t, "unlock")
  /\ \E k \in DOMAIN sess, n \in All :
       /\ Admits(k, "admin")
       /\ rate' = [rate EXCEPT ![n] = NoBucket] /\ guesses' = [guesses EXCEPT ![n] = 0]
  /\ UNCHANGED <<acct, sess, held, pending, file, mirror, th, minted, keys, restarts, spent, anomaly>>

ApiRevokeSessions(t) ==
  /\ Begins(t, "revoke")
  /\ \E k \in DOMAIN sess, n \in All :
       /\ Admits(k, "admin")
       /\ sess' = Restrict(sess, {x \in DOMAIN sess : sess[x].user # n \/ x = k})
  /\ UNCHANGED <<acct, rate, held, pending, file, mirror, th, minted, keys, restarts, guesses, spent, anomaly>>

---------------------------------------------------------------------------
(* Login, from the check of the password to the new session. *)

LoginVerified(t) ==
  LET n == th[t].who IN
  /\ At(t, "verify") /\ n \in DOMAIN acct /\ acct[n].pass = th[t].pass
  /\ LET on == acct[n].totp = "on"
         then == IF on THEN "totp" ELSE "success"
     IN th' = [th EXCEPT ![t].twofa = on, ![t].role = acct[n].role, ![t].next = then,
                         ![t].pc = IF acct[n].legacy THEN "migrate" ELSE then]
  /\ UNCHANGED <<acct, sess, rate, held, pending, file, mirror, minted, keys, reqs, restarts,
                 guesses, spent, anomaly>>

Refuses(t) ==
  /\ Goto(t, "fail") /\ guesses' = [guesses EXCEPT ![th[t].who] = @ + 1]
  /\ UNCHANGED <<acct, sess, rate, held, pending, file, mirror, minted, keys, reqs, restarts, spent, anomaly>>

LoginRefused(t) ==
  /\ At(t, "verify")
  /\ ~(th[t].who \in DOMAIN acct /\ acct[th[t].who].pass = th[t].pass)
  /\ Refuses(t)

\* Faulty variant: one attempt too many.
LoginFailLate(t) ==
  LET n == th[t].who
      fails == rate[n].fails + 1
  IN
  /\ At(t, "fail") /\ Done(t)
  /\ rate' = [rate EXCEPT ![n] = [fails |-> fails, locked |-> @.locked \/ fails > MaxFails]]
  /\ UNCHANGED <<acct, sess, held, pending, file, mirror, minted, keys, reqs, restarts, guesses, spent, anomaly>>

LoginFail(t) ==
  LET n == th[t].who
      fails == rate[n].fails + 1
  IN
  /\ At(t, "fail") /\ Done(t)
  /\ rate' = [rate EXCEPT ![n] = [fails |-> fails, locked |-> @.locked \/ fails >= MaxFails]]
  /\ UNCHANGED <<acct, sess, held, pending, file, mirror, minted, keys, reqs, restarts, guesses, spent, anomaly>>

\* The old hash is replaced by one of the password that was verified.
LoginMigrate(t) ==
  LET n == th[t].who
      here == n \in DOMAIN acct
  IN
  /\ At(t, "migrate")
  /\ Changed(t, IF here THEN [acct EXCEPT ![n].pass = th[t].pass, ![n].legacy = FALSE] ELSE acct,
             {}, th[t].next)
  /\ anomaly' = anomaly \cup Note(here /\ acct[n].pass # th[t].pass, "migrate")
  /\ UNCHANGED <<sess, rate, held, pending, file, minted, keys, reqs, restarts, guesses, spent>>

RightTotp(t) ==
  LET n == th[t].who IN
  /\ th[t].code.kind = "totp" /\ n \in DOMAIN acct /\ acct[n].key = th[t].code.key

LoginTotp(t) ==
  /\ At(t, "totp")
  /\ IF th[t].code.kind = "none" THEN Done(t)
     ELSE Goto(t, IF RightTotp(t) THEN "success" ELSE "recover")
  /\ UNCHANGED <<acct, sess, rate, held, pending, file, mirror, minted, keys, reqs, restarts,
                 guesses, spent, anomaly>>

HasCode(t) ==
  LET n == th[t].who IN
  /\ th[t].code.kind = "recovery" /\ n \in DOMAIN acct
  /\ acct[n].code /\ acct[n].key = th[t].code.key

\* Faulty variant: the code is not used up.
LoginRecoverKept(t) ==
  /\ At(t, "recover") /\ HasCode(t)
  /\ Changed(t, acct, {}, "success")
  /\ UNCHANGED <<sess, rate, held, pending, file, minted, keys, reqs, restarts, guesses, spent, anomaly>>

LoginRecover(t) ==
  /\ At(t, "recover") /\ HasCode(t)
  /\ Changed(t, [acct EXCEPT ![th[t].who].code = FALSE], {}, "success")
  /\ UNCHANGED <<sess, rate, held, pending, file, minted, keys, reqs, restarts, guesses, spent, anomaly>>

LoginBadCode(t) == At(t, "recover") /\ ~HasCode(t) /\ Refuses(t)

LoginSuccess(t) ==
  LET n == th[t].who IN
  /\ At(t, "success") /\ Goto(t, "mint")
  /\ rate' = [rate EXCEPT ![n] = NoBucket] /\ guesses' = [guesses EXCEPT ![n] = 0]
  /\ UNCHANGED <<acct, sess, held, pending, file, mirror, minted, keys, reqs, restarts, spent, anomaly>>

LoginMint(t) ==
  LET r == th[t]
      used == Note(r.twofa /\ r.code.kind = "recovery", r.code.key)
  IN
  /\ At(t, "mint") /\ Done(t)
  /\ minted' = minted + 1
  /\ sess' = [k \in DOMAIN sess \cup {minted'} |->
       IF k = minted' THEN [user |-> r.who, pass |-> r.pass, role |-> r.role,
                            how |-> IF r.raced THEN "raced" ELSE "fresh"]
       ELSE sess[k]]
  /\ spent' = spent \cup used
  /\ anomaly' = anomaly \cup Note(used \cap spent # {}, "respent")
  /\ UNCHANGED <<acct, rate, held, pending, file, mirror, keys, reqs, restarts, guesses>>

---------------------------------------------------------------------------
(* Changes to an account. *)

\* A request that is refused under the mutex.
Ends(t) ==
  /\ Done(t)
  /\ UNCHANGED <<acct, sess, rate, held, pending, file, mirror, minted, keys, reqs, restarts,
                 guesses, spent, anomaly>>

Knows(t) == th[t].who \in DOMAIN acct /\ acct[th[t].who].pass = th[t].own

ChangePassword(t) ==
  LET n == th[t].who IN
  /\ At(t, "chpass")
  /\ \/ ~Knows(t) /\ Ends(t)
     \/ /\ Knows(t)
        /\ Changed(t, [acct EXCEPT ![n].pass = th[t].pass, ![n].legacy = FALSE], {n}, "idle")
        /\ sess' = Retained(n, th[t].keep)
        /\ UNCHANGED <<rate, held, pending, file, minted, keys, reqs, restarts, guesses, spent, anomaly>>

CreateUser(t) ==
  LET n == th[t].name IN
  /\ At(t, "create")
  /\ \/ n \in DOMAIN acct /\ Ends(t)
     \/ /\ n \notin DOMAIN acct
        /\ Changed(t, [x \in DOMAIN acct \cup {n} |->
                         IF x = n THEN Account(th[t].pass, FALSE, th[t].role) ELSE acct[x]], {}, "idle")
        /\ UNCHANGED <<sess, rate, held, pending, file, minted, keys, reqs, restarts, guesses, spent, anomaly>>

\* The main password is checked under a lock of its own.
Confirm(t) ==
  /\ At(t, "confirm")
  /\ \/ th[t].own # acct[Owner].pass /\ Ends(t)
     \/ /\ th[t].own = acct[Owner].pass /\ Goto(t, th[t].op)
        /\ UNCHANGED <<acct, sess, rate, held, pending, file, mirror, minted, keys, reqs, restarts, guesses,
                       spent, anomaly>>

\* The owner's password is changed in memory only.
UpdateOwner(t) ==
  LET p == th[t].pass IN
  /\ At(t, "update") /\ th[t].who = Owner /\ th[t].name = None
  /\ acct' = IF p = 0 THEN acct ELSE [acct EXCEPT ![Owner].pass = p]
  /\ sess' = Retained(Owner, th[t].keep)
  /\ th' = [x \in Threads |-> IF x = t THEN Blank
              ELSE [th[x] EXCEPT !.raced = @ \/ (Verified(x) /\ th[x].who = Owner)]]
  /\ UNCHANGED <<rate, held, pending, file, mirror, minted, keys, reqs, restarts, guesses, spent, anomaly>>

\* A bare rename takes the sessions along; otherwise only the caller's stays.
Moved(t, n, m) ==
  LET rotates == th[t].pass # 0 \/ th[t].role # None
      left == {k \in DOMAIN sess : sess[k].user # n \/ ~rotates \/ k = th[t].keep}
  IN [k \in left |->
       IF sess[k].user # n THEN sess[k]
       ELSE [sess[k] EXCEPT !.user = m, !.how = IF rotates THEN "kept" ELSE @]]

UpdateUser(t) ==
  LET n == th[t].who
      m == IF th[t].name = None THEN n ELSE th[t].name
      old == acct[n]
      rec == [old EXCEPT !.pass = IF th[t].pass = 0 THEN @ ELSE th[t].pass,
                         !.legacy = @ /\ th[t].pass = 0,
                         !.role = IF th[t].role = None THEN @ ELSE th[t].role]
  IN
  /\ At(t, "update") /\ n \in DOMAIN acct \ {Owner}
  /\ th[t].name = None \/ th[t].name \notin DOMAIN acct
  /\ Changed(t, [x \in (DOMAIN acct \ {n}) \cup {m} |-> IF x = m THEN rec ELSE acct[x]], {n}, "idle")
  /\ sess' = Moved(t, n, m)
  /\ UNCHANGED <<rate, held, pending, file, minted, keys, reqs, restarts, guesses, spent, anomaly>>

UpdateRefused(t) ==
  /\ At(t, "update")
  /\ \/ th[t].who \notin DOMAIN acct
     \/ th[t].who = Owner /\ th[t].name # None
     \/ th[t].name \in DOMAIN acct
  /\ Ends(t)

\* Faulty variant: the owner's account may be deleted.
DeleteAnyUser(t) ==
  LET n == th[t].who IN
  /\ At(t, "delete")
  /\ \/ n \notin DOMAIN acct /\ Ends(t)
     \/ /\ n \in DOMAIN acct
        /\ Changed(t, Restrict(acct, DOMAIN acct \ {n}), {n}, "idle")
        /\ sess' = Restrict(sess, {k \in DOMAIN sess : sess[k].user # n})
        /\ rate' = [rate EXCEPT ![n] = NoBucket] /\ guesses' = [guesses EXCEPT ![n] = 0]
        /\ UNCHANGED <<held, pending, file, minted, keys, reqs, restarts, spent, anomaly>>

DeleteUser(t) ==
  LET n == th[t].who IN
  /\ At(t, "delete")
  /\ \/ n \notin DOMAIN acct \ {Owner} /\ Ends(t)
     \/ /\ n \in DOMAIN acct \ {Owner}
        /\ Changed(t, Restrict(acct, DOMAIN acct \ {n}), {n}, "idle")
        /\ sess' = Restrict(sess, {k \in DOMAIN sess : sess[k].user # n})
        /\ rate' = [rate EXCEPT ![n] = NoBucket] /\ guesses' = [guesses EXCEPT ![n] = 0]
        /\ UNCHANGED <<held, pending, file, minted, keys, reqs, restarts, spent, anomaly>>

TotpEnroll(t) ==
  LET n == th[t].who IN
  /\ At(t, "enroll")
  /\ \/ n \notin DOMAIN acct /\ Ends(t)
     \/ /\ n \in DOMAIN acct /\ keys' = keys + 1
        /\ Changed(t, [acct EXCEPT ![n].totp = "set", ![n].key = keys', ![n].code = TRUE], {}, "idle")
        /\ UNCHANGED <<sess, rate, held, pending, file, minted, reqs, restarts, guesses, spent, anomaly>>

\* The code is checked under one lock, the factor enabled under another.
TotpCheck(t) ==
  /\ At(t, "check")
  /\ \/ ~RightTotp(t) /\ Ends(t)
     \/ /\ RightTotp(t) /\ Goto(t, "enable")
        /\ UNCHANGED <<acct, sess, rate, held, pending, file, mirror, minted, keys, reqs, restarts, guesses,
                       spent, anomaly>>

\* The session seen last stays; which one that is, seconds may not tell.
TotpEnable(t) ==
  LET n == th[t].who
      own == {k \in DOMAIN sess : sess[k].user = n}
  IN
  /\ At(t, "enable")
  /\ \/ n \notin DOMAIN acct /\ Ends(t)
     \/ /\ n \in DOMAIN acct
        /\ Changed(t, [acct EXCEPT ![n].totp = "on"], {}, "idle")
        /\ IF Cardinality(own) > 1
           THEN \E k \in own : sess' = Restrict(sess, (DOMAIN sess \ own) \cup {k})
           ELSE sess' = sess
        /\ UNCHANGED <<rate, held, pending, file, minted, keys, reqs, restarts, guesses, spent, anomaly>>

TotpDisable(t) ==
  LET n == th[t].who IN
  /\ At(t, "totpoff")
  /\ \/ ~Knows(t) /\ Ends(t)
     \/ /\ Knows(t)
        /\ Changed(t, [acct EXCEPT ![n].totp = "off", ![n].key = 0, ![n].code = FALSE], {}, "idle")
        /\ UNCHANGED <<sess, rate, held, pending, file, minted, keys, reqs, restarts, guesses, spent, anomaly>>

---------------------------------------------------------------------------
(* users.json, restarts, time and OpenID. *)

\* The request goes on, whatever has become of the save.
SaveEnds(t, m) ==
  /\ mirror' = m
  /\ IF th[t].next = "idle" THEN Done(t)
     ELSE th' = [th EXCEPT ![t].pc = th[t].next, ![t].snap = <<>>]

\* fs::write opens and truncates the file, then writes at offset 0.  There may
\* be no folder to open it in, or no right to.
OpenFile(t) ==
  /\ th[t].pc = "open"
  /\ \/ file' = Torn /\ Goto(t, "write") /\ UNCHANGED mirror
     \/ UNCHANGED file /\ SaveEnds(t, "bad")
  /\ UNCHANGED <<acct, sess, rate, held, pending, minted, keys, reqs, restarts, guesses, spent, anomaly>>

\* Over the bytes of another save the shorter text leaves the longer's tail.
\* On a full disk some of the bytes are written or none.
WriteFile(t) ==
  /\ th[t].pc = "write"
  /\ \/ file' \in (IF file = Torn THEN {th[t].snap} ELSE {th[t].snap, Torn}) /\ SaveEnds(t, Mended)
     \/ file' \in {file, Torn} /\ SaveEnds(t, "bad")
  /\ UNCHANGED <<acct, sess, rate, held, pending, minted, keys, reqs, restarts, guesses, spent, anomaly>>

Fresh(users) == [n \in DOMAIN users \cup {Owner} |->
                   IF n = Owner THEN Account(1, FALSE, "admin") ELSE users[n]]

\* A file that cannot be read or parsed is ignored; the owner comes from the
\* flags.  What the saves had spoilt is lost now.
Restart ==
  /\ restarts < MaxRestarts /\ restarts' = restarts + 1
  /\ \E users \in IF file = Torn THEN {<<>>} ELSE {file, <<>>} :
       acct' = Fresh(users) /\ mirror' = IF users = file THEN "good" ELSE "bad"
  /\ sess' = <<>> /\ rate' = [n \in All |-> NoBucket] /\ guesses' = [n \in All |-> 0]
  /\ held' = FALSE /\ pending' = {} /\ th' = [t \in Threads |-> Blank]
  /\ anomaly' = anomaly \cup Note(mirror # "good", "lost")
  /\ UNCHANGED <<file, minted, keys, reqs, spent>>

LockExpires ==
  /\ \E n \in All : /\ rate[n].locked /\ rate' = [rate EXCEPT ![n].locked = FALSE]
                    /\ guesses' = [guesses EXCEPT ![n] = 0]
  /\ UNCHANGED <<acct, sess, held, pending, file, mirror, th, minted, keys, reqs, restarts, spent, anomaly>>

\* 12 hours, or 30 idle minutes: the session is refused and swept.
SessionExpires ==
  /\ ~held /\ \E k \in DOMAIN sess : sess' = Restrict(sess, DOMAIN sess \ {k})
  /\ UNCHANGED <<acct, rate, held, pending, file, mirror, th, minted, keys, reqs, restarts, guesses, spent, anomaly>>

ApiOidcLogin(t) ==
  /\ Begins(t, "oidc") /\ pending' = pending \cup {reqs}
  /\ UNCHANGED <<acct, sess, rate, held, file, mirror, th, minted, keys, restarts, guesses, spent, anomaly>>

\* take_verifier, the exchange with the issuer, the domain check.
ApiOidcCallback(t) ==
  /\ Begins(t, "oidc")
  /\ \E s \in pending : pending' = pending \ {s}
  /\ th' = [th EXCEPT ![t] = [Blank EXCEPT !.pc = "lookup", !.op = "oidc"]]
  /\ UNCHANGED <<acct, sess, rate, held, file, mirror, minted, keys, restarts, guesses, spent, anomaly>>

ExchangeFails(t) == At(t, "lookup") /\ Ends(t)

\* Nothing is ever in oidc_links (link_oidc has no caller, and no lookup that
\* would let an account be provisioned returns), so the closure runs and locks
\* the mutex that the expression around it still holds.
LookupOidc(t) ==
  /\ At(t, "lookup") /\ held' = TRUE /\ Goto(t, "stuck")
  /\ UNCHANGED <<acct, sess, rate, pending, file, mirror, minted, keys, reqs, restarts, guesses, spent, anomaly>>

PendingExpires ==
  /\ \E s \in pending : pending' = pending \ {s}
  /\ UNCHANGED <<acct, sess, rate, held, file, mirror, th, minted, keys, reqs, restarts, guesses, spent, anomaly>>

---------------------------------------------------------------------------
\* The owner is logged in; the accounts come from the file, some with old hashes.
Init ==
  /\ \E legacy \in BOOLEAN : file = [n \in Known |-> Account(1, legacy, "viewer")]
  /\ acct = Fresh(file) /\ mirror = "good"
  /\ sess = [k \in {1} |-> [user |-> Owner, pass |-> 1, role |-> "admin", how |-> "fresh"]]
  /\ rate = [n \in All |-> NoBucket] /\ guesses = [n \in All |-> 0]
  /\ held = FALSE /\ pending = {} /\ th = [t \in Threads |-> Blank]
  /\ minted = 1 /\ keys = 0 /\ reqs = 0 /\ restarts = 0 /\ spent = {} /\ anomaly = {}

Api(t) ==
  \/ ApiLogin(t) \/ ApiLogout(t) \/ ApiChangePassword(t)
  \/ ApiTotpEnroll(t) \/ ApiTotpVerify(t) \/ ApiTotpDisable(t)
  \/ ApiCreateUser(t) \/ ApiUpdateUser(t) \/ ApiDeleteUser(t)
  \/ ApiUnlockUser(t) \/ ApiRevokeSessions(t)
  \/ ApiOidcLogin(t) \/ ApiOidcCallback(t)

Step(t) ==
  \/ LoginVerified(t) \/ LoginRefused(t) \/ LoginFail(t) \/ LoginMigrate(t) \/ LoginTotp(t)
  \/ LoginRecover(t) \/ LoginBadCode(t) \/ LoginSuccess(t) \/ LoginMint(t)
  \/ ChangePassword(t) \/ CreateUser(t) \/ Confirm(t)
  \/ UpdateOwner(t) \/ UpdateUser(t) \/ UpdateRefused(t) \/ DeleteUser(t)
  \/ TotpEnroll(t) \/ TotpCheck(t) \/ TotpEnable(t) \/ TotpDisable(t)
  \/ OpenFile(t) \/ WriteFile(t) \/ ExchangeFails(t) \/ LookupOidc(t)

Next ==
  \/ \E t \in Threads : Api(t) \/ Step(t)
  \/ Restart \/ LockExpires \/ SessionExpires \/ PendingExpires

\* A thread is scheduled again and the mutex is fair enough.
Spec == Init /\ [][Next]_vars /\ \A t \in Threads : WF_vars(Step(t))
---------------------------------------------------------------------------
(* Properties. *)

\* The state stays well formed.
TypeOK ==
  /\ Owner \in DOMAIN acct /\ DOMAIN acct \subseteq All /\ acct[Owner].role = "admin"
  /\ \A n \in DOMAIN acct : acct[n].pass \in Passwords /\ acct[n].key \in 0..keys
  /\ DOMAIN sess \subseteq 1..minted /\ \A k \in DOMAIN sess : sess[k].user \in All
  /\ file = Torn \/ DOMAIN file \subseteq Names
  /\ \A n \in All : rate[n].locked => rate[n].fails >= MaxFails
  /\ held => \E t \in Threads : th[t].pc = "stuck"

\* A live session is of an existing account, opened with the password and
\* under the role the account has now.  The only others are the one session a
\* change was told to keep and those of logins that had verified the password
\* when the change came (login verifies under one lock and mints under
\* another); a migration that wrote an old password back is told apart.
SessionsCurrent ==
  "migrate" \in anomaly \/
  \A k \in DOMAIN sess : sess[k].how = "fresh" =>
    LET n == sess[k].user IN
    n \in DOMAIN acct /\ sess[k].pass = acct[n].pass /\ sess[k].role = acct[n].role

\* With no save under way users.json is what is in memory, so that a restart
\* changes nothing: if the last save that had the file for itself ended well
\* and no two have overlapped since.  A failed save, or a start that could not
\* load the file, is made good by the next one that does.
FileSettled == Saving = {} /\ mirror # "bad" => file = Saved(acct)

\* Within one window an address tries at most MaxFails passwords or codes of
\* an account, and one more for every other request under way at the same time.
GuessBudget == \A n \in All : guesses[n] <= MaxFails + Cardinality(Threads) - 1

\* A recovery code opens one session, across restarts too: unless the host
\* restarted when saves had failed or overlapped and none had mended that.
RecoveryOnce == "respent" \in anomaly => "lost" \in anomaly

\* Every request ends.  The code does not keep this (README, 3.2): the first
\* OpenID callback locks the mutex it already holds (auth.rs 1358).
Served == \A t \in Threads : th[t].pc # "idle" ~> th[t].pc = "idle"
=============================================================================
