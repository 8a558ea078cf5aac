----------------------------- MODULE Accounts_proofs -----------------------------
(***************************************************************************)
(* Proofs about the accounts: every variable keeps its type, and the four  *)
(* safety properties hold for any threads, names, passwords, limits and    *)
(* bounds.  Each property has an invariant of its own on top of the types; *)
(* a request is followed from one lock of the mutex to the next.           *)
(***************************************************************************)
EXTENDS Accounts, FiniteSetTheorems, TLAPS

----------------------------------------------------------------------------
(* Types *)

Ranks == {"viewer", "operator", "admin"}

Acct(k) == [pass : Passwords, legacy : BOOLEAN, role : Ranks,
            totp : {"off", "set", "on"}, key : 0..k, code : BOOLEAN]

\* What users.json can hold, as a function or torn.
Files(k) == UNION {[S -> Acct(k)] : S \in SUBSET Names}

Pcs == {"idle", "verify", "fail", "migrate", "totp", "recover", "success", "mint",
        "chpass", "create", "confirm", "update", "delete", "enroll", "check",
        "enable", "totpoff", "open", "write", "lookup", "stuck"}

LoginPcs == {"verify", "fail", "migrate", "totp", "recover", "success", "mint",
             "open", "write"}

Req(k) ==
  [pc : Pcs,
   op : {"none", "login", "chpass", "enroll", "totpon", "totpoff", "create",
         "update", "delete", "oidc"},
   who : All \cup {None}, keep : Nat, name : All \cup {None}, pass : 0..MaxPass,
   role : Ranks \cup {None}, own : 0..MaxPass,
   code : [kind : {"none", "totp", "recovery"}, key : 0..k],
   twofa : BOOLEAN, raced : BOOLEAN, snap : Files(k),
   next : {"idle", "totp", "success"}]

\* What a request carries at each of its steps.
Shaped(r) ==
  /\ r.op = "login" => /\ r.pc \in LoginPcs
                       /\ r.who \in All /\ r.pass \in Passwords
                       /\ r.pc \notin {"verify", "fail"} => r.role \in Ranks
                       /\ r.pc \in {"migrate", "open", "write"} => r.next # "idle"
                       /\ r.pc = "migrate" /\ r.next = "success" => ~r.twofa
  /\ r.pc \in LoginPcs \ {"open", "write"} => r.op = "login"
  /\ r.pc \in {"open", "write"} /\ r.next # "idle" => r.op = "login"
  /\ r.pc \in {"chpass", "create"} => r.pass \in Passwords
  /\ r.pc = "create" => r.name \in All /\ r.role \in Ranks
  /\ r.pc = "confirm" => r.op \in {"update", "delete"}

AcctTyped(a, k) ==
  /\ Owner \in DOMAIN a /\ DOMAIN a \subseteq All
  /\ a \in [DOMAIN a -> Acct(k)] /\ a[Owner].role = "admin"

Session == [user : All, pass : Passwords, role : Ranks,
            how : {"fresh", "kept", "raced"}]

ThreadsTyped ==
  /\ th \in [Threads -> Req(keys)]
  /\ \A t \in Threads : Shaped(th[t])

HeldTyped == held \in BOOLEAN /\ (held => \E t \in Threads : th[t].pc = "stuck")

SessTyped == DOMAIN sess \subseteq 1..minted /\ sess \in [DOMAIN sess -> Session]

RateTyped ==
  /\ rate \in [All -> [fails : Nat, locked : BOOLEAN]]
  /\ guesses \in [All -> Nat]
  /\ \A n \in All : rate[n].locked => rate[n].fails >= MaxFails

Types ==
  /\ keys \in Nat /\ minted \in Nat
  /\ AcctTyped(acct, keys)
  /\ file = Torn \/ file \in Files(keys)
  /\ spent \subseteq 0..keys
  /\ SessTyped /\ RateTyped /\ ThreadsTyped /\ HeldTyped

----------------------------------------------------------------------------
(* The invariants *)

\* A save that has the file for itself saves what is in memory.  Either nothing
\* was wrong before it, and the file is torn just while it writes, or it is
\* mending what was.
Lone ==
  /\ \A t, u \in Saving : t = u
  /\ \A t \in Saving : th[t].snap = Saved(acct)
  /\ (\E t \in Threads : th[t].pc = "write") => file = Torn
  /\ Saving = {} => mirror = "good" /\ file = Saved(acct)

Settled ==
  /\ mirror \in {"good", "mending", "bad"}
  /\ mirror # "bad" => Lone
  /\ mirror = "good" /\ file = Torn => \E t \in Threads : th[t].pc = "write"

\* A login that has used up a recovery code and has no session yet.
Past(r) ==
  /\ r.op = "login" /\ r.twofa /\ r.code.kind = "recovery"
  /\ \/ r.pc \in {"success", "mint"}
     \/ r.pc \in {"open", "write"} /\ r.next = "success"

\* A recovery code is in one place: unused in the account, with one login, or
\* spent.  In the file, if nothing is wrong with it, the code may stay until the
\* login that took it has saved.
OnePlace ==
  /\ "respent" \notin anomaly
  /\ \A n, m \in DOMAIN acct :
       acct[n].code /\ acct[m].code /\ acct[n].key = acct[m].key => n = m
  /\ \A n \in DOMAIN acct : acct[n].code =>
       /\ acct[n].key \notin spent
       /\ \A t \in Threads : Past(th[t]) => th[t].code.key # acct[n].key
  /\ file # Torn /\ mirror = "good" =>
       /\ \A n, m \in DOMAIN file :
            file[n].code /\ file[m].code /\ file[n].key = file[m].key => n = m
       /\ \A n \in DOMAIN file : file[n].code =>
            /\ file[n].key \notin spent
            /\ \A t \in Threads : Past(th[t]) /\ th[t].code.key = file[n].key
                                     => th[t].pc = "open"
  /\ \A t \in Threads : Past(th[t]) => th[t].code.key \notin spent
  /\ \A t, u \in Threads :
       Past(th[t]) /\ Past(th[u]) /\ th[t].code.key = th[u].code.key => t = u

\* Unless the host restarted when something was wrong with it.
Single == "lost" \in anomaly \/ OnePlace

\* Requests whose wrong guess is not counted in the bucket yet, and those that
\* may still guess.
Failing(n) == {t \in Threads : th[t].pc = "fail" /\ th[t].who = n}
Trying(n) == {t \in Threads : th[t].op = "login" /\ th[t].who = n
                /\ th[t].pc \in {"verify", "migrate", "open", "write", "totp", "recover"}}

Slack(n) == IF rate[n].fails < MaxFails THEN rate[n].fails ELSE 0

\* While the bucket is open its failures account for the guesses but those
\* under way; once it is locked nobody new may guess.
Bounded(n) ==
  IF rate[n].locked
  THEN guesses[n] + Cardinality(Trying(n)) <= MaxFails + Cardinality(Threads) - 1
  ELSE guesses[n] <= Slack(n) + Cardinality(Failing(n))

Budget == \A n \in All : Bounded(n)

\* A login that no change to its account has raced with still agrees with it.
Agrees(u, p, r) == u \in DOMAIN acct /\ p = acct[u].pass /\ r = acct[u].role

Current ==
  "migrate" \in anomaly \/
    /\ \A k \in DOMAIN sess :
         sess[k].how = "fresh" => Agrees(sess[k].user, sess[k].pass, sess[k].role)
    /\ \A t \in Threads :
         Verified(t) /\ ~th[t].raced => Agrees(th[t].who, th[t].pass, th[t].role)

----------------------------------------------------------------------------
(* Types: what the parts are made of *)

LEMMA EmptyFile == ASSUME NEW k \in Nat PROVE <<>> \in Files(k) /\ DOMAIN <<>> = {}
<1>1. DOMAIN <<>> = {} /\ <<>> = [x \in {} |-> {}]
  OBVIOUS
<1>2. <<>> \in [{} -> Acct(k)]
  BY <1>1
<1> QED
  BY <1>1, <1>2 DEF Files

LEMMA FilesAre ==
  ASSUME NEW k \in Nat, NEW f
  PROVE  f \in Files(k) <=> DOMAIN f \subseteq Names /\ f \in [DOMAIN f -> Acct(k)]
BY DEF Files

LEMMA NotTorn == ASSUME NEW k \in Nat PROVE Torn \notin Files(k)
<1> SUFFICES ASSUME NEW S \in SUBSET Names, Torn \in [S -> Acct(k)]
             PROVE  FALSE
  BY DEF Files
<1>1. \A a \in Acct(k) : a \in [pass : 1..MaxPass, legacy : BOOLEAN, role : {"viewer", "operator", "admin"},
                      totp : {"off", "set", "on"}, key : Nat, code : BOOLEAN]
  BY DEF Acct, Passwords, Ranks
<1>2. Torn \in [S -> [pass : 1..MaxPass, legacy : BOOLEAN, role : {"viewer", "operator", "admin"},
                      totp : {"off", "set", "on"}, key : Nat, code : BOOLEAN]]
  BY <1>1
<1> QED
  BY <1>2, AccountsTornAssumption

LEMMA SavedIs ==
  ASSUME NEW k \in Nat, NEW a, AcctTyped(a, k)
  PROVE  /\ Saved(a) \in Files(k) /\ DOMAIN Saved(a) = DOMAIN a \ {Owner}
         /\ \A n \in DOMAIN Saved(a) : Saved(a)[n] = a[n]
<1>1. /\ DOMAIN Saved(a) = DOMAIN a \ {Owner}
      /\ \A n \in DOMAIN Saved(a) : Saved(a)[n] = a[n]
  BY DEF Saved, Restrict
<1>2. DOMAIN a \ {Owner} \subseteq Names /\ a \in [DOMAIN a -> Acct(k)]
  BY DEF AcctTyped, All
<1>3. Saved(a) \in [DOMAIN a \ {Owner} -> Acct(k)]
  BY <1>2 DEF Saved, Restrict
<1> QED
  BY <1>1, <1>2, <1>3 DEF Files

LEMMA Grows ==
  ASSUME NEW k \in Nat
  PROVE  /\ Acct(k) \subseteq Acct(k + 1) /\ Files(k) \subseteq Files(k + 1)
         /\ Req(k) \subseteq Req(k + 1)
         /\ \A a : AcctTyped(a, k) => AcctTyped(a, k + 1)
<1>1. Acct(k) \subseteq Acct(k + 1)
  BY DEF Acct
<1>2. Files(k) \subseteq Files(k + 1)
  BY <1>1 DEF Files
<1>3. Req(k) \subseteq Req(k + 1)
  BY <1>2 DEF Req
<1>4. \A a : AcctTyped(a, k) => AcctTyped(a, k + 1)
  BY <1>1 DEF AcctTyped
<1> QED
  BY <1>1, <1>2, <1>3, <1>4

LEMMA AccountTyped ==
  ASSUME NEW k \in Nat, NEW p \in Passwords, NEW b \in BOOLEAN, NEW r \in Ranks
  PROVE  Account(p, b, r) \in Acct(k)
BY DEF Account, Acct

LEMMA BlankTyped ==
  ASSUME NEW k \in Nat PROVE Blank \in Req(k) /\ Shaped(Blank) /\ Blank.pc = "idle" /\ Blank.op = "none"
BY EmptyFile, AccountsBoundAssumption DEF Blank, Req, Shaped, Pcs, LoginPcs

LEMMA FreshTyped ==
  ASSUME NEW k \in Nat, NEW f \in Files(k)
  PROVE  AcctTyped(Fresh(f), k) /\ Saved(Fresh(f)) = f
<1>1. DOMAIN f \subseteq Names /\ f \in [DOMAIN f -> Acct(k)]
  BY FilesAre
<1>2. Account(1, FALSE, "admin") \in Acct(k) /\ Account(1, FALSE, "admin").role = "admin"
  BY AccountsBoundAssumption DEF Account, Acct, Ranks, Passwords
<1>3. AcctTyped(Fresh(f), k)
  BY <1>1, <1>2, AccountsNameAssumption DEF AcctTyped, Fresh, All
<1>4. Saved(Fresh(f)) = f
  BY <1>1, AccountsNameAssumption DEF Fresh, Saved, Restrict
<1> QED
  BY <1>3, <1>4

----------------------------------------------------------------------------
(* Admission *)

\* What every request that is admitted does.
Asks(t) ==
  /\ At(t, "idle")
  /\ \E r \in Req(keys) :
       /\ Shaped(r) /\ ~r.raced
       /\ r.pc \in {"verify", "chpass", "create", "confirm", "enroll", "check",
                    "totpoff", "lookup"}
       /\ r.op = "login" => ~rate[r.who].locked
       /\ th' = [th EXCEPT ![t] = r]
  /\ UNCHANGED <<acct, sess, rate, held, file, mirror, minted, keys, restarts, guesses,
                 spent, anomaly>>

LEMMA FieldTyped ==
  ASSUME NEW k, NEW r \in Req(k)
  PROVE  /\ \A v \in Pcs : [r EXCEPT !.pc = v] \in Req(k)
         /\ \A v \in {"none", "login", "chpass", "enroll", "totpon", "totpoff", "create",
                      "update", "delete", "oidc"} : [r EXCEPT !.op = v] \in Req(k)
         /\ \A v \in All \cup {None} : [r EXCEPT !.who = v] \in Req(k)
         /\ \A v \in Nat : [r EXCEPT !.keep = v] \in Req(k)
         /\ \A v \in All \cup {None} : [r EXCEPT !.name = v] \in Req(k)
         /\ \A v \in 0..MaxPass : [r EXCEPT !.pass = v] \in Req(k)
         /\ \A v \in Ranks \cup {None} : [r EXCEPT !.role = v] \in Req(k)
         /\ \A v \in 0..MaxPass : [r EXCEPT !.own = v] \in Req(k)
         /\ \A v \in [kind : {"none", "totp", "recovery"}, key : 0..k] :
              [r EXCEPT !.code = v] \in Req(k)
BY DEF Req

LEMMA RequestTyped ==
  ASSUME Types, NEW t \in Threads, NEW k \in DOMAIN sess,
         NEW op \in {"chpass", "enroll", "totpon", "totpoff", "create", "update", "delete"},
         NEW pc \in {"chpass", "create", "confirm", "enroll", "check", "totpoff"}
  PROVE  /\ Request(t, op, k, pc) \in Req(keys)
         /\ Request(t, op, k, pc).pc = pc /\ Request(t, op, k, pc).op = op
         /\ ~Request(t, op, k, pc).raced
<1>1. sess[k].user \in All /\ k \in Nat
  BY DEF Types, SessTyped, Session
<1>2. Blank \in Req(keys) /\ ~Blank.raced
  BY BlankTyped DEF Types, Blank
<1> DEFINE u == sess[k].user
           b1 == [Blank EXCEPT !.pc = pc]
           b2 == [b1 EXCEPT !.op = op]
           b3 == [b2 EXCEPT !.who = u]
           b4 == [b3 EXCEPT !.keep = k]
<1>3. b1 \in Req(keys) /\ b1.pc = pc /\ ~b1.raced
  <2>1. pc \in Pcs
    BY DEF Pcs
  <2>2. b1 \in Req(keys)
    BY <1>2, <2>1, FieldTyped
  <2> QED
    BY <1>2, <2>2 DEF Req
<1> HIDE DEF b1
<1>4. b2 \in Req(keys) /\ b2.pc = pc /\ b2.op = op /\ ~b2.raced
  BY <1>3, FieldTyped DEF Req
<1> HIDE DEF b2
<1>5. b3 \in Req(keys) /\ b3.pc = pc /\ b3.op = op /\ ~b3.raced
  BY <1>1, <1>4, FieldTyped DEF Req
<1> HIDE DEF b3, u
<1>6. b4 \in Req(keys) /\ b4.pc = pc /\ b4.op = op /\ ~b4.raced
  BY <1>1, <1>5, FieldTyped DEF Req
<1>7. Request(t, op, k, pc) = b4
  BY DEF Request, b1, b2, b3, u
<1> QED
  BY <1>6, <1>7

LEMMA ApiAsks ==
  ASSUME Types, NEW t \in Threads,
         \/ ApiLogin(t) \/ ApiChangePassword(t) \/ ApiTotpEnroll(t) \/ ApiTotpVerify(t)
         \/ ApiTotpDisable(t) \/ ApiCreateUser(t) \/ ApiUpdateUser(t)
         \/ ApiDeleteUser(t) \/ ApiOidcCallback(t)
  PROVE  Asks(t)
<1>1. keys \in Nat /\ Blank \in Req(keys) /\ ~Blank.raced
  BY BlankTyped DEF Types, Blank
<1>2. CASE ApiLogin(t)
  <2>1. PICK n \in All, p \in Passwords, c \in Codes :
          /\ ~rate[n].locked
          /\ Ask(t, [Blank EXCEPT !.pc = "verify", !.op = "login", !.who = n, !.pass = p, !.code = c])
    BY <1>2 DEF ApiLogin
  <2> DEFINE r == [Blank EXCEPT !.pc = "verify", !.op = "login", !.who = n, !.pass = p, !.code = c]
  <2> DEFINE b1 == [Blank EXCEPT !.pc = "verify"]
             b2 == [b1 EXCEPT !.op = "login"]
             b3 == [b2 EXCEPT !.who = n]
             b4 == [b3 EXCEPT !.pass = p]
             b5 == [b4 EXCEPT !.code = c]
  <2>4. c \in [kind : {"none", "totp", "recovery"}, key : 0..keys] /\ p \in 0..MaxPass
    BY <1>1, AccountsBoundAssumption DEF Codes, Passwords
  <2>5. "verify" \in Pcs
    BY DEF Pcs
  <2>6. b1 \in Req(keys)
    BY <1>1, <2>5, FieldTyped
  <2>7. b2 \in Req(keys)
    BY <2>6, FieldTyped
  <2>8. b3 \in Req(keys)
    BY <2>7, FieldTyped
  <2>9. b4 \in Req(keys)
    BY <2>4, <2>8, FieldTyped
  <2>2. b5 \in Req(keys) /\ r = b5
    BY <2>4, <2>9, FieldTyped
  <2>3. Shaped(r) /\ ~r.raced /\ r.pc = "verify" /\ r.who = n
    BY <1>1 DEF Req, Shaped, LoginPcs
  <2> QED
    BY <1>2, <2>1, <2>2, <2>3 DEF Asks, Ask, ApiLogin, Begins
<1>3. CASE ApiChangePassword(t)
  <2>1. PICK k \in DOMAIN sess, cur \in Passwords, new \in Passwords :
          Ask(t, [Request(t, "chpass", k, "chpass") EXCEPT !.own = cur, !.pass = new])
    BY <1>3 DEF ApiChangePassword
  <2> DEFINE b == Request(t, "chpass", k, "chpass")
             r == [b EXCEPT !.own = cur, !.pass = new]
  <2>2. b \in Req(keys) /\ b.pc = "chpass" /\ b.op = "chpass" /\ ~b.raced
    BY RequestTyped
  <2> HIDE DEF b
  <2>3. r \in Req(keys) /\ Shaped(r) /\ ~r.raced /\ r.pc = "chpass" /\ r.op = "chpass"
    <3>1. cur \in 0..MaxPass /\ new \in 0..MaxPass
      BY AccountsBoundAssumption DEF Passwords
    <3>2. [b EXCEPT !.own = cur] \in Req(keys)
      BY <2>2, <3>1, FieldTyped
    <3>3. r \in Req(keys)
      BY <3>1, <3>2, FieldTyped
    <3>4. ~r.raced /\ r.pc = "chpass" /\ r.op = "chpass" /\ r.pass = new
      BY <2>2 DEF Req
    <3> QED
      BY <3>3, <3>4 DEF Shaped, LoginPcs
  <2> QED
    BY <1>3, <2>1, <2>3 DEF Asks, Ask, ApiChangePassword, Begins, b
<1>4. CASE ApiTotpEnroll(t)
  <2>1. PICK k \in DOMAIN sess : Ask(t, Request(t, "enroll", k, "enroll"))
    BY <1>4 DEF ApiTotpEnroll
  <2> DEFINE r == Request(t, "enroll", k, "enroll")
  <2>2. r \in Req(keys) /\ r.pc = "enroll" /\ r.op = "enroll" /\ ~r.raced
    BY RequestTyped
  <2> HIDE DEF r
  <2>3. Shaped(r)
    BY <2>2 DEF Shaped, LoginPcs
  <2> QED
    BY <1>4, <2>1, <2>2, <2>3 DEF Asks, Ask, ApiTotpEnroll, Begins, r
<1>5. CASE ApiTotpVerify(t)
  <2>1. PICK k \in DOMAIN sess, c \in Codes :
          Ask(t, [Request(t, "totpon", k, "check") EXCEPT !.code = c])
    BY <1>5 DEF ApiTotpVerify
  <2> DEFINE b == Request(t, "totpon", k, "check")
             r == [b EXCEPT !.code = c]
  <2>2. b \in Req(keys) /\ b.pc = "check" /\ b.op = "totpon" /\ ~b.raced
    BY RequestTyped
  <2> HIDE DEF b
  <2>3. r \in Req(keys) /\ Shaped(r) /\ ~r.raced /\ r.pc = "check" /\ r.op = "totpon"
    BY <1>1, <2>2 DEF Req, Shaped, LoginPcs, Codes
  <2> QED
    BY <1>5, <2>1, <2>3 DEF Asks, Ask, ApiTotpVerify, Begins, b
<1>6. CASE ApiTotpDisable(t)
  <2>1. PICK k \in DOMAIN sess, p \in Passwords :
          Ask(t, [Request(t, "totpoff", k, "totpoff") EXCEPT !.own = p])
    BY <1>6 DEF ApiTotpDisable
  <2> DEFINE b == Request(t, "totpoff", k, "totpoff")
             r == [b EXCEPT !.own = p]
  <2>2. b \in Req(keys) /\ b.pc = "totpoff" /\ b.op = "totpoff" /\ ~b.raced
    BY RequestTyped
  <2> HIDE DEF b
  <2>3. r \in Req(keys) /\ Shaped(r) /\ ~r.raced /\ r.pc = "totpoff" /\ r.op = "totpoff"
    BY <2>2, AccountsBoundAssumption DEF Req, Shaped, Passwords, LoginPcs
  <2> QED
    BY <1>6, <2>1, <2>3 DEF Asks, Ask, ApiTotpDisable, Begins, b
<1>7. CASE ApiCreateUser(t)
  <2>1. PICK k \in DOMAIN sess, n \in All, p \in Passwords, ro \in Roles :
          Ask(t, [Request(t, "create", k, "create") EXCEPT !.name = n, !.pass = p, !.role = ro])
    BY <1>7 DEF ApiCreateUser
  <2> DEFINE b == Request(t, "create", k, "create")
             r == [b EXCEPT !.name = n, !.pass = p, !.role = ro]
  <2>2. b \in Req(keys) /\ b.pc = "create" /\ b.op = "create" /\ ~b.raced
    BY RequestTyped
  <2> HIDE DEF b
  <2>3. r \in Req(keys) /\ Shaped(r) /\ ~r.raced /\ r.pc = "create" /\ r.op = "create"
    <3>1. p \in 0..MaxPass /\ ro \in Ranks
      BY AccountsBoundAssumption, AccountsRoleAssumption DEF Passwords, Ranks
    <3>2. /\ r \in Req(keys) /\ ~r.raced /\ r.pc = "create" /\ r.op = "create"
          /\ r.pass = p /\ r.name = n /\ r.role = ro
      BY <2>2, <3>1 DEF Req
    <3> QED
      BY <3>1, <3>2 DEF Shaped, LoginPcs
  <2> QED
    BY <1>7, <2>1, <2>3 DEF Asks, Ask, ApiCreateUser, Begins, b
<1>8. CASE ApiUpdateUser(t)
  <2>1. PICK k \in DOMAIN sess, n \in All, m \in All \cup {None}, p \in 0..MaxPass,
             ro \in Roles \cup {None} :
          Ask(t, [Request(t, "update", k, "confirm") EXCEPT
                    !.who = n, !.name = m, !.pass = p, !.role = ro, !.own = acct[Owner].pass])
    BY <1>8 DEF ApiUpdateUser
  <2> DEFINE b == Request(t, "update", k, "confirm")
             o == acct[Owner].pass
             r == [b EXCEPT !.who = n, !.name = m, !.pass = p, !.role = ro, !.own = o]
  <2>2. b \in Req(keys) /\ b.pc = "confirm" /\ b.op = "update" /\ ~b.raced
    BY RequestTyped
  <2>3. o \in 0..MaxPass
    BY AccountsBoundAssumption DEF Types, AcctTyped, Acct, Passwords
  <2> HIDE DEF b, o
  <2>4. r \in Req(keys) /\ Shaped(r) /\ ~r.raced /\ r.pc = "confirm" /\ r.op = "update"
    BY <2>2, <2>3, AccountsRoleAssumption DEF Req, Shaped, LoginPcs, Ranks
  <2> QED
    BY <1>8, <2>1, <2>4 DEF Asks, Ask, ApiUpdateUser, Begins, b, o
<1>9. CASE ApiDeleteUser(t)
  <2>1. PICK k \in DOMAIN sess, n \in All :
          Ask(t, [Request(t, "delete", k, "confirm") EXCEPT !.who = n, !.own = acct[Owner].pass])
    BY <1>9 DEF ApiDeleteUser
  <2> DEFINE b == Request(t, "delete", k, "confirm")
             o == acct[Owner].pass
             r == [b EXCEPT !.who = n, !.own = o]
  <2>2. b \in Req(keys) /\ b.pc = "confirm" /\ b.op = "delete" /\ ~b.raced
    BY RequestTyped
  <2>3. o \in 0..MaxPass
    BY AccountsBoundAssumption DEF Types, AcctTyped, Acct, Passwords
  <2> HIDE DEF b, o
  <2>4. r \in Req(keys) /\ Shaped(r) /\ ~r.raced /\ r.pc = "confirm" /\ r.op = "delete"
    BY <2>2, <2>3 DEF Req, Shaped, LoginPcs
  <2> QED
    BY <1>9, <2>1, <2>4 DEF Asks, Ask, ApiDeleteUser, Begins, b, o
<1>10. CASE ApiOidcCallback(t)
  <2> DEFINE r == [Blank EXCEPT !.pc = "lookup", !.op = "oidc"]
  <2>2. "lookup" \in Pcs
    BY DEF Pcs
  <2>3. [Blank EXCEPT !.pc = "lookup"] \in Req(keys)
    BY <1>1, <2>2, FieldTyped
  <2>4. r \in Req(keys)
    BY <2>3, FieldTyped
  <2>5. ~r.raced /\ r.pc = "lookup" /\ r.op = "oidc"
    BY <1>1 DEF Req
  <2>1. r \in Req(keys) /\ Shaped(r) /\ ~r.raced /\ r.pc = "lookup" /\ r.op = "oidc"
    BY <2>4, <2>5 DEF Shaped, LoginPcs
  <2> QED
    BY <1>10, <2>1 DEF Asks, ApiOidcCallback, Begins
<1> QED
  BY <1>2, <1>3, <1>4, <1>5, <1>6, <1>7, <1>8, <1>9, <1>10

----------------------------------------------------------------------------
(* Types are kept *)

LEMMA Moves ==
  ASSUME Types, NEW t \in Threads, NEW r \in Req(keys'), Shaped(r),
         keys' \in {keys, keys + 1}, th' = [th EXCEPT ![t] = r]
  PROVE  /\ ThreadsTyped' /\ th'[t] = r
         /\ \A x \in Threads : x # t => th'[x] = th[x]
<1>1. Req(keys) \subseteq Req(keys')
  BY Grows DEF Types
<1> QED
  BY <1>1 DEF Types, ThreadsTyped

\* Only raced changes in another thread.
SameBut(r, s) ==
  /\ r.pc = s.pc /\ r.op = s.op /\ r.who = s.who /\ r.keep = s.keep /\ r.name = s.name
  /\ r.pass = s.pass /\ r.role = s.role /\ r.own = s.own /\ r.code = s.code
  /\ r.twofa = s.twofa /\ r.snap = s.snap /\ r.next = s.next

LEMMA Races ==
  ASSUME NEW k, NEW r \in Req(k), NEW b \in BOOLEAN
  PROVE  LET s == [r EXCEPT !.raced = b] IN
         s \in Req(k) /\ SameBut(s, r) /\ s.raced = b
BY DEF Req, SameBut

LEMMA SameShape ==
  ASSUME NEW r, NEW s, SameBut(r, s) PROVE Shaped(s) => Shaped(r)
BY DEF SameBut, Shaped

LEMMA ChangedIs ==
  ASSUME Types, NEW t \in Threads, NEW new, NEW rotated,
         NEW next \in {"idle", "totp", "success"},
         keys' \in {keys, keys + 1}, AcctTyped(new, keys'),
         next # "idle" <=> th[t].op = "login",
         th[t].op = "login" => th[t].role \in Ranks,
         Changed(t, new, rotated, next)
  PROVE  /\ ThreadsTyped'
         /\ acct' = new
         /\ th'[t].pc = "open" /\ th'[t].next = next /\ th'[t].snap = Saved(new)
         /\ th'[t].op = th[t].op /\ th'[t].who = th[t].who /\ th'[t].pass = th[t].pass
         /\ th'[t].role = th[t].role /\ th'[t].raced = th[t].raced
         /\ th'[t].code = th[t].code /\ th'[t].twofa = th[t].twofa
         /\ \A x \in Threads \ {t} :
              /\ SameBut(th'[x], th[x])
              /\ th'[x].raced = (th[x].raced \/ (Verified(x) /\ th[x].who \in rotated))
<1>1. /\ keys \in Nat /\ keys' \in Nat /\ Req(keys) \subseteq Req(keys')
      /\ Saved(new) \in Files(keys')
  <2>1. keys \in Nat /\ keys' \in Nat
    BY DEF Types
  <2>2. Req(keys) \subseteq Req(keys')
    BY <2>1, Grows
  <2>3. Saved(new) \in Files(keys')
    BY <2>1, SavedIs
  <2> QED
    BY <2>1, <2>2, <2>3
<1>2. th \in [Threads -> Req(keys)] /\ \A x \in Threads : Shaped(th[x])
  BY DEF Types, ThreadsTyped
<1> DEFINE q == [th[t] EXCEPT !.pc = "open", !.snap = Saved(new), !.next = next]
           rr(x) == th[x].raced \/ (Verified(x) /\ th[x].who \in rotated)
<1>3. /\ acct' = new
      /\ th' = [x \in Threads |-> IF x = t THEN q ELSE [th[x] EXCEPT !.raced = rr(x)]]
  BY DEF Changed
<1>4. q \in Req(keys')
  <2>1. th[t] \in Req(keys')
    BY <1>1, <1>2
  <2> DEFINE q1 == [th[t] EXCEPT !.pc = "open"]
             q2 == [q1 EXCEPT !.snap = Saved(new)]
  <2>2. "open" \in Pcs
    BY DEF Pcs
  <2>3. q1 \in Req(keys')
    BY <2>1, <2>2, FieldTyped
  <2>4. q2 \in Req(keys')
    <3> HIDE DEF q1
    <3> QED
      BY <1>1, <2>3 DEF Req
  <2>5. [q2 EXCEPT !.next = next] \in Req(keys')
    <3> HIDE DEF q2
    <3> QED
      BY <2>4 DEF Req
  <2> QED
    BY <2>5
<1>5. /\ q.pc = "open" /\ q.next = next /\ q.snap = Saved(new)
      /\ q.op = th[t].op /\ q.who = th[t].who /\ q.pass = th[t].pass
      /\ q.role = th[t].role /\ q.raced = th[t].raced
      /\ q.code = th[t].code /\ q.twofa = th[t].twofa
  BY <1>2 DEF Req
<1> HIDE DEF q
<1>6. Shaped(q)
  BY <1>2, <1>5 DEF Shaped, LoginPcs
<1>7. \A x \in Threads : th[x] \in Req(keys') /\ rr(x) \in BOOLEAN
  BY <1>1, <1>2 DEF Req
<1> HIDE DEF rr
<1>8. ASSUME NEW x \in Threads, x # t
      PROVE  /\ th'[x] \in Req(keys') /\ SameBut(th'[x], th[x]) /\ th'[x].raced = rr(x)
             /\ Shaped(th'[x])
  BY <1>2, <1>3, <1>7, <1>8, Races, SameShape
<1>9. th'[t] = q
  BY <1>3
<1>10. ThreadsTyped'
  BY <1>3, <1>4, <1>6, <1>8, <1>9 DEF ThreadsTyped
<1> QED
  BY <1>3, <1>5, <1>8, <1>9, <1>10 DEF rr

LEMMA GoesTo ==
  ASSUME Types, NEW t \in Threads, NEW pc \in Pcs, Goto(t, pc),
         Shaped([th[t] EXCEPT !.pc = pc]), keys' = keys
  PROVE  /\ ThreadsTyped'
         /\ th'[t] = [th[t] EXCEPT !.pc = pc] /\ th'[t].pc = pc
         /\ th'[t].op = th[t].op /\ th'[t].who = th[t].who /\ th'[t].pass = th[t].pass
         /\ th'[t].role = th[t].role /\ th'[t].raced = th[t].raced
         /\ th'[t].code = th[t].code /\ th'[t].twofa = th[t].twofa
         /\ th'[t].next = th[t].next /\ th'[t].snap = th[t].snap
         /\ \A x \in Threads : x # t => th'[x] = th[x]
<1>1. th \in [Threads -> Req(keys)]
  BY DEF Types, ThreadsTyped
<1> DEFINE r == [th[t] EXCEPT !.pc = pc]
<1>2. r \in Req(keys)
  BY <1>1, FieldTyped
<1>3. /\ r.pc = pc
      /\ r.op = th[t].op /\ r.who = th[t].who /\ r.pass = th[t].pass
      /\ r.role = th[t].role /\ r.raced = th[t].raced
      /\ r.code = th[t].code /\ r.twofa = th[t].twofa
      /\ r.next = th[t].next /\ r.snap = th[t].snap
  BY <1>1 DEF Req
<1>4. th' = [th EXCEPT ![t] = r]
  BY DEF Goto
<1> HIDE DEF r
<1>5. Shaped(r)
  BY DEF r
<1>6. /\ ThreadsTyped' /\ th'[t] = r
      /\ \A x \in Threads : x # t => th'[x] = th[x]
  BY <1>2, <1>4, <1>5, Moves
<1> QED
  BY <1>3, <1>6 DEF r

LEMMA EndsIs ==
  ASSUME Types, NEW t \in Threads, Done(t), keys' = keys
  PROVE  /\ ThreadsTyped' /\ th'[t] = Blank /\ th'[t].pc = "idle" /\ th'[t].op = "none"
         /\ \A x \in Threads : x # t => th'[x] = th[x]
<1>1. keys \in Nat /\ Blank \in Req(keys) /\ Shaped(Blank)
      /\ Blank.pc = "idle" /\ Blank.op = "none"
  BY BlankTyped DEF Types
<1>2. th' = [th EXCEPT ![t] = Blank]
  BY DEF Done
<1> QED
  BY <1>1, <1>2, Moves

LEMMA Static ==
  ASSUME Types, ThreadsTyped', HeldTyped',
         UNCHANGED <<keys, minted, acct, file, spent, sess, rate, guesses>>
  PROVE  Types'
BY DEF Types, SessTyped, RateTyped, ThreadsTyped, HeldTyped

\* A step under the mutex.
LEMMA Unheld == ASSUME ~held, held' = held, held \in BOOLEAN PROVE HeldTyped'
BY DEF HeldTyped

LEMMA AsksTypes == ASSUME Types, NEW t \in Threads, Asks(t) PROVE Types'
<1>1. PICK r \in Req(keys) : Shaped(r) /\ th' = [th EXCEPT ![t] = r]
  BY DEF Asks
<1>2. ThreadsTyped'
  BY <1>1, Moves DEF Asks
<1> QED
  BY <1>2, Static, Unheld DEF Asks, At, Types, HeldTyped

LEMMA EndsTypes == ASSUME Types, NEW t \in Threads, ~held, Ends(t) PROVE Types'
BY EndsIs, Static, Unheld DEF Ends, Types, HeldTyped

LEMMA PassesTypes ==
  ASSUME Types, NEW t \in Threads, LoginTotp(t) \/ Confirm(t) \/ TotpCheck(t)
  PROVE  Types'
<1>1. ~held /\ held' = held /\ th \in [Threads -> Req(keys)] /\ Shaped(th[t])
  BY DEF LoginTotp, Confirm, TotpCheck, At, Types, ThreadsTyped, Ends
<1>2. CASE Ends(t)
  BY <1>1, <1>2, EndsTypes
<1>3. CASE LoginTotp(t) /\ Done(t)
  BY <1>1, <1>3, EndsIs, Static, Unheld DEF LoginTotp, Types, HeldTyped
<1>4. ASSUME NEW pc \in Pcs, Shaped([th[t] EXCEPT !.pc = pc]), Goto(t, pc),
             UNCHANGED <<keys, minted, acct, file, spent, sess, rate, guesses>>
      PROVE  Types'
  <2>1. ThreadsTyped'
    BY <1>4, GoesTo
  <2> QED
    BY <1>1, <1>4, <2>1, Static, Unheld DEF Types, HeldTyped
<1>5. ASSUME NEW pc \in {"success", "recover"}, th[t].pc = "totp"
      PROVE  pc \in Pcs /\ Shaped([th[t] EXCEPT !.pc = pc])
  BY <1>1, <1>5 DEF Pcs, Shaped, Req, LoginPcs
<1>6. ASSUME th[t].pc = "confirm"
      PROVE  th[t].op \in Pcs /\ Shaped([th[t] EXCEPT !.pc = th[t].op])
  <2>1. th[t].op \in {"update", "delete"}
    BY <1>1, <1>6 DEF Shaped
  <2> QED
    BY <1>1, <2>1 DEF Pcs, Shaped, Req, LoginPcs
<1>7. ASSUME th[t].pc = "check"
      PROVE  "enable" \in Pcs /\ Shaped([th[t] EXCEPT !.pc = "enable"])
  BY <1>1, <1>7 DEF Pcs, Shaped, Req, LoginPcs
<1>8. CASE LoginTotp(t) /\ ~Done(t)
  BY <1>4, <1>5, <1>8 DEF LoginTotp, At
<1>9. CASE Confirm(t) /\ ~Ends(t)
  BY <1>4, <1>6, <1>9 DEF Confirm, At
<1>10. CASE TotpCheck(t) /\ ~Ends(t)
  BY <1>4, <1>7, <1>10 DEF TotpCheck, At
<1> QED
  BY <1>2, <1>3, <1>8, <1>9, <1>10

LEMMA VerifiedTypes ==
  ASSUME Types, NEW t \in Threads, LoginVerified(t)
  PROVE  /\ Types'
         /\ \A x \in Threads : x # t => th'[x] = th[x]
         /\ th'[t].op = "login" /\ th'[t].who = th[t].who /\ th'[t].pass = th[t].pass
         /\ th'[t].role = acct[th[t].who].role /\ th'[t].raced = th[t].raced
         /\ th'[t].pc \in {"migrate", "totp", "success"}
         /\ th'[t].pc = "success" => ~th'[t].twofa
<1> DEFINE n == th[t].who
           on == acct[n].totp = "on"
           then == IF on THEN "totp" ELSE "success"
           pc == IF acct[n].legacy THEN "migrate" ELSE then
           r == [th[t] EXCEPT !.twofa = on, !.role = acct[n].role, !.next = then, !.pc = pc]
<1>1. /\ th \in [Threads -> Req(keys)] /\ Shaped(th[t]) /\ th[t].pc = "verify"
      /\ ~held /\ held' = held /\ n \in DOMAIN acct /\ acct[n] \in Acct(keys)
  BY DEF LoginVerified, At, Types, ThreadsTyped, AcctTyped
<1>2. th' = [th EXCEPT ![t] = r]
  BY DEF LoginVerified
<1>3. /\ on \in BOOLEAN /\ then \in {"totp", "success"} /\ pc \in {"migrate", "totp", "success"}
      /\ pc # "migrate" => pc = then
      /\ then = "success" => ~on
      /\ acct[n].role \in Ranks
  BY <1>1 DEF Acct
<1> HIDE DEF on, then, pc
<1>4. r \in Req(keys)
  <2> DEFINE r1 == [th[t] EXCEPT !.twofa = on]
             r2 == [r1 EXCEPT !.role = acct[n].role]
             r3 == [r2 EXCEPT !.next = then]
  <2>1. r1 \in Req(keys)
    BY <1>1, <1>3 DEF Req
  <2>2. r2 \in Req(keys)
    BY <1>3, <2>1, FieldTyped
  <2>3. r3 \in Req(keys)
    <3> HIDE DEF r2
    <3> QED
      BY <1>3, <2>2 DEF Req
  <2>4. pc \in Pcs
    BY <1>3 DEF Pcs
  <2>5. [r3 EXCEPT !.pc = pc] \in Req(keys)
    BY <2>3, <2>4, FieldTyped
  <2> QED
    BY <2>5
<1>5. /\ r.pc = pc /\ r.next = then /\ r.twofa = on /\ r.role = acct[n].role
      /\ r.op = th[t].op /\ r.who = n /\ r.pass = th[t].pass /\ r.raced = th[t].raced
  BY <1>1 DEF Req
<1> HIDE DEF r
<1>6. th[t].op = "login" /\ n \in All /\ th[t].pass \in Passwords
  BY <1>1 DEF Shaped, LoginPcs
<1>7. Shaped(r)
  BY <1>3, <1>5, <1>6 DEF Shaped, LoginPcs
<1>8. ThreadsTyped' /\ th'[t] = r /\ \A x \in Threads : x # t => th'[x] = th[x]
  BY <1>2, <1>4, <1>7, Moves DEF LoginVerified
<1>9. Types'
  BY <1>1, <1>8, Static, Unheld DEF LoginVerified, Types, HeldTyped
<1>10. /\ th'[t].op = "login" /\ th'[t].who = th[t].who /\ th'[t].pass = th[t].pass
       /\ th'[t].role = acct[th[t].who].role /\ th'[t].raced = th[t].raced
       /\ th'[t].pc \in {"migrate", "totp", "success"}
  BY <1>3, <1>5, <1>6, <1>8
<1>11. th'[t].pc = "success" => ~th'[t].twofa
  <2>1. r.pc = "success" => ~on
    BY <1>3, <1>5
  <2> QED
    BY <1>5, <1>8, <2>1
<1> QED
  BY <1>8, <1>9, <1>10, <1>11

LEMMA SessRestricted ==
  ASSUME SessTyped, NEW S \in SUBSET DOMAIN sess, sess' = Restrict(sess, S), minted' = minted
  PROVE  /\ SessTyped' /\ DOMAIN sess' = S /\ \A k \in S : sess'[k] = sess[k]
BY DEF SessTyped, Restrict

LEMMA SessRetained ==
  ASSUME SessTyped, NEW n, NEW keep, sess' = Retained(n, keep), minted' = minted
  PROVE  /\ SessTyped' /\ DOMAIN sess' \subseteq DOMAIN sess
         /\ \A k \in DOMAIN sess' :
              \/ sess[k].user # n /\ sess'[k] = sess[k]
              \/ sess'[k].how = "kept"
<1> DEFINE left == {k \in DOMAIN sess : sess[k].user # n \/ k = keep}
<1>1. sess' = [k \in left |-> IF sess[k].user = n THEN [sess[k] EXCEPT !.how = "kept"] ELSE sess[k]]
  BY DEF Retained
<1>2. ASSUME NEW k \in left
      PROVE  /\ sess'[k] \in Session
             /\ \/ sess[k].user # n /\ sess'[k] = sess[k]
                \/ sess'[k].how = "kept"
  <2>1. sess[k] \in Session
    BY DEF SessTyped
  <2>2. CASE sess[k].user = n
    <3>1. sess'[k] = [sess[k] EXCEPT !.how = "kept"]
      BY <1>1, <2>2
    <3> QED
      BY <2>1, <3>1 DEF Session
  <2>3. CASE sess[k].user # n
    BY <1>1, <2>1, <2>3
  <2> QED
    BY <2>2, <2>3
<1>3. left \subseteq DOMAIN sess
  OBVIOUS
<1> HIDE DEF left
<1>4. DOMAIN sess' = left
  BY <1>1
<1> QED
  BY <1>1, <1>2, <1>3, <1>4 DEF SessTyped

LEMMA SessMoved ==
  ASSUME SessTyped, NEW t \in Threads, NEW n \in All, NEW m \in All,
         sess' = Moved(t, n, m), minted' = minted
  PROVE  /\ SessTyped' /\ DOMAIN sess' \subseteq DOMAIN sess
         /\ \A k \in DOMAIN sess' :
              \/ sess[k].user # n /\ sess'[k] = sess[k]
              \/ sess'[k].how = "kept"
              \/ /\ sess[k].user = n /\ sess'[k].user = m
                 /\ th[t].pass = 0 /\ th[t].role = None
                 /\ sess'[k].pass = sess[k].pass /\ sess'[k].role = sess[k].role
                 /\ sess'[k].how = sess[k].how
<1> DEFINE rotates == th[t].pass # 0 \/ th[t].role # None
           left == {k \in DOMAIN sess : sess[k].user # n \/ ~rotates \/ k = th[t].keep}
<1>1. sess' = [k \in left |->
                IF sess[k].user # n THEN sess[k]
                ELSE [sess[k] EXCEPT !.user = m, !.how = IF rotates THEN "kept" ELSE @]]
  BY DEF Moved
<1>2. ASSUME NEW k \in left
      PROVE  /\ sess'[k] \in Session
             /\ \/ sess[k].user # n /\ sess'[k] = sess[k]
                \/ sess'[k].how = "kept"
                \/ /\ sess[k].user = n /\ sess'[k].user = m /\ ~rotates
                   /\ sess'[k].pass = sess[k].pass /\ sess'[k].role = sess[k].role
                   /\ sess'[k].how = sess[k].how
  <2>1. sess[k] \in Session
    BY DEF SessTyped
  <2>2. CASE sess[k].user = n /\ rotates
    <3>1. sess'[k] = [sess[k] EXCEPT !.user = m, !.how = "kept"]
      BY <1>1, <2>2
    <3> QED
      BY <2>1, <3>1 DEF Session
  <2>3. CASE sess[k].user = n /\ ~rotates
    <3>1. sess'[k] = [sess[k] EXCEPT !.user = m, !.how = @]
      BY <1>1, <2>3
    <3>2. /\ sess'[k].user = m /\ sess'[k].pass = sess[k].pass
          /\ sess'[k].role = sess[k].role /\ sess'[k].how = sess[k].how
          /\ sess'[k] \in Session
      BY <2>1, <3>1 DEF Session
    <3> QED
      BY <2>3, <3>2
  <2>4. CASE sess[k].user # n
    BY <1>1, <2>1, <2>4
  <2> QED
    BY <2>2, <2>3, <2>4
<1>3. left \subseteq DOMAIN sess
  OBVIOUS
<1> HIDE DEF left
<1>4. DOMAIN sess' = left
  BY <1>1
<1> QED
  BY <1>1, <1>2, <1>3, <1>4 DEF SessTyped

\* Each change to the accounts is one of these.
Alters(t, new, rotated, next) ==
  /\ ~held /\ held' = held /\ th[t].pc \notin {"open", "write", "stuck"}
  /\ keys' \in {keys, keys + 1} /\ AcctTyped(new, keys')
  /\ next \in {"idle", "totp", "success"}
  /\ next # "idle" <=> th[t].op = "login"
  /\ th[t].op = "login" => th[t].role \in Ranks
  /\ Changed(t, new, rotated, next)
  /\ anomaly \subseteq anomaly'
  /\ anomaly' \subseteq anomaly \cup {"migrate"}
  /\ UNCHANGED <<minted, file, spent>>

LEMMA AltersTypes ==
  ASSUME Types, NEW t \in Threads, NEW new, NEW rotated, NEW next,
         Alters(t, new, rotated, next), SessTyped', RateTyped'
  PROVE  Types'
<1>1. ThreadsTyped' /\ acct' = new
  BY ChangedIs DEF Alters
<1>2. AcctTyped(new, keys') /\ keys' \in Nat /\ 0..keys \subseteq 0..keys'
      /\ Files(keys) \subseteq Files(keys')
  BY Grows DEF Alters, Types
<1> QED
  BY <1>1, <1>2, Unheld DEF Alters, Types, HeldTyped

LEMMA PassTyped ==
  ASSUME NEW k \in Nat, NEW a, AcctTyped(a, k), NEW n \in DOMAIN a, NEW p \in Passwords
  PROVE  AcctTyped([a EXCEPT ![n].pass = p, ![n].legacy = FALSE], k)
<1> DEFINE r == [a[n] EXCEPT !.pass = p, !.legacy = FALSE]
<1>1. a \in [DOMAIN a -> Acct(k)] /\ a[n] \in Acct(k)
  BY DEF AcctTyped
<1>2. r \in Acct(k) /\ r.role = a[n].role
  BY <1>1 DEF Acct
<1>3. [a EXCEPT ![n].pass = p, ![n].legacy = FALSE] = [a EXCEPT ![n] = r]
  BY <1>1
<1> HIDE DEF r
<1> QED
  BY <1>1, <1>2, <1>3 DEF AcctTyped

Migrated(t) ==
  IF th[t].who \in DOMAIN acct
  THEN [acct EXCEPT ![th[t].who].pass = th[t].pass, ![th[t].who].legacy = FALSE]
  ELSE acct

LEMMA MigrateAlters ==
  ASSUME Types, NEW t \in Threads, LoginMigrate(t)
  PROVE  Alters(t, Migrated(t), {}, th[t].next) /\ SessTyped' /\ RateTyped'
<1>1. /\ Shaped(th[t]) /\ th[t].pc = "migrate" /\ ~held /\ held' = held /\ keys' = keys
      /\ AcctTyped(acct, keys) /\ keys \in Nat /\ th[t] \in Req(keys)
  BY DEF LoginMigrate, At, Types, ThreadsTyped
<1>2. /\ th[t].op = "login" /\ th[t].pass \in Passwords /\ th[t].role \in Ranks
      /\ th[t].next \in {"totp", "success"}
  BY <1>1 DEF Shaped, LoginPcs, Req
<1>3. AcctTyped(Migrated(t), keys)
  BY <1>1, <1>2, PassTyped DEF Migrated
<1>4. Changed(t, Migrated(t), {}, th[t].next)
  BY DEF LoginMigrate, Migrated
<1>5. /\ anomaly \subseteq anomaly'
      /\ anomaly' \subseteq anomaly \cup {"migrate"}
  BY DEF LoginMigrate, Note
<1> QED
  BY <1>1, <1>2, <1>3, <1>4, <1>5 DEF Alters, LoginMigrate, Types, SessTyped, RateTyped

LEMMA RecoverAlters ==
  ASSUME Types, NEW t \in Threads, LoginRecover(t)
  PROVE  /\ Alters(t, [acct EXCEPT ![th[t].who].code = FALSE], {}, "success")
         /\ SessTyped' /\ RateTyped'
<1> DEFINE new == [acct EXCEPT ![th[t].who].code = FALSE]
<1>1. /\ Shaped(th[t]) /\ th[t].pc = "recover" /\ ~held /\ held' = held /\ keys' = keys
      /\ AcctTyped(acct, keys) /\ keys \in Nat
  BY DEF LoginRecover, At, Types, ThreadsTyped
<1>2. th[t].op = "login" /\ th[t].role \in Ranks
  BY <1>1 DEF Shaped, LoginPcs
<1>3. AcctTyped(new, keys)
  BY <1>1 DEF AcctTyped, Acct
<1>4. Changed(t, new, {}, "success")
  BY DEF LoginRecover
<1> HIDE DEF new
<1>5. Alters(t, new, {}, "success")
  BY <1>1, <1>2, <1>3, <1>4 DEF Alters, LoginRecover
<1> QED
  BY <1>5 DEF LoginRecover, Types, SessTyped, RateTyped, new

LEMMA ChangePasswordAlters ==
  ASSUME Types, NEW t \in Threads, ChangePassword(t), Knows(t)
  PROVE  /\ Alters(t, [acct EXCEPT ![th[t].who].pass = th[t].pass, ![th[t].who].legacy = FALSE],
                   {th[t].who}, "idle")
         /\ SessTyped' /\ RateTyped' /\ sess' = Retained(th[t].who, th[t].keep)
         /\ th[t].who \in DOMAIN acct
<1> DEFINE new == [acct EXCEPT ![th[t].who].pass = th[t].pass, ![th[t].who].legacy = FALSE]
<1>1. /\ Shaped(th[t]) /\ th[t].pc = "chpass" /\ ~held /\ held' = held /\ keys' = keys
      /\ AcctTyped(acct, keys) /\ keys \in Nat /\ th[t].who \in DOMAIN acct
  BY DEF ChangePassword, At, Types, ThreadsTyped, Knows
<1>2. th[t].op # "login" /\ th[t].pass \in Passwords
  BY <1>1 DEF Shaped, LoginPcs
<1>3. AcctTyped(new, keys)
  BY <1>1, <1>2, PassTyped
<1>4. /\ Changed(t, new, {th[t].who}, "idle") /\ sess' = Retained(th[t].who, th[t].keep)
      /\ anomaly' = anomaly
      /\ UNCHANGED <<rate, held, pending, file, minted, keys, reqs, restarts, guesses, spent>>
  BY DEF ChangePassword
<1> HIDE DEF new
<1>5. Alters(t, new, {th[t].who}, "idle")
  BY <1>1, <1>2, <1>3, <1>4 DEF Alters
<1>6. SessTyped' /\ RateTyped'
  BY <1>4, SessRetained DEF Types, RateTyped
<1> QED
  BY <1>1, <1>4, <1>5, <1>6 DEF new

Created(t) ==
  [x \in DOMAIN acct \cup {th[t].name} |->
     IF x = th[t].name THEN Account(th[t].pass, FALSE, th[t].role) ELSE acct[x]]

LEMMA CreateAlters ==
  ASSUME Types, NEW t \in Threads, CreateUser(t), th[t].name \notin DOMAIN acct
  PROVE  Alters(t, Created(t), {}, "idle") /\ SessTyped' /\ RateTyped'
<1>1. /\ Shaped(th[t]) /\ th[t].pc = "create" /\ ~held /\ held' = held /\ keys' = keys
      /\ AcctTyped(acct, keys) /\ keys \in Nat
  BY DEF CreateUser, At, Types, ThreadsTyped
<1>2. /\ th[t].op # "login" /\ th[t].pass \in Passwords /\ th[t].role \in Ranks
      /\ th[t].name \in All
  BY <1>1 DEF Shaped, LoginPcs
<1>3. AcctTyped(Created(t), keys)
  <2>1. Account(th[t].pass, FALSE, th[t].role) \in Acct(keys)
    BY <1>1, <1>2, AccountTyped
  <2> QED
    BY <1>1, <1>2, <2>1 DEF AcctTyped, Created
<1>4. /\ Changed(t, Created(t), {}, "idle")
      /\ anomaly' = anomaly
      /\ UNCHANGED <<sess, rate, held, pending, file, minted, keys, reqs, restarts, guesses, spent>>
  BY DEF CreateUser, Created
<1> QED
  BY <1>1, <1>2, <1>3, <1>4 DEF Alters, Types, SessTyped, RateTyped

Target(t) == IF th[t].name = None THEN th[t].who ELSE th[t].name

Edited(t) ==
  [acct[th[t].who] EXCEPT
     !.pass = IF th[t].pass = 0 THEN @ ELSE th[t].pass,
     !.legacy = @ /\ th[t].pass = 0,
     !.role = IF th[t].role = None THEN @ ELSE th[t].role]

Updated(t) ==
  [x \in (DOMAIN acct \ {th[t].who}) \cup {Target(t)} |->
     IF x = Target(t) THEN Edited(t) ELSE acct[x]]

LEMMA EditedIs ==
  ASSUME Types, NEW t \in Threads, th[t].who \in DOMAIN acct
  PROVE  /\ Edited(t) \in Acct(keys)
         /\ Edited(t).key = acct[th[t].who].key /\ Edited(t).code = acct[th[t].who].code
         /\ th[t].pass = 0 => Edited(t).pass = acct[th[t].who].pass
         /\ th[t].role = None => Edited(t).role = acct[th[t].who].role
<1> DEFINE a == acct[th[t].who]
           p == IF th[t].pass = 0 THEN a.pass ELSE th[t].pass
           b == a.legacy /\ th[t].pass = 0
           o == IF th[t].role = None THEN a.role ELSE th[t].role
<1>1. a \in Acct(keys)
  BY DEF Types, AcctTyped
<1>2. th[t].pass \in 0..MaxPass /\ th[t].role \in Ranks \cup {None}
  BY DEF Types, ThreadsTyped, Req
<1>3. p \in Passwords /\ b \in BOOLEAN /\ o \in Ranks
  BY <1>1, <1>2, AccountsBoundAssumption DEF Acct, Passwords
<1>4. Edited(t) = [a EXCEPT !.pass = p, !.legacy = b, !.role = o]
  BY <1>1 DEF Edited, Acct
<1>5. /\ th[t].pass = 0 => p = a.pass
      /\ th[t].role = None => o = a.role
  OBVIOUS
<1> HIDE DEF a, p, b, o
<1>6. [a EXCEPT !.pass = p, !.legacy = b, !.role = o] \in Acct(keys)
  BY <1>1, <1>3 DEF Acct
<1>7. /\ Edited(t).pass = p /\ Edited(t).role = o
      /\ Edited(t).key = a.key /\ Edited(t).code = a.code
  BY <1>1, <1>4 DEF Acct
<1> QED
  BY <1>4, <1>5, <1>6, <1>7 DEF a

LEMMA UpdateAlters ==
  ASSUME Types, NEW t \in Threads, UpdateUser(t)
  PROVE  /\ Alters(t, Updated(t), {th[t].who}, "idle")
         /\ SessTyped' /\ RateTyped' /\ sess' = Moved(t, th[t].who, Target(t))
         /\ th[t].who \in DOMAIN acct \ {Owner} /\ Target(t) \in All
         /\ Target(t) \notin DOMAIN acct \ {th[t].who}
<1>1. /\ Shaped(th[t]) /\ th[t].pc = "update" /\ ~held /\ held' = held /\ keys' = keys
      /\ AcctTyped(acct, keys) /\ keys \in Nat /\ th[t] \in Req(keys)
      /\ th[t].who \in DOMAIN acct \ {Owner}
      /\ th[t].name = None \/ th[t].name \notin DOMAIN acct
  BY DEF UpdateUser, At, Types, ThreadsTyped
<1>2. th[t].op # "login" /\ th[t].name \in All \cup {None}
  BY <1>1 DEF Shaped, LoginPcs, Req
<1>3. Target(t) \in All /\ Target(t) \notin DOMAIN acct \ {th[t].who} /\ Target(t) # Owner
  BY <1>1, <1>2 DEF Target, AcctTyped
<1>4. AcctTyped(Updated(t), keys)
  <2>1. Edited(t) \in Acct(keys)
    BY <1>1, EditedIs
  <2> QED
    BY <1>1, <1>3, <2>1 DEF AcctTyped, Updated
<1>5. /\ Changed(t, Updated(t), {th[t].who}, "idle")
      /\ sess' = Moved(t, th[t].who, Target(t))
      /\ anomaly' = anomaly
      /\ UNCHANGED <<rate, held, pending, file, minted, keys, reqs, restarts, guesses, spent>>
  BY DEF UpdateUser, Updated, Edited, Target
<1>6. Alters(t, Updated(t), {th[t].who}, "idle")
  BY <1>1, <1>2, <1>4, <1>5 DEF Alters
<1>7. SessTyped' /\ RateTyped'
  <2>1. th[t].who \in All
    BY <1>1 DEF AcctTyped
  <2> QED
    BY <1>3, <1>5, <2>1, SessMoved DEF Types, RateTyped
<1> QED
  BY <1>1, <1>3, <1>5, <1>6, <1>7

LEMMA RateCleared ==
  ASSUME RateTyped, NEW n, rate' = [rate EXCEPT ![n] = NoBucket],
         guesses' = [guesses EXCEPT ![n] = 0]
  PROVE  RateTyped'
<1>1. NoBucket \in [fails : Nat, locked : BOOLEAN] /\ ~NoBucket.locked
  BY DEF NoBucket
<1> QED
  BY <1>1 DEF RateTyped

LEMMA DeleteAlters ==
  ASSUME Types, NEW t \in Threads, DeleteUser(t), th[t].who \in DOMAIN acct \ {Owner}
  PROVE  /\ Alters(t, Restrict(acct, DOMAIN acct \ {th[t].who}), {th[t].who}, "idle")
         /\ SessTyped' /\ RateTyped'
         /\ sess' = Restrict(sess, {k \in DOMAIN sess : sess[k].user # th[t].who})
<1> DEFINE new == Restrict(acct, DOMAIN acct \ {th[t].who})
<1>1. /\ Shaped(th[t]) /\ th[t].pc = "delete" /\ ~held /\ held' = held /\ keys' = keys
      /\ AcctTyped(acct, keys) /\ keys \in Nat
  BY DEF DeleteUser, At, Types, ThreadsTyped
<1>2. th[t].op # "login"
  BY <1>1 DEF Shaped, LoginPcs
<1>3. AcctTyped(new, keys)
  BY <1>1 DEF AcctTyped, Restrict
<1>4. /\ Changed(t, new, {th[t].who}, "idle")
      /\ sess' = Restrict(sess, {k \in DOMAIN sess : sess[k].user # th[t].who})
      /\ rate' = [rate EXCEPT ![th[t].who] = NoBucket]
      /\ guesses' = [guesses EXCEPT ![th[t].who] = 0]
      /\ anomaly' = anomaly
      /\ UNCHANGED <<held, pending, file, minted, keys, reqs, restarts, spent>>
  BY DEF DeleteUser
<1> HIDE DEF new
<1>5. Alters(t, new, {th[t].who}, "idle")
  BY <1>1, <1>2, <1>3, <1>4 DEF Alters
<1>6. SessTyped' /\ RateTyped'
  BY <1>4, SessRestricted, RateCleared DEF Types
<1> QED
  BY <1>4, <1>5, <1>6 DEF new

LEMMA FactorTyped ==
  ASSUME NEW k, NEW a \in Acct(k), NEW n \in 0..k
  PROVE  /\ [a EXCEPT !.totp = "set", !.key = n, !.code = TRUE] \in Acct(k)
         /\ [a EXCEPT !.totp = "set", !.key = n, !.code = TRUE].role = a.role
         /\ [a EXCEPT !.totp = "off", !.key = n, !.code = FALSE] \in Acct(k)
         /\ [a EXCEPT !.totp = "off", !.key = n, !.code = FALSE].role = a.role
BY DEF Acct

LEMMA EnrolledTyped ==
  ASSUME NEW k \in Nat, NEW a \in Acct(k + 1)
  PROVE  /\ [a EXCEPT !.totp = "set", !.key = k + 1, !.code = TRUE] \in Acct(k + 1)
         /\ [a EXCEPT !.totp = "set", !.key = k + 1, !.code = TRUE].role = a.role
<1> DEFINE i == k + 1
<1>1. i \in 0..i /\ a \in Acct(i)
  OBVIOUS
<1> HIDE DEF i
<1>2. [a EXCEPT !.totp = "set", !.key = i, !.code = TRUE] \in Acct(i)
  BY <1>1, FactorTyped
<1>3. [a EXCEPT !.totp = "set", !.key = i, !.code = TRUE].role = a.role
  BY <1>1, FactorTyped
<1> QED
  BY <1>2, <1>3 DEF i

LEMMA ClearedTyped ==
  ASSUME NEW k \in Nat, NEW a \in Acct(k)
  PROVE  /\ [a EXCEPT !.totp = "off", !.key = 0, !.code = FALSE] \in Acct(k)
         /\ [a EXCEPT !.totp = "off", !.key = 0, !.code = FALSE].role = a.role
<1> DEFINE z == 0
<1>1. z \in 0..k
  OBVIOUS
<1> HIDE DEF z
<1>2. /\ [a EXCEPT !.totp = "off", !.key = z, !.code = FALSE] \in Acct(k)
      /\ [a EXCEPT !.totp = "off", !.key = z, !.code = FALSE].role = a.role
  BY <1>1, FactorTyped
<1> QED
  BY <1>2 DEF z

LEMMA EnrollAlters ==
  ASSUME Types, NEW t \in Threads, TotpEnroll(t), th[t].who \in DOMAIN acct
  PROVE  /\ Alters(t, [acct EXCEPT ![th[t].who].totp = "set", ![th[t].who].key = keys + 1,
                                   ![th[t].who].code = TRUE], {}, "idle")
         /\ SessTyped' /\ RateTyped' /\ keys' = keys + 1
<1> DEFINE n == th[t].who
           r == [acct[n] EXCEPT !.totp = "set", !.key = keys + 1, !.code = TRUE]
           new == [acct EXCEPT ![n].totp = "set", ![n].key = keys + 1, ![n].code = TRUE]
<1>1. /\ Shaped(th[t]) /\ th[t].pc = "enroll" /\ ~held /\ held' = held /\ keys' = keys + 1
      /\ AcctTyped(acct, keys) /\ keys \in Nat
  BY DEF TotpEnroll, At, Types, ThreadsTyped
<1>2. th[t].op # "login"
  BY <1>1 DEF Shaped, LoginPcs
<1>3. AcctTyped(new, keys')
  <2>1. AcctTyped(acct, keys + 1)
    BY <1>1, Grows
  <2>2. acct[n] \in Acct(keys + 1) /\ acct \in [DOMAIN acct -> Acct(keys + 1)]
    BY <2>1 DEF AcctTyped
  <2>3. r \in Acct(keys + 1) /\ r.role = acct[n].role
    BY <1>1, <2>2, EnrolledTyped
  <2>4. new = [acct EXCEPT ![n] = r]
    BY <2>2
  <2> HIDE DEF r, new
  <2> QED
    BY <1>1, <2>1, <2>2, <2>3, <2>4 DEF AcctTyped
<1>4. /\ Changed(t, new, {}, "idle")
      /\ anomaly' = anomaly
      /\ UNCHANGED <<sess, rate, held, pending, file, minted, reqs, restarts, guesses, spent>>
  BY <1>1 DEF TotpEnroll
<1> HIDE DEF new
<1>5. Alters(t, new, {}, "idle")
  BY <1>1, <1>2, <1>3, <1>4 DEF Alters
<1>6. SessTyped' /\ RateTyped'
  BY <1>4 DEF Types, SessTyped, RateTyped
<1> QED
  BY <1>1, <1>5, <1>6 DEF new

LEMMA EnableAlters ==
  ASSUME Types, NEW t \in Threads, TotpEnable(t), th[t].who \in DOMAIN acct
  PROVE  /\ Alters(t, [acct EXCEPT ![th[t].who].totp = "on"], {}, "idle")
         /\ SessTyped' /\ RateTyped'
         /\ \E S \in SUBSET DOMAIN sess : sess' = Restrict(sess, S)
<1> DEFINE new == [acct EXCEPT ![th[t].who].totp = "on"]
           own == {k \in DOMAIN sess : sess[k].user = th[t].who}
<1>1. /\ Shaped(th[t]) /\ th[t].pc = "enable" /\ ~held /\ held' = held /\ keys' = keys
      /\ AcctTyped(acct, keys) /\ keys \in Nat
  BY DEF TotpEnable, At, Types, ThreadsTyped
<1>2. th[t].op # "login"
  BY <1>1 DEF Shaped, LoginPcs
<1>3. AcctTyped(new, keys)
  BY <1>1 DEF AcctTyped, Acct
<1>4. /\ Changed(t, new, {}, "idle")
      /\ \/ \E k \in own : sess' = Restrict(sess, (DOMAIN sess \ own) \cup {k})
         \/ sess' = sess
      /\ anomaly' = anomaly
      /\ UNCHANGED <<rate, held, pending, file, minted, keys, reqs, restarts, guesses, spent>>
  BY DEF TotpEnable
<1> HIDE DEF new
<1>5. Alters(t, new, {}, "idle")
  BY <1>1, <1>2, <1>3, <1>4 DEF Alters
<1>6. \E S \in SUBSET DOMAIN sess : sess' = Restrict(sess, S)
  <2>1. sess = Restrict(sess, DOMAIN sess)
    BY DEF Restrict, Types, SessTyped
  <2> QED
    BY <1>4, <2>1
<1>7. SessTyped' /\ RateTyped'
  BY <1>4, <1>6, SessRestricted DEF Types, RateTyped
<1> QED
  BY <1>5, <1>6, <1>7 DEF new

LEMMA DisableAlters ==
  ASSUME Types, NEW t \in Threads, TotpDisable(t), Knows(t)
  PROVE  /\ Alters(t, [acct EXCEPT ![th[t].who].totp = "off", ![th[t].who].key = 0,
                                   ![th[t].who].code = FALSE], {}, "idle")
         /\ SessTyped' /\ RateTyped' /\ th[t].who \in DOMAIN acct
<1> DEFINE n == th[t].who
           r == [acct[n] EXCEPT !.totp = "off", !.key = 0, !.code = FALSE]
           new == [acct EXCEPT ![n].totp = "off", ![n].key = 0, ![n].code = FALSE]
<1>1. /\ Shaped(th[t]) /\ th[t].pc = "totpoff" /\ ~held /\ held' = held /\ keys' = keys
      /\ AcctTyped(acct, keys) /\ keys \in Nat /\ n \in DOMAIN acct
  BY DEF TotpDisable, At, Types, ThreadsTyped, Knows
<1>2. th[t].op # "login"
  BY <1>1 DEF Shaped, LoginPcs
<1>3. AcctTyped(new, keys)
  <2>1. acct[n] \in Acct(keys) /\ acct \in [DOMAIN acct -> Acct(keys)]
    BY <1>1 DEF AcctTyped
  <2>2. r \in Acct(keys) /\ r.role = acct[n].role
    BY <1>1, <2>1, ClearedTyped
  <2>3. new = [acct EXCEPT ![n] = r]
    BY <2>1
  <2> HIDE DEF r, new
  <2> QED
    BY <1>1, <2>1, <2>2, <2>3 DEF AcctTyped
<1>4. /\ Changed(t, new, {}, "idle")
      /\ anomaly' = anomaly
      /\ UNCHANGED <<sess, rate, held, pending, file, minted, keys, reqs, restarts, guesses, spent>>
  BY DEF TotpDisable
<1> HIDE DEF new
<1>5. Alters(t, new, {}, "idle")
  BY <1>1, <1>2, <1>3, <1>4 DEF Alters
<1>6. SessTyped' /\ RateTyped'
  BY <1>4 DEF Types, SessTyped, RateTyped
<1> QED
  BY <1>1, <1>5, <1>6 DEF new

\* The changes to the accounts that go through users.json.
AltersSome(t) ==
  \/ LoginMigrate(t) \/ LoginRecover(t) \/ UpdateUser(t)
  \/ ChangePassword(t) /\ Knows(t)
  \/ CreateUser(t) /\ th[t].name \notin DOMAIN acct
  \/ DeleteUser(t) /\ th[t].who \in DOMAIN acct \ {Owner}
  \/ TotpEnroll(t) /\ th[t].who \in DOMAIN acct
  \/ TotpEnable(t) /\ th[t].who \in DOMAIN acct
  \/ TotpDisable(t) /\ Knows(t)

LEMMA AltersSomeIs ==
  ASSUME Types, NEW t \in Threads, AltersSome(t)
  PROVE  (\E new, rotated, next : Alters(t, new, rotated, next)) /\ SessTyped' /\ RateTyped'
BY MigrateAlters, RecoverAlters, UpdateAlters, ChangePasswordAlters, CreateAlters,
   DeleteAlters, EnrollAlters, EnableAlters, DisableAlters DEF AltersSome

LEMMA AltersSomeTypes ==
  ASSUME Types, NEW t \in Threads, AltersSome(t) PROVE Types'
BY AltersSomeIs, AltersTypes

\* The other steps on the bucket of an account.
LEMMA RefusesTypes ==
  ASSUME Types, NEW t \in Threads, LoginRefused(t) \/ LoginBadCode(t)
  PROVE  /\ Types' /\ th'[t].pc = "fail" /\ th'[t].who = th[t].who /\ th'[t].op = "login"
         /\ \A x \in Threads : x # t => th'[x] = th[x]
         /\ th[t].pc \in {"verify", "recover"} /\ th[t].op = "login" /\ th[t].who \in All
         /\ guesses' = [guesses EXCEPT ![th[t].who] = @ + 1]
<1>1. /\ th[t].pc \in {"verify", "recover"} /\ ~held /\ held' = held /\ Goto(t, "fail")
      /\ guesses' = [guesses EXCEPT ![th[t].who] = @ + 1]
      /\ UNCHANGED <<acct, sess, rate, held, pending, file, minted, keys, reqs, restarts, spent, anomaly>>
  BY DEF LoginRefused, LoginBadCode, Refuses, At
<1>2. th[t] \in Req(keys) /\ Shaped(th[t])
  BY DEF Types, ThreadsTyped
<1>3. th[t].op = "login" /\ th[t].who \in All
  BY <1>1, <1>2 DEF Shaped, LoginPcs
<1>4. "fail" \in Pcs /\ Shaped([th[t] EXCEPT !.pc = "fail"])
  BY <1>2, <1>3 DEF Pcs, Shaped, LoginPcs, Req
<1>5. /\ ThreadsTyped' /\ th'[t].pc = "fail" /\ th'[t].who = th[t].who /\ th'[t].op = th[t].op
      /\ \A x \in Threads : x # t => th'[x] = th[x]
  BY <1>1, <1>4, GoesTo
<1>6. RateTyped'
  BY <1>1, <1>3 DEF Types, RateTyped
<1>7. Types'
  BY <1>1, <1>5, <1>6, Unheld DEF Types, SessTyped, HeldTyped
<1> QED
  BY <1>1, <1>3, <1>5, <1>7

LEMMA FailTypes ==
  ASSUME Types, NEW t \in Threads, LoginFail(t)
  PROVE  /\ Types' /\ th'[t].pc = "idle" /\ th'[t].op = "none"
         /\ \A x \in Threads : x # t => th'[x] = th[x]
         /\ th[t].pc = "fail" /\ th[t].op = "login" /\ th[t].who \in All
         /\ rate' = [rate EXCEPT ![th[t].who] =
                       [fails |-> rate[th[t].who].fails + 1,
                        locked |-> @.locked \/ rate[th[t].who].fails + 1 >= MaxFails]]
         /\ guesses' = guesses
<1>1. /\ th[t].pc = "fail" /\ ~held /\ held' = held /\ Done(t)
      /\ rate' = [rate EXCEPT ![th[t].who] =
                    [fails |-> rate[th[t].who].fails + 1,
                     locked |-> @.locked \/ rate[th[t].who].fails + 1 >= MaxFails]]
      /\ UNCHANGED <<acct, sess, held, pending, file, minted, keys, reqs, restarts, guesses, spent, anomaly>>
  BY DEF LoginFail, At
<1>2. Shaped(th[t])
  BY DEF Types, ThreadsTyped
<1>3. th[t].op = "login" /\ th[t].who \in All
  BY <1>1, <1>2 DEF Shaped, LoginPcs
<1>4. /\ ThreadsTyped' /\ th'[t].pc = "idle" /\ th'[t].op = "none"
      /\ \A x \in Threads : x # t => th'[x] = th[x]
  BY <1>1, EndsIs
<1>5. RateTyped'
  <2> DEFINE n == th[t].who
             b == rate[n].locked \/ rate[n].fails + 1 >= MaxFails
  <2>1. /\ rate \in [All -> [fails : Nat, locked : BOOLEAN]] /\ rate[n].fails \in Nat
        /\ n \in All /\ MaxFails \in Nat
        /\ \A x \in All : rate[x].locked => rate[x].fails >= MaxFails
    BY <1>3, AccountsBoundAssumption DEF Types, RateTyped
  <2>2. b \in BOOLEAN /\ (b => rate[n].fails + 1 >= MaxFails)
    BY <2>1
  <2>3. rate' = [rate EXCEPT ![n] = [fails |-> rate[n].fails + 1, locked |-> b]]
    BY <1>1, <2>1
  <2> HIDE DEF n, b
  <2> QED
    BY <1>1, <2>1, <2>2, <2>3 DEF Types, RateTyped
<1>6. Types'
  BY <1>1, <1>4, <1>5, Unheld DEF Types, SessTyped, HeldTyped
<1> QED
  BY <1>1, <1>3, <1>4, <1>6

LEMMA SuccessTypes ==
  ASSUME Types, NEW t \in Threads, LoginSuccess(t)
  PROVE  /\ Types' /\ th'[t].pc = "mint" /\ th[t].pc = "success"
         /\ th[t].op = "login" /\ th'[t].op = "login"
         /\ th'[t].who = th[t].who /\ th'[t].pass = th[t].pass
         /\ th'[t].role = th[t].role /\ th'[t].raced = th[t].raced
         /\ th'[t].code = th[t].code /\ th'[t].twofa = th[t].twofa
         /\ \A x \in Threads : x # t => th'[x] = th[x]
<1>1. /\ th[t].pc = "success" /\ ~held /\ held' = held /\ Goto(t, "mint")
      /\ rate' = [rate EXCEPT ![th[t].who] = NoBucket]
      /\ guesses' = [guesses EXCEPT ![th[t].who] = 0]
      /\ UNCHANGED <<acct, sess, held, pending, file, minted, keys, reqs, restarts, spent, anomaly>>
  BY DEF LoginSuccess, At
<1>2. th[t] \in Req(keys) /\ Shaped(th[t])
  BY DEF Types, ThreadsTyped
<1>3. th[t].op = "login"
  BY <1>1, <1>2 DEF Shaped, LoginPcs
<1>4. "mint" \in Pcs /\ Shaped([th[t] EXCEPT !.pc = "mint"])
  BY <1>1, <1>2, <1>3 DEF Pcs, Shaped, LoginPcs, Req
<1>5. /\ ThreadsTyped' /\ th'[t].pc = "mint"
      /\ th'[t].op = th[t].op /\ th'[t].who = th[t].who /\ th'[t].pass = th[t].pass
      /\ th'[t].role = th[t].role /\ th'[t].raced = th[t].raced
      /\ th'[t].code = th[t].code /\ th'[t].twofa = th[t].twofa
      /\ \A x \in Threads : x # t => th'[x] = th[x]
  BY <1>1, <1>4, GoesTo
<1>6. RateTyped'
  BY <1>1, RateCleared DEF Types
<1>7. Types'
  BY <1>1, <1>5, <1>6, Unheld DEF Types, SessTyped, HeldTyped
<1> QED
  BY <1>1, <1>3, <1>5, <1>7

LEMMA MintTypes ==
  ASSUME Types, NEW t \in Threads, LoginMint(t)
  PROVE  /\ Types' /\ th'[t].pc = "idle" /\ th'[t].op = "none"
         /\ th[t].pc = "mint" /\ th[t].op = "login"
         /\ \A x \in Threads : x # t => th'[x] = th[x]
         /\ \A k \in DOMAIN sess' :
              \/ k \in DOMAIN sess /\ sess'[k] = sess[k]
              \/ /\ sess'[k].user = th[t].who /\ sess'[k].pass = th[t].pass
                 /\ sess'[k].role = th[t].role
                 /\ sess'[k].how = "fresh" => ~th[t].raced
<1> DEFINE s == [user |-> th[t].who, pass |-> th[t].pass, role |-> th[t].role,
                 how |-> IF th[t].raced THEN "raced" ELSE "fresh"]
<1>1. /\ th[t].pc = "mint" /\ ~held /\ held' = held /\ Done(t) /\ minted' = minted + 1
      /\ sess' = [k \in DOMAIN sess \cup {minted'} |-> IF k = minted' THEN s ELSE sess[k]]
      /\ spent' = spent \cup Note(th[t].twofa /\ th[t].code.kind = "recovery", th[t].code.key)
      /\ UNCHANGED <<acct, rate, held, pending, file, keys, reqs, restarts, guesses>>
  BY DEF LoginMint, At
<1>2. th[t] \in Req(keys) /\ Shaped(th[t]) /\ keys \in Nat /\ minted \in Nat
  BY DEF Types, ThreadsTyped
<1>3. th[t].op = "login" /\ th[t].who \in All /\ th[t].pass \in Passwords /\ th[t].role \in Ranks
  BY <1>1, <1>2 DEF Shaped, LoginPcs
<1>4. s \in Session
  BY <1>3 DEF Session
<1>5. /\ s.user = th[t].who /\ s.pass = th[t].pass /\ s.role = th[t].role
      /\ s.how = "fresh" => ~th[t].raced
  OBVIOUS
<1> HIDE DEF s
<1>6. SessTyped'
  BY <1>1, <1>2, <1>4 DEF Types, SessTyped
<1>7. th[t].code.key \in 0..keys
  BY <1>2 DEF Req
<1>8. spent' \subseteq 0..keys'
  BY <1>1, <1>7 DEF Types, Note
<1>9. /\ ThreadsTyped' /\ th'[t].pc = "idle" /\ th'[t].op = "none"
      /\ \A x \in Threads : x # t => th'[x] = th[x]
  BY <1>1, EndsIs
<1>10. Types'
  BY <1>1, <1>2, <1>6, <1>8, <1>9, Unheld DEF Types, RateTyped, HeldTyped
<1> QED
  BY <1>1, <1>3, <1>5, <1>9, <1>10

----------------------------------------------------------------------------
(* The other steps *)

\* Sessions that are closed, and OpenID requests that begin or expire.
Drops ==
  /\ \E S \in SUBSET DOMAIN sess : sess' = Restrict(sess, S)
  /\ UNCHANGED <<acct, rate, held, file, mirror, th, minted, keys, guesses, spent, anomaly>>

\* A bucket is cleared, or its lock runs out.
Clears ==
  /\ \E n \in All :
       /\ rate' \in {[rate EXCEPT ![n] = NoBucket], [rate EXCEPT ![n].locked = FALSE]}
       /\ guesses' = [guesses EXCEPT ![n] = 0]
  /\ UNCHANGED <<acct, sess, held, file, mirror, th, minted, keys, spent, anomaly>>

\* A request that is refused under the mutex.
Refused(t) == Ends(t) /\ ~held /\ th[t].pc \notin {"open", "write", "stuck", "idle", "fail"}

LEMMA DropsAre ==
  ASSUME Types, NEW t,
         ApiLogout(t) \/ ApiRevokeSessions(t) \/ SessionExpires \/ ApiOidcLogin(t) \/ PendingExpires
  PROVE  Drops
<1>1. sess = Restrict(sess, DOMAIN sess)
  BY DEF Types, SessTyped, Restrict
<1>2. CASE ApiLogout(t)
  <2>1. PICK k \in DOMAIN sess : sess' = Restrict(sess, DOMAIN sess \ {k})
    BY <1>2 DEF ApiLogout
  <2>2. DOMAIN sess \ {k} \in SUBSET DOMAIN sess
    OBVIOUS
  <2> QED
    BY <1>2, <2>1, <2>2 DEF ApiLogout, Drops
<1>3. CASE ApiRevokeSessions(t)
  <2>1. PICK k \in DOMAIN sess, n \in All :
          sess' = Restrict(sess, {x \in DOMAIN sess : sess[x].user # n \/ x = k})
    BY <1>3 DEF ApiRevokeSessions
  <2>2. {x \in DOMAIN sess : sess[x].user # n \/ x = k} \in SUBSET DOMAIN sess
    OBVIOUS
  <2> QED
    BY <1>3, <2>1, <2>2 DEF ApiRevokeSessions, Drops
<1>4. CASE SessionExpires
  <2>1. PICK k \in DOMAIN sess : sess' = Restrict(sess, DOMAIN sess \ {k})
    BY <1>4 DEF SessionExpires
  <2>2. DOMAIN sess \ {k} \in SUBSET DOMAIN sess
    OBVIOUS
  <2> QED
    BY <1>4, <2>1, <2>2 DEF SessionExpires, Drops
<1>5. CASE ApiOidcLogin(t) \/ PendingExpires
  BY <1>1, <1>5 DEF ApiOidcLogin, PendingExpires, Drops
<1> QED
  BY <1>2, <1>3, <1>4, <1>5

LEMMA ClearsAre ==
  ASSUME NEW t, ApiUnlockUser(t) \/ LockExpires
  PROVE  Clears
BY DEF ApiUnlockUser, LockExpires, Clears

LEMMA RefusedAre ==
  ASSUME NEW t \in Threads,
         \/ ChangePassword(t) /\ ~Knows(t)
         \/ CreateUser(t) /\ th[t].name \in DOMAIN acct
         \/ UpdateRefused(t)
         \/ DeleteUser(t) /\ th[t].who \notin DOMAIN acct \ {Owner}
         \/ TotpEnroll(t) /\ th[t].who \notin DOMAIN acct
         \/ TotpEnable(t) /\ th[t].who \notin DOMAIN acct
         \/ TotpDisable(t) /\ ~Knows(t)
         \/ ExchangeFails(t)
  PROVE  Refused(t)
BY DEF ChangePassword, CreateUser, UpdateRefused, DeleteUser, TotpEnroll, TotpEnable,
       TotpDisable, ExchangeFails, Refused, At

\* A step of one thread that is not one of a class above.
Single1(t) ==
  \/ LoginTotp(t) \/ Confirm(t) \/ TotpCheck(t)
  \/ LoginVerified(t) \/ LoginRefused(t) \/ LoginBadCode(t) \/ LoginFail(t)
  \/ LoginSuccess(t) \/ LoginMint(t) \/ UpdateOwner(t)
  \/ OpenFile(t) \/ WriteFile(t) \/ LookupOidc(t)

\* What a step can be.
LEMMA Cases ==
  ASSUME Types, Next
  PROVE  \/ Drops \/ Clears \/ Restart
         \/ \E t \in Threads : Asks(t) \/ Refused(t) \/ AltersSome(t) \/ Single1(t)
<1>1. CASE Restart \/ LockExpires \/ SessionExpires \/ PendingExpires
  BY <1>1, DropsAre, ClearsAre
<1>2. ASSUME NEW t \in Threads, Api(t) \/ Step(t)
      PROVE  Drops \/ Clears \/ Asks(t) \/ Refused(t) \/ AltersSome(t) \/ Single1(t)
  <2>1. CASE ApiLogout(t) \/ ApiRevokeSessions(t) \/ ApiOidcLogin(t) \/ ApiUnlockUser(t)
    BY <2>1, DropsAre, ClearsAre
  <2>2. CASE \/ ApiLogin(t) \/ ApiChangePassword(t) \/ ApiTotpEnroll(t) \/ ApiTotpVerify(t)
             \/ ApiTotpDisable(t) \/ ApiCreateUser(t) \/ ApiUpdateUser(t)
             \/ ApiDeleteUser(t) \/ ApiOidcCallback(t)
    BY <2>2, ApiAsks
  <2>3. CASE Single1(t)
    BY <2>3
  <2>4. CASE AltersSome(t)
    BY <2>4
  <2>5. CASE Step(t) /\ ~Single1(t) /\ ~AltersSome(t)
    BY <2>5, RefusedAre DEF Step, Single1, AltersSome
  <2> QED
    BY <1>2, <2>1, <2>2, <2>3, <2>4, <2>5 DEF Api
<1> QED
  BY <1>1, <1>2 DEF Next

LEMMA OwnerTypes ==
  ASSUME Types, NEW t \in Threads, UpdateOwner(t)
  PROVE  /\ Types' /\ th'[t] = Blank /\ th'[t].pc = "idle" /\ th'[t].op = "none"
         /\ th[t].op # "login" /\ th[t].pc = "update"
         /\ \A x \in Threads \ {t} :
              /\ SameBut(th'[x], th[x])
              /\ th'[x].raced = (th[x].raced \/ (Verified(x) /\ th[x].who = Owner))
         /\ DOMAIN acct' = DOMAIN acct
         /\ \A n \in DOMAIN acct \ {Owner} : acct'[n] = acct[n]
         /\ acct'[Owner].code = acct[Owner].code /\ acct'[Owner].key = acct[Owner].key
<1> DEFINE rr(x) == th[x].raced \/ (Verified(x) /\ th[x].who = Owner)
<1>1. /\ th[t].pc = "update" /\ ~held /\ held' = held /\ keys' = keys
      /\ acct' = IF th[t].pass = 0 THEN acct ELSE [acct EXCEPT ![Owner].pass = th[t].pass]
      /\ sess' = Retained(Owner, th[t].keep)
      /\ th' = [x \in Threads |-> IF x = t THEN Blank ELSE [th[x] EXCEPT !.raced = rr(x)]]
      /\ UNCHANGED <<rate, held, pending, file, minted, keys, reqs, restarts, guesses, spent, anomaly>>
  BY DEF UpdateOwner, At
<1>2. /\ th \in [Threads -> Req(keys)] /\ \A x \in Threads : Shaped(th[x])
      /\ AcctTyped(acct, keys) /\ keys \in Nat
  BY DEF Types, ThreadsTyped
<1>3. /\ th[t].op # "login" /\ th[t].pass \in 0..MaxPass
  BY <1>1, <1>2 DEF Shaped, LoginPcs, Req
<1>4. AcctTyped(acct', keys) /\ DOMAIN acct' = DOMAIN acct
      /\ (\A n \in DOMAIN acct \ {Owner} : acct'[n] = acct[n])
      /\ acct'[Owner].code = acct[Owner].code /\ acct'[Owner].key = acct[Owner].key
  <2>1. CASE th[t].pass = 0
    BY <1>1, <1>2, <2>1
  <2>2. CASE th[t].pass # 0
    <3> DEFINE r == [acct[Owner] EXCEPT !.pass = th[t].pass]
    <3>1. acct[Owner] \in Acct(keys) /\ th[t].pass \in Passwords
      BY <1>2, <1>3, <2>2, AccountsBoundAssumption DEF AcctTyped, Passwords
    <3>2. /\ r \in Acct(keys) /\ r.role = acct[Owner].role
          /\ r.code = acct[Owner].code /\ r.key = acct[Owner].key
      BY <3>1 DEF Acct
    <3>3. acct' = [acct EXCEPT ![Owner] = r]
      BY <1>1, <2>2
    <3> HIDE DEF r
    <3> QED
      BY <1>2, <3>2, <3>3 DEF AcctTyped
  <2> QED
    BY <2>1, <2>2
<1>5. \A x \in Threads : th[x] \in Req(keys) /\ rr(x) \in BOOLEAN
  BY <1>2 DEF Req
<1> HIDE DEF rr
<1>6. ASSUME NEW x \in Threads, x # t
      PROVE  /\ th'[x] \in Req(keys) /\ SameBut(th'[x], th[x]) /\ th'[x].raced = rr(x)
             /\ Shaped(th'[x])
  <2>1. th'[x] = [th[x] EXCEPT !.raced = rr(x)] /\ th[x] \in Req(keys) /\ rr(x) \in BOOLEAN
    BY <1>1, <1>5, <1>6
  <2>2. th'[x] \in Req(keys) /\ SameBut(th'[x], th[x]) /\ th'[x].raced = rr(x)
    BY <2>1, Races
  <2> QED
    BY <1>2, <2>2, SameShape
<1>7. Blank \in Req(keys) /\ Shaped(Blank) /\ th'[t] = Blank
      /\ Blank.pc = "idle" /\ Blank.op = "none"
  BY <1>1, <1>2, BlankTyped
<1>8. ThreadsTyped'
  BY <1>1, <1>6, <1>7 DEF ThreadsTyped
<1>9. SessTyped'
  BY <1>1, SessRetained DEF Types
<1>10. Types'
  BY <1>1, <1>4, <1>8, <1>9, Unheld DEF Types, RateTyped, HeldTyped
<1> QED
  BY <1>1, <1>3, <1>4, <1>6, <1>7, <1>10 DEF rr

\* A save of users.json empties the file, and it ends, well or not.
Truncates(t) ==
  /\ th[t].pc = "open" /\ file' = Torn /\ Goto(t, "write")
  /\ UNCHANGED <<acct, sess, rate, held, mirror, minted, keys, guesses, spent, anomaly>>

Finishes(t) ==
  /\ th[t].pc \in {"open", "write"} /\ file' \in {file, th[t].snap, Torn}
  /\ \E m : SaveEnds(t, m)
  /\ UNCHANGED <<acct, sess, rate, held, minted, keys, guesses, spent, anomaly>>
  /\ \/ mirror' = "bad"
     \/ /\ th[t].pc = "write" /\ mirror' = Mended
        /\ file' \in IF file = Torn THEN {th[t].snap} ELSE {th[t].snap, Torn}

LEMMA FileSteps ==
  ASSUME NEW t, OpenFile(t) \/ WriteFile(t) PROVE Truncates(t) \/ Finishes(t)
BY DEF OpenFile, WriteFile, Truncates, Finishes, SaveEnds

LEMMA OpenTypes ==
  ASSUME Types, NEW t \in Threads, Truncates(t)
  PROVE  /\ Types' /\ th[t].pc = "open" /\ th'[t].pc = "write" /\ file' = Torn
         /\ th'[t].op = th[t].op /\ th'[t].who = th[t].who /\ th'[t].pass = th[t].pass
         /\ th'[t].role = th[t].role /\ th'[t].raced = th[t].raced
         /\ th'[t].code = th[t].code /\ th'[t].twofa = th[t].twofa
         /\ th'[t].next = th[t].next /\ th'[t].snap = th[t].snap
         /\ \A x \in Threads : x # t => th'[x] = th[x]
<1>1. /\ th[t].pc = "open" /\ Goto(t, "write") /\ file' = Torn
      /\ UNCHANGED <<acct, sess, rate, held, minted, keys, guesses, spent, anomaly>>
  BY DEF Truncates
<1>2. th[t] \in Req(keys) /\ Shaped(th[t])
  BY DEF Types, ThreadsTyped
<1>3. "write" \in Pcs /\ Shaped([th[t] EXCEPT !.pc = "write"])
  BY <1>1, <1>2 DEF Pcs, Shaped, LoginPcs, Req
<1>4. /\ ThreadsTyped' /\ th'[t].pc = "write"
      /\ th'[t].op = th[t].op /\ th'[t].who = th[t].who /\ th'[t].pass = th[t].pass
      /\ th'[t].role = th[t].role /\ th'[t].raced = th[t].raced
      /\ th'[t].code = th[t].code /\ th'[t].twofa = th[t].twofa
      /\ th'[t].next = th[t].next /\ th'[t].snap = th[t].snap
      /\ \A x \in Threads : x # t => th'[x] = th[x]
  BY <1>1, <1>3, GoesTo
<1>5. HeldTyped'
  BY <1>1, <1>4 DEF Types, HeldTyped
<1>6. Types'
  BY <1>1, <1>4, <1>5 DEF Types, SessTyped, RateTyped
<1> QED
  BY <1>1, <1>4, <1>6

LEMMA WriteTypes ==
  ASSUME Types, NEW t \in Threads, Finishes(t)
  PROVE  /\ Types' /\ th[t].pc \in {"open", "write"}
         /\ \/ th[t].next = "idle" /\ th'[t].pc = "idle" /\ th'[t].op = "none"
            \/ /\ th[t].next \in {"totp", "success"} /\ th'[t].pc = th[t].next
               /\ th'[t].op = "login" /\ th[t].op = "login"
               /\ th'[t].who = th[t].who /\ th'[t].pass = th[t].pass
               /\ th'[t].role = th[t].role /\ th'[t].raced = th[t].raced
               /\ th'[t].code = th[t].code /\ th'[t].twofa = th[t].twofa
         /\ \A x \in Threads : x # t => th'[x] = th[x]
<1> DEFINE r == [th[t] EXCEPT !.pc = th[t].next, !.snap = <<>>]
<1>1. /\ th[t].pc \in {"open", "write"}
      /\ file' \in {file, th[t].snap, Torn}
      /\ IF th[t].next = "idle" THEN Done(t) ELSE th' = [th EXCEPT ![t] = r]
      /\ UNCHANGED <<acct, sess, rate, held, minted, keys, guesses, spent, anomaly>>
  BY DEF Finishes, SaveEnds
<1>2. /\ th \in [Threads -> Req(keys)] /\ Shaped(th[t]) /\ keys \in Nat
      /\ th[t].next \in {"idle", "totp", "success"} /\ th[t].snap \in Files(keys)
  BY DEF Types, ThreadsTyped, Req
<1>3. CASE th[t].next = "idle"
  <2>1. /\ ThreadsTyped' /\ th'[t].pc = "idle" /\ th'[t].op = "none"
        /\ \A x \in Threads : x # t => th'[x] = th[x]
    BY <1>1, <1>3, EndsIs
  <2>2. HeldTyped'
    BY <1>1, <2>1 DEF Types, HeldTyped
  <2>3. Types'
    BY <1>1, <1>2, <2>1, <2>2 DEF Types, SessTyped, RateTyped
  <2> QED
    BY <1>1, <1>3, <2>1, <2>3
<1>4. CASE th[t].next # "idle"
  <2>1. r \in Req(keys)
    <3> DEFINE r1 == [th[t] EXCEPT !.pc = th[t].next]
    <3>1. th[t].next \in Pcs
      BY <1>2 DEF Pcs
    <3>2. r1 \in Req(keys)
      BY <1>2, <3>1, FieldTyped
    <3>3. <<>> \in Files(keys)
      BY <1>2, EmptyFile
    <3>4. [r1 EXCEPT !.snap = <<>>] \in Req(keys)
      <4> HIDE DEF r1
      <4> QED
        BY <3>2, <3>3 DEF Req
    <3> QED
      BY <3>4
  <2>2. /\ r.pc = th[t].next /\ r.op = th[t].op /\ r.who = th[t].who /\ r.pass = th[t].pass
        /\ r.role = th[t].role /\ r.raced = th[t].raced
        /\ r.code = th[t].code /\ r.twofa = th[t].twofa /\ r.next = th[t].next
    BY <1>2 DEF Req
  <2> HIDE DEF r
  <2>3. th[t].op = "login"
    BY <1>1, <1>2, <1>4 DEF Shaped
  <2>4. Shaped(r)
    BY <1>1, <1>2, <1>4, <2>2, <2>3 DEF Shaped, LoginPcs
  <2>5. ThreadsTyped' /\ th'[t] = r /\ \A x \in Threads : x # t => th'[x] = th[x]
    BY <1>1, <1>4, <2>1, <2>4, Moves
  <2>6. HeldTyped'
    BY <1>1, <2>5 DEF Types, HeldTyped
  <2>7. Types'
    BY <1>1, <1>2, <2>5, <2>6 DEF Types, SessTyped, RateTyped
  <2> QED
    BY <1>1, <1>2, <1>4, <2>2, <2>3, <2>5, <2>7
<1> QED
  BY <1>3, <1>4

LEMMA RestartTypes ==
  ASSUME Types, Restart
  PROVE  /\ Types' /\ sess' = <<>> /\ DOMAIN sess' = {}
         /\ \A t \in Threads : th'[t].pc = "idle" /\ th'[t].op = "none"
<1>1. /\ \E users \in IF file = Torn THEN {<<>>} ELSE {file, <<>>} : acct' = Fresh(users)
      /\ sess' = <<>> /\ rate' = [n \in All |-> NoBucket] /\ guesses' = [n \in All |-> 0]
      /\ held' = FALSE /\ th' = [t \in Threads |-> Blank]
      /\ UNCHANGED <<file, minted, keys, reqs, spent>>
  BY DEF Restart
<1>2. keys \in Nat /\ (file = Torn \/ file \in Files(keys)) /\ <<>> \in Files(keys)
      /\ DOMAIN <<>> = {}
  BY EmptyFile DEF Types
<1>3. AcctTyped(acct', keys)
  BY <1>1, <1>2, FreshTyped
<1>4. Blank \in Req(keys) /\ Shaped(Blank) /\ Blank.pc = "idle" /\ Blank.op = "none"
  BY <1>2, BlankTyped
<1>5. ThreadsTyped' /\ \A t \in Threads : th'[t].pc = "idle" /\ th'[t].op = "none"
  BY <1>1, <1>4 DEF ThreadsTyped
<1>6. NoBucket \in [fails : Nat, locked : BOOLEAN] /\ ~NoBucket.locked
  BY DEF NoBucket
<1>7. RateTyped'
  BY <1>1, <1>6 DEF RateTyped
<1>8. SessTyped'
  <2>1. <<>> = [x \in {} |-> {}]
    OBVIOUS
  <2>2. sess' \in [DOMAIN sess' -> Session]
    BY <1>1, <1>2, <2>1
  <2> QED
    BY <1>1, <1>2, <2>2 DEF SessTyped
<1>9. Types'
  BY <1>1, <1>3, <1>5, <1>7, <1>8 DEF Types, HeldTyped
<1> QED
  BY <1>1, <1>2, <1>5, <1>9

LEMMA StuckTypes ==
  ASSUME Types, NEW t \in Threads, LookupOidc(t)
  PROVE  /\ Types' /\ th'[t].pc = "stuck" /\ th'[t].op # "login"
         /\ th[t].pc = "lookup" /\ th[t].op # "login"
         /\ \A x \in Threads : x # t => th'[x] = th[x]
<1>1. /\ th[t].pc = "lookup" /\ held' = TRUE /\ Goto(t, "stuck")
      /\ UNCHANGED <<acct, sess, rate, pending, file, minted, keys, reqs, restarts, guesses, spent, anomaly>>
  BY DEF LookupOidc, At
<1>2. th[t] \in Req(keys) /\ Shaped(th[t])
  BY DEF Types, ThreadsTyped
<1>3. th[t].op # "login"
  BY <1>1, <1>2 DEF Shaped, LoginPcs
<1>4. "stuck" \in Pcs /\ Shaped([th[t] EXCEPT !.pc = "stuck"])
  BY <1>2, <1>3 DEF Pcs, Shaped, LoginPcs, Req
<1>5. /\ ThreadsTyped' /\ th'[t].pc = "stuck" /\ th'[t].op = th[t].op
      /\ \A x \in Threads : x # t => th'[x] = th[x]
  BY <1>1, <1>4, GoesTo
<1>6. Types'
  BY <1>1, <1>5 DEF Types, SessTyped, RateTyped, HeldTyped
<1> QED
  BY <1>1, <1>3, <1>5, <1>6

LEMMA DropsTypes == ASSUME Types, Drops PROVE Types'
<1>1. SessTyped'
  BY SessRestricted DEF Types, Drops
<1> QED
  BY <1>1 DEF Types, Drops, RateTyped, ThreadsTyped, HeldTyped

LEMMA ClearsTypes == ASSUME Types, Clears PROVE Types'
<1>1. NoBucket \in [fails : Nat, locked : BOOLEAN] /\ ~NoBucket.locked
  BY DEF NoBucket
<1>2. PICK n \in All :
        /\ rate' \in {[rate EXCEPT ![n] = NoBucket], [rate EXCEPT ![n].locked = FALSE]}
        /\ guesses' = [guesses EXCEPT ![n] = 0]
  BY DEF Clears
<1>3. RateTyped'
  <2>1. CASE rate' = [rate EXCEPT ![n] = NoBucket]
    BY <1>2, <2>1, RateCleared DEF Types
  <2>2. CASE rate' = [rate EXCEPT ![n].locked = FALSE]
    BY <1>2, <2>2 DEF Types, RateTyped
  <2> QED
    BY <1>2, <2>1, <2>2
<1> QED
  BY <1>3 DEF Types, Clears, SessTyped, ThreadsTyped, HeldTyped

LEMMA InitTypes == Init => Types
<1> SUFFICES ASSUME Init PROVE Types
  OBVIOUS
<1>1. keys = 0 /\ minted = 1 /\ spent = {} /\ held = FALSE
  BY DEF Init
<1>2. PICK legacy \in BOOLEAN : file = [n \in Known |-> Account(1, legacy, "viewer")]
  BY DEF Init
<1>3. Account(1, legacy, "viewer") \in Acct(0)
  BY AccountTyped, AccountsBoundAssumption DEF Passwords, Ranks
<1>4. file \in Files(0)
  BY <1>2, <1>3, AccountsNameAssumption DEF Files
<1>5. AcctTyped(acct, 0)
  BY <1>4, FreshTyped DEF Init
<1>6. SessTyped
  <2>1. [user |-> Owner, pass |-> 1, role |-> "admin", how |-> "fresh"] \in Session
    BY AccountsBoundAssumption DEF Session, All, Passwords, Ranks
  <2> QED
    BY <1>1, <2>1 DEF Init, SessTyped
<1>7. RateTyped
  <2>1. NoBucket \in [fails : Nat, locked : BOOLEAN] /\ ~NoBucket.locked
    BY DEF NoBucket
  <2> QED
    BY <2>1 DEF Init, RateTyped
<1>8. ThreadsTyped
  <2>1. Blank \in Req(0) /\ Shaped(Blank)
    BY BlankTyped
  <2> QED
    BY <1>1, <2>1 DEF Init, ThreadsTyped
<1> QED
  BY <1>1, <1>4, <1>5, <1>6, <1>7, <1>8 DEF Types, HeldTyped

LEMMA RefusedTypes == ASSUME Types, NEW t \in Threads, Refused(t) PROVE Types'
BY EndsTypes DEF Refused

LEMMA NextTypes == Types /\ [Next]_vars => Types'
<1> SUFFICES ASSUME Types, [Next]_vars PROVE Types'
  OBVIOUS
<1>1. CASE UNCHANGED vars
  BY <1>1 DEF vars, Types, SessTyped, RateTyped, ThreadsTyped, HeldTyped
<1>2. CASE Drops \/ Clears \/ Restart
  BY <1>2, DropsTypes, ClearsTypes, RestartTypes
<1>3. ASSUME NEW t \in Threads, Asks(t) \/ Refused(t) \/ AltersSome(t)
      PROVE  Types'
  BY <1>3, AsksTypes, RefusedTypes, AltersSomeTypes
<1>4. ASSUME NEW t \in Threads, Single1(t)
      PROVE  Types'
  BY <1>4, PassesTypes, VerifiedTypes, RefusesTypes, FailTypes, SuccessTypes, MintTypes,
     OwnerTypes, FileSteps, OpenTypes, WriteTypes, StuckTypes DEF Single1
<1> QED
  BY <1>1, <1>2, <1>3, <1>4, Cases

LEMMA AlwaysTypes == Spec => []Types
BY InitTypes, NextTypes, PTL DEF Spec

\* Every variable keeps its type: the owner always has an account with the
\* role admin, whatever requests, restarts and saves of users.json do, and a
\* locked bucket has as many failures as lock it.
THEOREM TypesOfAccounts == Spec => []TypeOK
<1>1. Types => TypeOK
  <2> SUFFICES ASSUME Types PROVE TypeOK
    OBVIOUS
  <2>1. /\ Owner \in DOMAIN acct /\ DOMAIN acct \subseteq All /\ acct[Owner].role = "admin"
        /\ \A n \in DOMAIN acct : acct[n].pass \in Passwords /\ acct[n].key \in 0..keys
    BY DEF Types, AcctTyped, Acct
  <2>2. file = Torn \/ DOMAIN file \subseteq Names
    BY FilesAre DEF Types
  <2>3. DOMAIN sess \subseteq 1..minted /\ \A k \in DOMAIN sess : sess[k].user \in All
    BY DEF Types, SessTyped, Session
  <2> QED
    BY <2>1, <2>2, <2>3 DEF Types, RateTyped, HeldTyped, TypeOK
<1> QED
  BY <1>1, AlwaysTypes, PTL

----------------------------------------------------------------------------
(* users.json follows the accounts *)

Saves(r) == r.pc \in {"open", "write"}

LEMMA SettledStays ==
  ASSUME Settled, mirror' = mirror, file' = file, Saved(acct)' = Saved(acct),
         \A x \in Threads : Saves(th[x]) \/ Saves(th'[x]) =>
           th'[x].pc = th[x].pc /\ th'[x].snap = th[x].snap
  PROVE  Settled'
<1>1. Saving' = Saving /\ \A x \in Saving : th'[x].snap = th[x].snap
  BY DEF Saving, Saves
<1>2. (\E t \in Threads : th'[t].pc = "write") <=> (\E t \in Threads : th[t].pc = "write")
  BY DEF Saves
<1>3. Lone => Lone'
  BY <1>1, <1>2 DEF Lone
<1> QED
  BY <1>2, <1>3 DEF Settled

LEMMA QuietSettled ==
  ASSUME Types, Settled, NEW t \in Threads,
         Asks(t) \/ Refused(t) \/ LoginTotp(t) \/ Confirm(t) \/ TotpCheck(t)
  PROVE  Settled'
<1>1. /\ UNCHANGED <<acct, file, mirror>> /\ ~Saves(th[t])
      /\ \A x \in Threads : x # t => th'[x] = th[x]
  BY DEF Asks, Refused, LoginTotp, Confirm, TotpCheck, At, Ends, Done, Goto, Saves,
         Types, ThreadsTyped
<1>2. ~Saves(th'[t])
  <2>1. CASE Asks(t)
    <3>1. PICK r \in Req(keys) :
            /\ th' = [th EXCEPT ![t] = r]
            /\ r.pc \in {"verify", "chpass", "create", "confirm", "enroll", "check",
                         "totpoff", "lookup"}
      BY <2>1 DEF Asks
    <3>2. th'[t] = r
      BY <3>1 DEF Types, ThreadsTyped
    <3> QED
      BY <3>1, <3>2 DEF Saves
  <2>2. CASE Done(t) /\ keys' = keys
    BY <2>2, EndsIs DEF Saves
  <2>3. CASE \E pc \in {"success", "recover", "update", "delete", "enable"} : Goto(t, pc)
    BY <2>3 DEF Goto, Saves, Types, ThreadsTyped, Req
  <2>4. th[t].pc = "confirm" => th[t].op \in {"update", "delete"}
    BY DEF Types, ThreadsTyped, Shaped
  <2> QED
    BY <2>1, <2>2, <2>3, <2>4 DEF Refused, LoginTotp, Confirm, TotpCheck, Ends, At
<1>3. \A x \in Threads : Saves(th[x]) \/ Saves(th'[x]) =>
        th'[x].pc = th[x].pc /\ th'[x].snap = th[x].snap
  BY <1>1, <1>2
<1> QED
  BY <1>1, <1>3, SettledStays

LEMMA LoginSettled ==
  ASSUME Types, Settled, NEW t \in Threads,
         \/ LoginVerified(t) \/ LoginRefused(t) \/ LoginBadCode(t) \/ LoginFail(t)
         \/ LoginSuccess(t) \/ LoginMint(t) \/ LookupOidc(t)
  PROVE  Settled'
<1>1. UNCHANGED <<acct, file, mirror>> /\ ~Saves(th[t])
  BY DEF LoginVerified, LoginRefused, LoginBadCode, LoginFail, LoginSuccess, LoginMint,
         LookupOidc, Refuses, At, Saves
<1>2. ~Saves(th'[t]) /\ \A x \in Threads : x # t => th'[x] = th[x]
  <2>1. CASE LoginVerified(t) \/ LoginRefused(t) \/ LoginBadCode(t)
    BY <2>1, VerifiedTypes, RefusesTypes DEF Saves
  <2>2. CASE LoginFail(t) \/ LoginSuccess(t)
    BY <2>2, FailTypes, SuccessTypes DEF Saves
  <2>3. CASE LoginMint(t) \/ LookupOidc(t)
    BY <2>3, MintTypes, StuckTypes DEF Saves
  <2> QED
    BY <2>1, <2>2, <2>3
<1>3. \A x \in Threads : Saves(th[x]) \/ Saves(th'[x]) =>
        th'[x].pc = th[x].pc /\ th'[x].snap = th[x].snap
  BY <1>1, <1>2
<1> QED
  BY <1>1, <1>3, SettledStays

LEMMA OwnerSettled ==
  ASSUME Types, Settled, NEW t \in Threads, UpdateOwner(t)
  PROVE  Settled'
<1>1. Saved(acct)' = Saved(acct)
  BY OwnerTypes DEF Saved, Restrict
<1>2. file' = file /\ mirror' = mirror
  BY DEF UpdateOwner
<1>3. \A x \in Threads : Saves(th[x]) \/ Saves(th'[x]) =>
        th'[x].pc = th[x].pc /\ th'[x].snap = th[x].snap
  BY OwnerTypes DEF SameBut, Saves
<1> QED
  BY <1>1, <1>2, <1>3, SettledStays

LEMMA AltersSettled ==
  ASSUME Types, Settled, NEW t \in Threads, AltersSome(t)
  PROVE  Settled'
<1>1. PICK new, rotated, next : Alters(t, new, rotated, next)
  BY AltersSomeIs
<1>2. /\ acct' = new /\ th'[t].pc = "open" /\ th'[t].snap = Saved(new)
      /\ \A x \in Threads \ {t} : SameBut(th'[x], th[x])
  BY <1>1, ChangedIs DEF Alters
<1>3. file' = file /\ th[t].pc \notin {"open", "write"} /\ mirror' = Begun(t)
  BY <1>1 DEF Alters, Changed
<1>4. CASE Saving \ {t} # {}
  BY <1>3, <1>4 DEF Settled, Begun
<1>5. CASE Saving \ {t} = {}
  <2>1. mirror' = (IF mirror = "good" THEN "good" ELSE "mending")
    BY <1>3, <1>5 DEF Begun
  <2>2. Saving = {} /\ \A x \in Threads : ~Saves(th[x])
    BY <1>3, <1>5 DEF Saving, Saves
  <2>3. \A x \in Threads \ {t} : ~Saves(th'[x])
    BY <1>2, <2>2 DEF SameBut, Saves
  <2>4. Saving' = {t}
    BY <1>2, <2>3 DEF Saving, Saves
  <2>5. ~\E x \in Threads : th'[x].pc = "write"
    BY <1>2, <2>3 DEF Saves
  <2>6. Lone'
    BY <1>2, <2>4, <2>5 DEF Lone
  <2>7. mirror = "good" => file # Torn
    BY <2>2 DEF Settled, Saves
  <2> QED
    BY <1>3, <2>1, <2>6, <2>7 DEF Settled
<1> QED
  BY <1>4, <1>5

\* What is in memory can be parsed.
LEMMA SavedNotTorn == ASSUME Types PROVE Saved(acct) # Torn
<1>1. keys \in Nat /\ AcctTyped(acct, keys)
  BY DEF Types
<1>2. Saved(acct) \in Files(keys)
  BY <1>1, SavedIs
<1> QED
  BY <1>1, <1>2, NotTorn

LEMMA FileStepSettled ==
  ASSUME Types, Settled, NEW t \in Threads, OpenFile(t) \/ WriteFile(t)
  PROVE  Settled'
<1>1. CASE Truncates(t)
  <2>1. /\ th[t].pc = "open" /\ th'[t].pc = "write" /\ file' = Torn
        /\ th'[t].snap = th[t].snap /\ acct' = acct /\ mirror' = mirror
        /\ \A x \in Threads : x # t => th'[x] = th[x]
    BY <1>1, OpenTypes DEF Truncates
  <2>2. Saving' = Saving /\ t \in Saving /\ \A x \in Saving : th'[x].snap = th[x].snap
    BY <2>1 DEF Saving
  <2>3. Lone => Lone'
    BY <2>1, <2>2 DEF Lone
  <2> QED
    BY <2>1, <2>3 DEF Settled
<1>2. CASE Finishes(t) /\ mirror' = "bad"
  BY <1>2 DEF Settled
<1>3. CASE Finishes(t) /\ mirror' # "bad"
  <2>1. /\ th[t].pc = "write" /\ mirror' = Mended /\ acct' = acct
        /\ file' \in IF file = Torn THEN {th[t].snap} ELSE {th[t].snap, Torn}
    BY <1>3 DEF Finishes
  <2>2. /\ th'[t].pc \notin {"open", "write"}
        /\ \A x \in Threads : x # t => th'[x] = th[x]
    BY <1>3, WriteTypes
  <2>3. mirror' = "good" /\ Lone
    BY <1>3, <2>1 DEF Settled, Mended
  <2>4. Saving = {t} /\ file = Torn /\ th[t].snap = Saved(acct)
    BY <2>1, <2>3 DEF Lone, Saving
  <2>5. Saving' = {} /\ ~\E x \in Threads : th'[x].pc = "write"
    BY <2>2, <2>4 DEF Saving
  <2>6. file' = Saved(acct) /\ file' # Torn
    BY <2>1, <2>4, SavedNotTorn
  <2> QED
    BY <2>1, <2>3, <2>5, <2>6 DEF Settled, Lone
<1> QED
  BY <1>1, <1>2, <1>3, FileSteps

LEMMA RestartSettled ==
  ASSUME Types, Settled, Restart
  PROVE  Settled'
<1>1. PICK users \in IF file = Torn THEN {<<>>} ELSE {file, <<>>} :
        acct' = Fresh(users) /\ mirror' = (IF users = file THEN "good" ELSE "bad")
  BY DEF Restart
<1>2. file' = file /\ Saving' = {} /\ ~\E t \in Threads : th'[t].pc = "write"
  BY RestartTypes DEF Restart, Saving
<1>3. CASE users = file
  <2>1. keys \in Nat /\ file # Torn /\ file \in Files(keys)
    BY <1>1, <1>3, EmptyFile, NotTorn DEF Types
  <2>2. Saved(acct') = file
    BY <1>1, <1>3, <2>1, FreshTyped
  <2> QED
    BY <1>1, <1>2, <1>3, <2>1, <2>2 DEF Settled, Lone
<1>4. CASE users # file
  BY <1>1, <1>4 DEF Settled
<1> QED
  BY <1>3, <1>4

LEMMA InitSettled == Init => Settled
<1> SUFFICES ASSUME Init PROVE Settled
  OBVIOUS
<1>1. Types
  BY InitTypes
<1>2. file \in Files(0) /\ acct = Fresh(file)
  <2>1. PICK legacy \in BOOLEAN : file = [n \in Known |-> Account(1, legacy, "viewer")]
    BY DEF Init
  <2>2. Account(1, legacy, "viewer") \in Acct(0)
    BY AccountTyped, AccountsBoundAssumption DEF Passwords, Ranks
  <2> QED
    BY <2>1, <2>2, AccountsNameAssumption DEF Files, Init
<1>3. file # Torn /\ Saved(acct) = file /\ mirror = "good"
  BY <1>2, NotTorn, FreshTyped DEF Init
<1>4. \A t \in Threads : th[t].pc = "idle"
  BY DEF Init, Blank
<1>5. Saving = {}
  BY <1>4 DEF Saving
<1> QED
  BY <1>3, <1>4, <1>5 DEF Settled, Lone

LEMMA NextSettled == Types /\ Settled /\ [Next]_vars => Settled'
<1> SUFFICES ASSUME Types, Settled, [Next]_vars PROVE Settled'
  OBVIOUS
<1>1. CASE UNCHANGED <<acct, file, th, mirror>>
  BY <1>1, SettledStays
<1>2. CASE Restart
  BY <1>2, RestartSettled
<1>3. ASSUME NEW t \in Threads, Asks(t) \/ Refused(t) \/ AltersSome(t)
      PROVE  Settled'
  BY <1>3, QuietSettled, AltersSettled
<1>4. ASSUME NEW t \in Threads, Single1(t)
      PROVE  Settled'
  BY <1>4, QuietSettled, LoginSettled, OwnerSettled, FileStepSettled DEF Single1
<1> QED
  BY <1>1, <1>2, <1>3, <1>4, Cases DEF vars, Drops, Clears

LEMMA AlwaysSettled == Spec => []Settled
BY InitTypes, NextTypes, InitSettled, NextSettled, PTL DEF Spec

\* Whenever no save is under way, users.json is what is in memory, so that a
\* restart changes nothing: unless the last save failed, two saves overlapped
\* or the host started without loading the file, and no save that had the file
\* for itself has ended well since.
THEOREM FileFollowsMemory == Spec => []FileSettled
<1>1. Settled => FileSettled
  BY DEF Settled, Lone, FileSettled
<1> QED
  BY <1>1, AlwaysSettled, PTL

----------------------------------------------------------------------------
(* Sessions agree with the accounts *)

CurrentSessions ==
  \A k \in DOMAIN sess :
    sess[k].how = "fresh" => Agrees(sess[k].user, sess[k].pass, sess[k].role)

CurrentLogins ==
  \A t \in Threads :
    Verified(t) /\ ~th[t].raced => Agrees(th[t].who, th[t].pass, th[t].role)

LEMMA CurrentIs == Current <=> "migrate" \in anomaly \/ (CurrentSessions /\ CurrentLogins)
BY DEF Current, CurrentSessions, CurrentLogins

\* A step that changes only accounts in D, and ends or marks whatever agrees
\* with those.
Rotates(D) ==
  /\ anomaly \subseteq anomaly'
  /\ \A u \in DOMAIN acct \ D : /\ u \in DOMAIN acct' /\ acct'[u].pass = acct[u].pass
                                /\ acct'[u].role = acct[u].role
  /\ \A k \in DOMAIN sess' : sess'[k].how = "fresh" =>
       \/ k \in DOMAIN sess /\ sess'[k] = sess[k] /\ sess[k].user \notin D
       \/ /\ k \in DOMAIN sess /\ sess[k].how = "fresh"
          /\ Agrees(sess[k].user, sess[k].pass, sess[k].role) =>
               /\ sess'[k].user \in DOMAIN acct'
               /\ sess'[k].pass = acct'[sess'[k].user].pass
               /\ sess'[k].role = acct'[sess'[k].user].role
  /\ \A x \in Threads : Verified(x)' /\ ~th'[x].raced =>
       /\ Verified(x) /\ ~th[x].raced /\ th[x].who \notin D
       /\ th'[x].who = th[x].who /\ th'[x].pass = th[x].pass /\ th'[x].role = th[x].role

LEMMA CurrentStays ==
  ASSUME Current, NEW D, Rotates(D)
  PROVE  Current'
<1>1. CASE "migrate" \in anomaly
  BY <1>1 DEF Current, Rotates
<1>2. CASE "migrate" \notin anomaly
  <2>1. CurrentSessions /\ CurrentLogins
    BY <1>2, CurrentIs
  <2>2. \A u, p, q : Agrees(u, p, q) /\ u \notin D => Agrees(u, p, q)'
    BY DEF Agrees, Rotates
  <2>3. CurrentLogins'
    BY <2>1, <2>2 DEF CurrentLogins, Rotates
  <2>4. CurrentSessions'
    <3> SUFFICES ASSUME NEW k \in DOMAIN sess', sess'[k].how = "fresh"
                 PROVE  /\ sess'[k].user \in DOMAIN acct'
                        /\ sess'[k].pass = acct'[sess'[k].user].pass
                        /\ sess'[k].role = acct'[sess'[k].user].role
      BY DEF CurrentSessions, Agrees
    <3>1. CASE k \in DOMAIN sess /\ sess'[k] = sess[k] /\ sess[k].user \notin D
      <4>1. Agrees(sess[k].user, sess[k].pass, sess[k].role)
        BY <2>1, <3>1 DEF CurrentSessions
      <4> QED
        BY <2>2, <3>1, <4>1 DEF Agrees
    <3>2. CASE ~(k \in DOMAIN sess /\ sess'[k] = sess[k] /\ sess[k].user \notin D)
      <4>1. /\ k \in DOMAIN sess /\ sess[k].how = "fresh"
            /\ Agrees(sess[k].user, sess[k].pass, sess[k].role) =>
                 /\ sess'[k].user \in DOMAIN acct'
                 /\ sess'[k].pass = acct'[sess'[k].user].pass
                 /\ sess'[k].role = acct'[sess'[k].user].role
        BY <3>2 DEF Rotates
      <4>2. Agrees(sess[k].user, sess[k].pass, sess[k].role)
        BY <2>1, <4>1 DEF CurrentSessions
      <4> QED
        BY <4>1, <4>2
    <3> QED
      BY <3>1, <3>2
  <2> QED
    BY <2>3, <2>4 DEF Current, CurrentSessions, CurrentLogins
<1> QED
  BY <1>1, <1>2

LEMMA QuietCurrent ==
  ASSUME Types, Current, NEW t \in Threads,
         Asks(t) \/ Refused(t) \/ LoginTotp(t) \/ Confirm(t) \/ TotpCheck(t)
  PROVE  Current'
<1>1. /\ UNCHANGED <<acct, sess, anomaly, keys>>
      /\ \A x \in Threads : x # t => th'[x] = th[x]
  BY DEF Asks, Refused, LoginTotp, Confirm, TotpCheck, Ends, Done, Goto, Types, ThreadsTyped
<1>2. Verified(t)' /\ ~th'[t].raced =>
        /\ Verified(t) /\ ~th[t].raced
        /\ th'[t].who = th[t].who /\ th'[t].pass = th[t].pass /\ th'[t].role = th[t].role
  <2>1. CASE Asks(t)
    <3>1. PICK r \in Req(keys) :
            /\ th' = [th EXCEPT ![t] = r] /\ Shaped(r)
            /\ r.pc \in {"verify", "chpass", "create", "confirm", "enroll", "check",
                         "totpoff", "lookup"}
      BY <2>1 DEF Asks
    <3>2. th'[t] = r
      BY <3>1 DEF Types, ThreadsTyped
    <3> QED
      BY <3>1, <3>2 DEF Verified, Shaped, LoginPcs
  <2>2. CASE Done(t) /\ keys' = keys
    BY <2>2, EndsIs DEF Verified
  <2>3. CASE LoginTotp(t) /\ (Goto(t, "success") \/ Goto(t, "recover"))
    BY <2>3 DEF LoginTotp, At, Goto, Verified, Types, ThreadsTyped, Req
  <2>4. CASE Confirm(t) /\ Goto(t, th[t].op)
    BY <2>4 DEF Confirm, At, Goto, Verified, Types, ThreadsTyped, Req, Shaped, LoginPcs
  <2>5. CASE TotpCheck(t) /\ Goto(t, "enable")
    BY <2>5 DEF TotpCheck, At, Goto, Verified, Types, ThreadsTyped, Req, Shaped, LoginPcs
  <2> QED
    BY <1>1, <2>1, <2>2, <2>3, <2>4, <2>5 DEF Refused, LoginTotp, Confirm, TotpCheck, Ends
<1>3. \A x \in Threads : Verified(x)' /\ ~th'[x].raced =>
        /\ Verified(x) /\ ~th[x].raced
        /\ th'[x].who = th[x].who /\ th'[x].pass = th[x].pass /\ th'[x].role = th[x].role
  BY <1>1, <1>2 DEF Verified
<1>4. Rotates({})
  BY <1>1, <1>3 DEF Rotates
<1> QED
  BY <1>4, CurrentStays

LEMMA VerifiedCurrent ==
  ASSUME Types, Current, NEW t \in Threads, LoginVerified(t)
  PROVE  Current'
<1>1. /\ UNCHANGED <<acct, sess, anomaly>> /\ th[t].who \in DOMAIN acct
      /\ acct[th[t].who].pass = th[t].pass
  BY DEF LoginVerified
<1>2. CASE "migrate" \in anomaly
  BY <1>1, <1>2 DEF Current
<1>3. CASE "migrate" \notin anomaly
  <2>1. CurrentSessions /\ CurrentLogins
    BY <1>3, CurrentIs
  <2>2. \A u, p, r : Agrees(u, p, r)' <=> Agrees(u, p, r)
    BY <1>1 DEF Agrees
  <2>3. Agrees(th'[t].who, th'[t].pass, th'[t].role)
    BY <1>1, VerifiedTypes DEF Agrees
  <2>4. ASSUME NEW x \in Threads, Verified(x)', ~th'[x].raced
        PROVE  Agrees(th'[x].who, th'[x].pass, th'[x].role)
    <3>1. CASE x = t
      BY <2>3, <3>1
    <3>2. CASE x # t
      BY <2>1, <2>4, <3>2, VerifiedTypes DEF CurrentLogins, Verified
    <3> QED
      BY <3>1, <3>2
  <2>5. CurrentLogins'
    BY <1>1, <2>4 DEF CurrentLogins, Agrees
  <2>6. CurrentSessions'
    BY <1>1, <2>1 DEF CurrentSessions, Agrees
  <2> QED
    BY <2>5, <2>6 DEF Current, CurrentSessions, CurrentLogins
<1> QED
  BY <1>2, <1>3

LEMMA LoginCurrent ==
  ASSUME Types, Current, NEW t \in Threads,
         \/ LoginRefused(t) \/ LoginBadCode(t) \/ LoginFail(t) \/ LoginSuccess(t)
         \/ LookupOidc(t) \/ OpenFile(t) \/ WriteFile(t)
  PROVE  Current'
<1>1. UNCHANGED <<acct, sess, anomaly>>
  BY DEF LoginRefused, LoginBadCode, LoginFail, LoginSuccess, LookupOidc, OpenFile, WriteFile,
         Refuses
<1>2. /\ \A x \in Threads : x # t => th'[x] = th[x]
      /\ Verified(t)' =>
           /\ Verified(t) /\ th'[t].raced = th[t].raced
           /\ th'[t].who = th[t].who /\ th'[t].pass = th[t].pass /\ th'[t].role = th[t].role
  <2>1. CASE LoginRefused(t) \/ LoginBadCode(t)
    BY <2>1, RefusesTypes DEF Verified
  <2>2. CASE LoginFail(t)
    BY <2>2, FailTypes DEF Verified
  <2>3. CASE LoginSuccess(t)
    BY <2>3, SuccessTypes DEF Verified
  <2>4. CASE LookupOidc(t)
    BY <2>4, StuckTypes DEF Verified
  <2>5. CASE Truncates(t)
    BY <2>5, OpenTypes DEF Verified
  <2>6. CASE Finishes(t)
    BY <2>6, WriteTypes DEF Verified
  <2> QED
    BY <2>1, <2>2, <2>3, <2>4, <2>5, <2>6, FileSteps
<1>3. \A x \in Threads : Verified(x)' /\ ~th'[x].raced =>
        /\ Verified(x) /\ ~th[x].raced
        /\ th'[x].who = th[x].who /\ th'[x].pass = th[x].pass /\ th'[x].role = th[x].role
  BY <1>2 DEF Verified
<1>4. Rotates({})
  BY <1>1, <1>3 DEF Rotates
<1> QED
  BY <1>4, CurrentStays

LEMMA MintCurrent ==
  ASSUME Types, Current, NEW t \in Threads, LoginMint(t)
  PROVE  Current'
<1>1. acct' = acct /\ anomaly \subseteq anomaly' /\ ("migrate" \in anomaly' => "migrate" \in anomaly)
  BY DEF LoginMint, Note
<1>2. CASE "migrate" \in anomaly
  BY <1>1, <1>2 DEF Current
<1>3. CASE "migrate" \notin anomaly
  <2>1. CurrentSessions /\ CurrentLogins
    BY <1>3, CurrentIs
  <2>2. ~th[t].raced => Agrees(th[t].who, th[t].pass, th[t].role)
    BY <2>1, MintTypes DEF CurrentLogins, Verified
  <2>3. CurrentSessions'
    <3> SUFFICES ASSUME NEW k \in DOMAIN sess', sess'[k].how = "fresh"
                 PROVE  Agrees(sess'[k].user, sess'[k].pass, sess'[k].role)
      BY <1>1 DEF CurrentSessions, Agrees
    <3>1. CASE k \in DOMAIN sess /\ sess'[k] = sess[k]
      BY <2>1, <3>1 DEF CurrentSessions
    <3>2. CASE ~(k \in DOMAIN sess /\ sess'[k] = sess[k])
      BY <2>2, <3>2, MintTypes
    <3> QED
      BY <3>1, <3>2
  <2>4. CurrentLogins'
    <3> SUFFICES ASSUME NEW x \in Threads, Verified(x)', ~th'[x].raced
                 PROVE  Agrees(th'[x].who, th'[x].pass, th'[x].role)
      BY <1>1 DEF CurrentLogins, Agrees
    <3>1. x # t
      BY MintTypes DEF Verified
    <3> QED
      BY <2>1, <3>1, MintTypes DEF CurrentLogins, Verified
  <2> QED
    BY <2>3, <2>4 DEF Current, CurrentSessions, CurrentLogins
<1> QED
  BY <1>2, <1>3

LEMMA RestartCurrent == ASSUME Types, Restart PROVE Current'
BY RestartTypes DEF Current, Verified

LEMMA DropsCurrent == ASSUME Types, Current, Drops PROVE Current'
<1>1. PICK S \in SUBSET DOMAIN sess : sess' = Restrict(sess, S)
  BY DEF Drops
<1>2. \A k \in DOMAIN sess' : k \in DOMAIN sess /\ sess'[k] = sess[k]
  BY <1>1 DEF Restrict
<1>3. UNCHANGED <<acct, th, anomaly>>
  BY DEF Drops
<1>4. Rotates({})
  BY <1>2, <1>3 DEF Rotates, Verified
<1> QED
  BY <1>4, CurrentStays

\* The logins after a change: those into a rotated account are marked, and the
\* thread of the change is none unless nothing is rotated.
LEMMA AlteredLogins ==
  ASSUME Types, NEW t \in Threads, NEW new, NEW rotated, NEW next,
         Alters(t, new, rotated, next), th[t].op = "login" => rotated = {} /\ Verified(t)
  PROVE  /\ acct' = new
         /\ \A x \in Threads : Verified(x)' /\ ~th'[x].raced =>
              /\ Verified(x) /\ ~th[x].raced /\ th[x].who \notin rotated
              /\ th'[x].who = th[x].who /\ th'[x].pass = th[x].pass /\ th'[x].role = th[x].role
<1>1. /\ acct' = new
      /\ th'[t].op = th[t].op /\ th'[t].who = th[t].who /\ th'[t].pass = th[t].pass
      /\ th'[t].role = th[t].role /\ th'[t].raced = th[t].raced
      /\ \A x \in Threads \ {t} :
           /\ SameBut(th'[x], th[x])
           /\ th'[x].raced = (th[x].raced \/ (Verified(x) /\ th[x].who \in rotated))
  BY ChangedIs DEF Alters
<1>2. ASSUME NEW x \in Threads, Verified(x)', ~th'[x].raced
      PROVE  /\ Verified(x) /\ ~th[x].raced /\ th[x].who \notin rotated
             /\ th'[x].who = th[x].who /\ th'[x].pass = th[x].pass /\ th'[x].role = th[x].role
  <2>1. CASE x = t
    BY <1>1, <1>2, <2>1 DEF Verified
  <2>2. CASE x # t
    <3>1. SameBut(th'[x], th[x]) /\ th'[x].raced = (th[x].raced \/ (Verified(x) /\ th[x].who \in rotated))
      BY <1>1, <2>2
    <3>2. Verified(x)
      BY <1>2, <3>1 DEF Verified, SameBut
    <3> QED
      BY <1>2, <3>1, <3>2 DEF SameBut
  <2> QED
    BY <2>1, <2>2
<1> QED
  BY <1>1, <1>2

LEMMA MigrateCurrent ==
  ASSUME Types, Current, NEW t \in Threads, LoginMigrate(t)
  PROVE  Current'
<1>1. /\ th[t].pc = "migrate" /\ th[t].op = "login" /\ sess' = sess
      /\ anomaly' = anomaly
           \cup Note(th[t].who \in DOMAIN acct /\ acct[th[t].who].pass # th[t].pass, "migrate")
  BY DEF LoginMigrate, At, Types, ThreadsTyped, Shaped, LoginPcs
<1>2. CASE "migrate" \in anomaly'
  BY <1>2 DEF Current
<1>3. CASE "migrate" \notin anomaly'
  <2>1. th[t].who \in DOMAIN acct => acct[th[t].who].pass = th[t].pass
    BY <1>1, <1>3 DEF Note
  <2>2. /\ acct' = Migrated(t)
        /\ \A x \in Threads : Verified(x)' /\ ~th'[x].raced =>
              /\ Verified(x) /\ ~th[x].raced /\ th[x].who \notin {}
              /\ th'[x].who = th[x].who /\ th'[x].pass = th[x].pass /\ th'[x].role = th[x].role
    BY <1>1, MigrateAlters, AlteredLogins DEF Verified
  <2>3. \A u \in DOMAIN acct : /\ u \in DOMAIN acct' /\ acct'[u].pass = acct[u].pass
                               /\ acct'[u].role = acct[u].role
    BY <2>1, <2>2 DEF Migrated, Types, AcctTyped, Acct
  <2>4. anomaly \subseteq anomaly'
    BY <1>1
  <2>5. Rotates({})
    BY <1>1, <2>2, <2>3, <2>4 DEF Rotates
  <2> QED
    BY <2>5, CurrentStays
<1> QED
  BY <1>2, <1>3

\* Changes that leave every password and role alone.
LEMMA HarmlessCurrent ==
  ASSUME Types, Current, NEW t \in Threads, NEW new, NEW next,
         Alters(t, new, {}, next), th[t].op = "login" => Verified(t),
         \A u \in DOMAIN acct : /\ u \in DOMAIN new /\ new[u].pass = acct[u].pass
                                /\ new[u].role = acct[u].role,
         \A k \in DOMAIN sess' : k \in DOMAIN sess /\ sess'[k] = sess[k]
  PROVE  Current'
<1>1. /\ acct' = new
      /\ \A x \in Threads : Verified(x)' /\ ~th'[x].raced =>
            /\ Verified(x) /\ ~th[x].raced /\ th[x].who \notin {}
            /\ th'[x].who = th[x].who /\ th'[x].pass = th[x].pass /\ th'[x].role = th[x].role
  BY AlteredLogins
<1>2. anomaly \subseteq anomaly'
  BY DEF Alters
<1>3. Rotates({})
  BY <1>1, <1>2 DEF Rotates
<1> QED
  BY <1>3, CurrentStays

LEMMA HarmlessAre ==
  ASSUME Types, Current, NEW t \in Threads,
         \/ LoginRecover(t)
         \/ CreateUser(t) /\ th[t].name \notin DOMAIN acct
         \/ TotpEnroll(t) /\ th[t].who \in DOMAIN acct
         \/ TotpEnable(t) /\ th[t].who \in DOMAIN acct
         \/ TotpDisable(t) /\ Knows(t)
  PROVE  Current'
<1> DEFINE Same(new) ==
      \A u \in DOMAIN acct : /\ u \in DOMAIN new /\ new[u].pass = acct[u].pass
                             /\ new[u].role = acct[u].role
<1>1. acct \in [DOMAIN acct -> Acct(keys)] /\ Shaped(th[t])
  BY DEF Types, AcctTyped, ThreadsTyped
<1>2. CASE LoginRecover(t)
  <2> DEFINE new == [acct EXCEPT ![th[t].who].code = FALSE]
  <2>1. Same(new)
    BY <1>1 DEF Acct
  <2>2. Verified(t) /\ sess' = sess
    BY <1>1, <1>2 DEF LoginRecover, At, Verified, Shaped, LoginPcs
  <2>3. Alters(t, new, {}, "success")
    BY <1>2, RecoverAlters
  <2> HIDE DEF new
  <2> QED
    BY <2>1, <2>2, <2>3, HarmlessCurrent
<1>3. CASE CreateUser(t) /\ th[t].name \notin DOMAIN acct
  <2>1. Same(Created(t))
    BY <1>3 DEF Created
  <2>2. th[t].op # "login" /\ sess' = sess
    BY <1>1, <1>3 DEF CreateUser, At, Shaped, LoginPcs
  <2> QED
    BY <1>3, <2>1, <2>2, CreateAlters, HarmlessCurrent
<1>4. CASE TotpEnroll(t) /\ th[t].who \in DOMAIN acct
  <2> DEFINE new == [acct EXCEPT ![th[t].who].totp = "set", ![th[t].who].key = keys + 1,
                                 ![th[t].who].code = TRUE]
  <2>1. Same(new)
    BY <1>1 DEF Acct
  <2>2. th[t].op # "login" /\ sess' = sess
    BY <1>1, <1>4 DEF TotpEnroll, At, Shaped, LoginPcs
  <2>3. Alters(t, new, {}, "idle")
    BY <1>4, EnrollAlters
  <2> HIDE DEF new
  <2> QED
    BY <2>1, <2>2, <2>3, HarmlessCurrent
<1>5. CASE TotpEnable(t) /\ th[t].who \in DOMAIN acct
  <2> DEFINE new == [acct EXCEPT ![th[t].who].totp = "on"]
  <2>1. Same(new)
    BY <1>1 DEF Acct
  <2>2. th[t].op # "login"
    BY <1>1, <1>5 DEF TotpEnable, At, Shaped, LoginPcs
  <2>3. Alters(t, new, {}, "idle") /\ \E S \in SUBSET DOMAIN sess : sess' = Restrict(sess, S)
    BY <1>5, EnableAlters
  <2>4. \A k \in DOMAIN sess' : k \in DOMAIN sess /\ sess'[k] = sess[k]
    BY <2>3 DEF Restrict
  <2> HIDE DEF new
  <2> QED
    BY <2>1, <2>2, <2>3, <2>4, HarmlessCurrent
<1>6. CASE TotpDisable(t) /\ Knows(t)
  <2> DEFINE new == [acct EXCEPT ![th[t].who].totp = "off", ![th[t].who].key = 0,
                                 ![th[t].who].code = FALSE]
  <2>1. Same(new)
    BY <1>1 DEF Acct
  <2>2. th[t].op # "login" /\ sess' = sess
    BY <1>1, <1>6 DEF TotpDisable, At, Shaped, LoginPcs
  <2>3. Alters(t, new, {}, "idle")
    BY <1>6, DisableAlters
  <2> HIDE DEF new
  <2> QED
    BY <2>1, <2>2, <2>3, HarmlessCurrent
<1> QED
  BY <1>2, <1>3, <1>4, <1>5, <1>6

LEMMA ChangePasswordCurrent ==
  ASSUME Types, Current, NEW t \in Threads, ChangePassword(t), Knows(t)
  PROVE  Current'
<1> DEFINE n == th[t].who
           new == [acct EXCEPT ![n].pass = th[t].pass, ![n].legacy = FALSE]
<1>1. Alters(t, new, {n}, "idle") /\ sess' = Retained(n, th[t].keep)
  BY ChangePasswordAlters
<1>2. th[t].op # "login" /\ SessTyped /\ minted' = minted
  BY DEF ChangePassword, At, Types, ThreadsTyped, Shaped, LoginPcs
<1>3. \A u \in DOMAIN acct \ {n} : u \in DOMAIN new /\ new[u] = acct[u]
  OBVIOUS
<1> HIDE DEF new
<1>4. /\ acct' = new
      /\ \A x \in Threads : Verified(x)' /\ ~th'[x].raced =>
            /\ Verified(x) /\ ~th[x].raced /\ th[x].who \notin {n}
            /\ th'[x].who = th[x].who /\ th'[x].pass = th[x].pass /\ th'[x].role = th[x].role
  BY <1>1, <1>2, AlteredLogins
<1>5. \A k \in DOMAIN sess' : sess'[k].how = "fresh" =>
        k \in DOMAIN sess /\ sess'[k] = sess[k] /\ sess[k].user \notin {n}
  BY <1>1, <1>2, SessRetained
<1>6. Rotates({n})
  BY <1>1, <1>3, <1>4, <1>5 DEF Rotates, Alters
<1> QED
  BY <1>6, CurrentStays

LEMMA UpdateCurrent ==
  ASSUME Types, Current, NEW t \in Threads, UpdateUser(t)
  PROVE  Current'
<1> DEFINE n == th[t].who
           m == Target(t)
<1>1. /\ Alters(t, Updated(t), {n}, "idle") /\ sess' = Moved(t, n, m)
      /\ n \in DOMAIN acct /\ m \in All /\ n \in All /\ m \notin DOMAIN acct \ {n}
  BY UpdateAlters DEF Types, AcctTyped
<1>2. th[t].op # "login" /\ SessTyped /\ minted' = minted
  BY DEF UpdateUser, At, Types, ThreadsTyped, Shaped, LoginPcs
<1>3. /\ \A u \in DOMAIN acct \ {n} : u \in DOMAIN Updated(t) /\ Updated(t)[u] = acct[u]
      /\ m \in DOMAIN Updated(t) /\ Updated(t)[m] = Edited(t)
  BY <1>1 DEF Updated
<1>4. /\ acct' = Updated(t)
      /\ \A x \in Threads : Verified(x)' /\ ~th'[x].raced =>
            /\ Verified(x) /\ ~th[x].raced /\ th[x].who \notin {n}
            /\ th'[x].who = th[x].who /\ th'[x].pass = th[x].pass /\ th'[x].role = th[x].role
  BY <1>1, <1>2, AlteredLogins
<1>5. /\ th[t].pass = 0 => Edited(t).pass = acct[n].pass
      /\ th[t].role = None => Edited(t).role = acct[n].role
  BY <1>1, EditedIs
<1>6. DOMAIN sess' \subseteq DOMAIN sess
      /\ \A k \in DOMAIN sess' :
           \/ sess[k].user # n /\ sess'[k] = sess[k]
           \/ sess'[k].how = "kept"
           \/ /\ sess[k].user = n /\ sess'[k].user = m
              /\ th[t].pass = 0 /\ th[t].role = None
              /\ sess'[k].pass = sess[k].pass /\ sess'[k].role = sess[k].role
              /\ sess'[k].how = sess[k].how
  BY <1>1, <1>2, SessMoved
<1> HIDE DEF n, m
<1>7. ASSUME NEW k \in DOMAIN sess', sess'[k].how = "fresh"
      PROVE  \/ k \in DOMAIN sess /\ sess'[k] = sess[k] /\ sess[k].user \notin {n}
             \/ /\ k \in DOMAIN sess /\ sess[k].how = "fresh"
                /\ Agrees(sess[k].user, sess[k].pass, sess[k].role) =>
                     /\ sess'[k].user \in DOMAIN acct'
                     /\ sess'[k].pass = acct'[sess'[k].user].pass
                     /\ sess'[k].role = acct'[sess'[k].user].role
  <2>1. CASE sess[k].user # n /\ sess'[k] = sess[k]
    BY <1>6, <2>1
  <2>2. CASE /\ sess[k].user = n /\ sess'[k].user = m
             /\ th[t].pass = 0 /\ th[t].role = None
             /\ sess'[k].pass = sess[k].pass /\ sess'[k].role = sess[k].role
             /\ sess'[k].how = sess[k].how
    <3>1. acct'[m].pass = acct[n].pass /\ acct'[m].role = acct[n].role /\ m \in DOMAIN acct'
      BY <1>3, <1>4, <1>5, <2>2
    <3> QED
      BY <1>6, <1>7, <2>2, <3>1 DEF Agrees
  <2> QED
    BY <1>6, <1>7, <2>1, <2>2
<1>8. Rotates({n})
  BY <1>1, <1>3, <1>4, <1>7 DEF Rotates, Alters
<1> QED
  BY <1>8, CurrentStays

LEMMA DeleteCurrent ==
  ASSUME Types, Current, NEW t \in Threads, DeleteUser(t), th[t].who \in DOMAIN acct \ {Owner}
  PROVE  Current'
<1> DEFINE n == th[t].who
           new == Restrict(acct, DOMAIN acct \ {n})
<1>1. /\ Alters(t, new, {n}, "idle")
      /\ sess' = Restrict(sess, {k \in DOMAIN sess : sess[k].user # n})
  BY DeleteAlters
<1>2. th[t].op # "login"
  BY DEF DeleteUser, At, Types, ThreadsTyped, Shaped, LoginPcs
<1>3. \A u \in DOMAIN acct \ {n} : u \in DOMAIN new /\ new[u] = acct[u]
  BY DEF Restrict
<1> HIDE DEF new
<1>4. /\ acct' = new
      /\ \A x \in Threads : Verified(x)' /\ ~th'[x].raced =>
            /\ Verified(x) /\ ~th[x].raced /\ th[x].who \notin {n}
            /\ th'[x].who = th[x].who /\ th'[x].pass = th[x].pass /\ th'[x].role = th[x].role
  BY <1>1, <1>2, AlteredLogins
<1>5. \A k \in DOMAIN sess' :
        k \in DOMAIN sess /\ sess'[k] = sess[k] /\ sess[k].user \notin {n}
  BY <1>1 DEF Restrict
<1>6. Rotates({n})
  BY <1>1, <1>3, <1>4, <1>5 DEF Rotates, Alters
<1> QED
  BY <1>6, CurrentStays

LEMMA OwnerCurrent ==
  ASSUME Types, Current, NEW t \in Threads, UpdateOwner(t)
  PROVE  Current'
<1>1. /\ sess' = Retained(Owner, th[t].keep) /\ UNCHANGED <<minted, anomaly>> /\ SessTyped
  BY DEF UpdateOwner, Types
<1>2. \A k \in DOMAIN sess' : sess'[k].how = "fresh" =>
        k \in DOMAIN sess /\ sess'[k] = sess[k] /\ sess[k].user \notin {Owner}
  BY <1>1, SessRetained
<1>3. \A u \in DOMAIN acct \ {Owner} : u \in DOMAIN acct' /\ acct'[u] = acct[u]
  BY OwnerTypes
<1>4. ASSUME NEW x \in Threads, Verified(x)', ~th'[x].raced
      PROVE  /\ Verified(x) /\ ~th[x].raced /\ th[x].who \notin {Owner}
             /\ th'[x].who = th[x].who /\ th'[x].pass = th[x].pass /\ th'[x].role = th[x].role
  <2>1. x # t
    BY <1>4, OwnerTypes DEF Verified
  <2>2. SameBut(th'[x], th[x]) /\ th'[x].raced = (th[x].raced \/ (Verified(x) /\ th[x].who = Owner))
    BY <2>1, OwnerTypes
  <2>3. Verified(x)
    BY <1>4, <2>2 DEF Verified, SameBut
  <2> QED
    BY <1>4, <2>2, <2>3 DEF SameBut
<1>5. Rotates({Owner})
  BY <1>1, <1>2, <1>3, <1>4 DEF Rotates
<1> QED
  BY <1>5, CurrentStays

LEMMA InitCurrent == Init => Current
<1> SUFFICES ASSUME Init PROVE Current
  OBVIOUS
<1>1. /\ sess = [k \in {1} |-> [user |-> Owner, pass |-> 1, role |-> "admin", how |-> "fresh"]]
      /\ acct = Fresh(file) /\ th = [t \in Threads |-> Blank]
  BY DEF Init
<1>2. acct[Owner].pass = 1 /\ acct[Owner].role = "admin" /\ Owner \in DOMAIN acct
  BY <1>1 DEF Fresh, Account
<1>3. CurrentSessions
  BY <1>1, <1>2 DEF CurrentSessions, Agrees
<1>4. CurrentLogins
  BY <1>1 DEF CurrentLogins, Verified, Blank
<1> QED
  BY <1>3, <1>4, CurrentIs

LEMMA NextCurrent == Types /\ Current /\ [Next]_vars => Current'
<1> SUFFICES ASSUME Types, Current, [Next]_vars PROVE Current'
  OBVIOUS
<1>1. CASE UNCHANGED <<acct, sess, th, anomaly>>
  BY <1>1 DEF Current, Verified, Agrees
<1>2. CASE Restart \/ Drops
  BY <1>2, RestartCurrent, DropsCurrent
<1>3. ASSUME NEW t \in Threads, Asks(t) \/ Refused(t) \/ AltersSome(t)
      PROVE  Current'
  BY <1>3, QuietCurrent, MigrateCurrent, HarmlessAre, UpdateCurrent, ChangePasswordCurrent,
     DeleteCurrent DEF AltersSome
<1>4. ASSUME NEW t \in Threads, Single1(t)
      PROVE  Current'
  BY <1>4, QuietCurrent, VerifiedCurrent, LoginCurrent, MintCurrent, OwnerCurrent DEF Single1
<1> QED
  BY <1>1, <1>2, <1>3, <1>4, Cases DEF vars, Clears

LEMMA AlwaysCurrent == Spec => []Current
BY InitTypes, NextTypes, InitCurrent, NextCurrent, PTL DEF Spec

\* A live session that no change has raced with is of an account that exists,
\* with the password and the role it was opened with, for any number of
\* requests at the same time.
THEOREM SessionsFollowAccounts == Spec => []SessionsCurrent
<1>1. Current => SessionsCurrent
  BY DEF Current, SessionsCurrent, Agrees
<1> QED
  BY <1>1, AlwaysCurrent, PTL

----------------------------------------------------------------------------
(* Guesses *)

Tries(r, n) ==
  /\ r.op = "login" /\ r.who = n
  /\ r.pc \in {"verify", "migrate", "open", "write", "totp", "recover"}
Fails(r, n) == r.pc = "fail" /\ r.who = n

LEMMA Counted ==
  ASSUME NEW n
  PROVE  /\ Failing(n) = {x \in Threads : Fails(th[x], n)}
         /\ Trying(n) = {x \in Threads : Tries(th[x], n)}
         /\ IsFiniteSet(Failing(n)) /\ IsFiniteSet(Trying(n)) /\ IsFiniteSet(Threads)
         /\ Cardinality(Failing(n)) \in Nat /\ Cardinality(Trying(n)) \in Nat
         /\ Cardinality(Threads) \in Nat
         /\ Cardinality(Failing(n)) <= Cardinality(Threads)
<1>1. Failing(n) = {x \in Threads : Fails(th[x], n)} /\ Trying(n) = {x \in Threads : Tries(th[x], n)}
  BY DEF Failing, Trying, Fails, Tries
<1>2. Failing(n) \subseteq Threads /\ Trying(n) \subseteq Threads
  BY <1>1
<1>3. IsFiniteSet(Failing(n)) /\ IsFiniteSet(Trying(n)) /\ IsFiniteSet(Threads)
      /\ Cardinality(Failing(n)) <= Cardinality(Threads)
  BY <1>2, FS_Subset, AccountsThreadAssumption
<1> QED
  BY <1>1, <1>3, FS_CardinalityType

\* A bucket that the step leaves alone.
LEMMA BoundedStays ==
  ASSUME Types, NEW n \in All, Bounded(n), rate'[n] = rate[n], guesses'[n] = guesses[n],
         \A x \in Threads : Fails(th'[x], n) <=> Fails(th[x], n),
         rate[n].locked => \A x \in Threads : Tries(th'[x], n) => Tries(th[x], n)
  PROVE  Bounded(n)'
<1>1. Failing(n)' = Failing(n)
  BY DEF Failing, Fails
<1>2. CASE ~rate[n].locked
  BY <1>1, <1>2 DEF Bounded, Slack
<1>3. CASE rate[n].locked
  <2> DEFINE A == Trying(n)
             B == Trying(n)'
  <2>1. B \subseteq A
    BY <1>3 DEF Trying, Tries
  <2>2. IsFiniteSet(A)
    BY Counted
  <2>3. Cardinality(B) <= Cardinality(A) /\ IsFiniteSet(B)
    BY <2>1, <2>2, FS_Subset
  <2>4. Cardinality(A) \in Nat /\ Cardinality(B) \in Nat /\ Cardinality(Threads) \in Nat
    BY <2>2, <2>3, FS_CardinalityType, AccountsThreadAssumption
  <2>5. guesses[n] + Cardinality(A) <= MaxFails + Cardinality(Threads) - 1
    BY <1>3 DEF Bounded
  <2>6. guesses[n] \in Nat /\ MaxFails \in Nat
    BY AccountsBoundAssumption DEF Types, RateTyped
  <2> HIDE DEF A, B
  <2>7. guesses[n] + Cardinality(B) <= MaxFails + Cardinality(Threads) - 1
    BY <2>3, <2>4, <2>5, <2>6
  <2> QED
    BY <1>3, <2>7 DEF Bounded, B
<1> QED
  BY <1>2, <1>3

\* A bucket that is open again, without guesses.
LEMMA BoundedAnew ==
  ASSUME NEW n, ~rate'[n].locked, guesses'[n] = 0, rate'[n].fails \in Nat
  PROVE  Bounded(n)'
<1> DEFINE A == Failing(n)'
<1>1. A \subseteq Threads
  BY DEF Failing
<1>2. Cardinality(A) \in Nat
  BY <1>1, FS_Subset, FS_CardinalityType, AccountsThreadAssumption
<1>3. Slack(n)' \in Nat
  BY DEF Slack
<1> HIDE DEF A
<1>4. 0 <= Slack(n)' + Cardinality(A)
  BY <1>2, <1>3
<1> QED
  BY <1>4 DEF Bounded, A

LEMMA GoesOut ==
  ASSUME NEW S, IsFiniteSet(S), NEW x \in S
  PROVE  Cardinality(S \ {x}) = Cardinality(S) - 1 /\ Cardinality(S) \in Nat \ {0}
<1>1. IsFiniteSet(S \ {x}) /\ Cardinality(S) \in Nat /\ Cardinality(S \ {x}) \in Nat
  BY FS_Subset, FS_CardinalityType, FS_RemoveElement
<1>2. Cardinality(S \ {x}) = Cardinality(S) - 1
  BY FS_RemoveElement
<1> QED
  BY <1>1, <1>2

\* The arithmetic of a wrong guess: a login that was trying is now failing.
LEMMA GuessCounts ==
  ASSUME NEW F, NEW G, IsFiniteSet(F), IsFiniteSet(G), NEW t, t \notin F, t \in G,
         NEW locked \in BOOLEAN, NEW g \in Nat, NEW s \in Nat, NEW top \in Int,
         IF locked THEN g + Cardinality(G) <= top ELSE g <= s + Cardinality(F)
  PROVE  IF locked THEN (g + 1) + Cardinality(G \ {t}) <= top
                   ELSE g + 1 <= s + Cardinality(F \cup {t})
<1> DEFINE c == Cardinality(F)
           c1 == Cardinality(F \cup {t})
           d == Cardinality(G)
           d1 == Cardinality(G \ {t})
<1>1. c1 = c + 1 /\ c \in Nat
  BY FS_AddElement, FS_CardinalityType
<1>2. d1 = d - 1 /\ d \in Nat
  BY GoesOut, FS_CardinalityType
<1> HIDE DEF c, c1, d, d1
<1>3. ASSUME locked, g + d <= top PROVE (g + 1) + d1 <= top
  BY <1>2, <1>3
<1>4. ASSUME ~locked, g <= s + c PROVE g + 1 <= s + c1
  BY <1>1, <1>4
<1> QED
  BY <1>3, <1>4 DEF c, c1, d, d1

\* The arithmetic of counting it: the bucket goes from "lock" and f failures to
\* "locked" and f + 1.
LEMMA CountCounts ==
  ASSUME NEW T, IsFiniteSet(T), NEW F \in SUBSET T, NEW G \in SUBSET T, F \cap G = {},
         NEW t \in F, NEW lock \in BOOLEAN, NEW g \in Nat, NEW f \in Nat, NEW max \in Nat \ {0},
         IF lock THEN g + Cardinality(G) <= max + Cardinality(T) - 1
                 ELSE g <= (IF f < max THEN f ELSE 0) + Cardinality(F)
  PROVE  /\ lock \/ f + 1 >= max => g + Cardinality(G) <= max + Cardinality(T) - 1
         /\ ~(lock \/ f + 1 >= max) =>
              g <= (IF f + 1 < max THEN f + 1 ELSE 0) + Cardinality(F \ {t})
<1> DEFINE c == Cardinality(F)
           c1 == Cardinality(F \ {t})
           d == Cardinality(G)
           k == Cardinality(T)
           u == Cardinality(F \cup G)
<1>1. IsFiniteSet(F) /\ IsFiniteSet(G) /\ IsFiniteSet(F \cup G) /\ u <= k
  BY FS_Subset
<1>2. c \in Nat /\ d \in Nat /\ k \in Nat /\ u \in Nat
  BY <1>1, FS_CardinalityType
<1>3. c1 = c - 1
  BY <1>1, GoesOut
<1>4. u = c + d
  <2>1. u = c + d - Cardinality(F \cap G)
    BY <1>1, FS_Union
  <2>2. Cardinality(F \cap G) = 0
    BY FS_EmptySet
  <2> HIDE DEF u, c, d
  <2> QED
    BY <1>2, <2>1, <2>2
<1> HIDE DEF c, c1, d, k, u
<1>5. CASE lock
  <2>1. g + d <= max + k - 1
    BY <1>5 DEF d, k
  <2> QED
    BY <1>5, <2>1 DEF d, k
<1>6. CASE ~lock
  <2>1. g <= (IF f < max THEN f ELSE 0) + c
    BY <1>6 DEF c
  <2>2. (IF f < max THEN f ELSE 0) <= max - 1
    OBVIOUS
  <2>3. g + d <= max + k - 1
    <3> DEFINE s == IF f < max THEN f ELSE 0
    <3>1. s \in Nat /\ s <= max - 1 /\ g <= s + c
      BY <2>1, <2>2
    <3> HIDE DEF s
    <3> QED
      BY <1>1, <1>2, <1>4, <3>1
  <2>4. ASSUME ~(f + 1 >= max) PROVE g <= (IF f + 1 < max THEN f + 1 ELSE 0) + c1
    <3>1. g <= f + c
      BY <2>1, <2>4
    <3>2. f + 1 < max
      BY <2>4
    <3>3. g <= (f + 1) + c1
      BY <1>2, <1>3, <3>1
    <3> QED
      BY <3>2, <3>3
  <2> QED
    BY <1>6, <2>3, <2>4 DEF c1, d, k
<1> QED
  BY <1>5, <1>6

\* A wrong guess.
LEMMA RefusesBudget ==
  ASSUME Types, Budget, NEW t \in Threads, LoginRefused(t) \/ LoginBadCode(t)
  PROVE  Budget'
<1>1. /\ th'[t].pc = "fail" /\ th'[t].who = th[t].who /\ th'[t].op = "login"
      /\ \A x \in Threads : x # t => th'[x] = th[x]
      /\ th[t].pc \in {"verify", "recover"} /\ th[t].op = "login" /\ th[t].who \in All
      /\ guesses' = [guesses EXCEPT ![th[t].who] = @ + 1]
  BY RefusesTypes
<1>2. rate' = rate
  BY DEF LoginRefused, LoginBadCode, Refuses
<1>3. guesses \in [All -> Nat] /\ MaxFails \in Nat /\ rate \in [All -> [fails : Nat, locked : BOOLEAN]]
  BY AccountsBoundAssumption DEF Types, RateTyped
<1>4. ASSUME NEW n \in All, n # th[t].who PROVE Bounded(n)'
  <2>1. \A x \in Threads : /\ Fails(th'[x], n) <=> Fails(th[x], n)
                           /\ Tries(th'[x], n) => Tries(th[x], n)
    BY <1>1, <1>4 DEF Fails, Tries
  <2>2. rate'[n] = rate[n] /\ guesses'[n] = guesses[n] /\ Bounded(n)
    BY <1>1, <1>2, <1>3, <1>4 DEF Budget
  <2> QED
    BY <2>1, <2>2, BoundedStays
<1>5. ASSUME NEW m \in All, m = th[t].who PROVE Bounded(m)'
  <2>1. t \notin Failing(m) /\ Failing(m)' = Failing(m) \cup {t}
    BY <1>1, <1>5 DEF Failing
  <2>2. t \in Trying(m) /\ Trying(m)' = Trying(m) \ {t}
    BY <1>1, <1>5 DEF Trying
  <2>3. IsFiniteSet(Failing(m)) /\ IsFiniteSet(Trying(m)) /\ Cardinality(Threads) \in Nat
    BY Counted
  <2>4. /\ guesses[m] \in Nat /\ guesses'[m] = guesses[m] + 1 /\ rate'[m] = rate[m]
        /\ Slack(m) \in Nat /\ Slack(m)' = Slack(m)
    BY <1>1, <1>2, <1>3, <1>5 DEF Slack
  <2>5. MaxFails + Cardinality(Threads) - 1 \in Int
    BY <1>3, <2>3
  <2>6. IF rate[m].locked THEN guesses[m] + Cardinality(Trying(m)) <= MaxFails + Cardinality(Threads) - 1
        ELSE guesses[m] <= Slack(m) + Cardinality(Failing(m))
    BY DEF Budget, Bounded
  <2>7. rate[m].locked \in BOOLEAN
    BY <1>3
  <2> DEFINE top == MaxFails + Cardinality(Threads) - 1
             g == guesses[m]
             s == Slack(m)
             F == Failing(m)
             G == Trying(m)
  <2>8. IF rate[m].locked THEN (g + 1) + Cardinality(G \ {t}) <= top
        ELSE g + 1 <= s + Cardinality(F \cup {t})
    <3>1. /\ t \notin F /\ t \in G /\ IsFiniteSet(F) /\ IsFiniteSet(G) /\ g \in Nat /\ s \in Nat
          /\ top \in Int
          /\ IF rate[m].locked THEN g + Cardinality(G) <= top ELSE g <= s + Cardinality(F)
      BY <2>1, <2>2, <2>3, <2>4, <2>5, <2>6
    <3> HIDE DEF top, g, s, F, G
    <3> QED
      BY <2>7, <3>1, GuessCounts
  <2> QED
    BY <2>1, <2>2, <2>4, <2>8 DEF Bounded
<1> QED
  BY <1>4, <1>5 DEF Budget

\* The wrong guess is counted.
LEMMA FailBudget ==
  ASSUME Types, Budget, NEW t \in Threads, LoginFail(t)
  PROVE  Budget'
<1>1. /\ th'[t].pc = "idle" /\ th'[t].op = "none"
      /\ \A x \in Threads : x # t => th'[x] = th[x]
      /\ th[t].pc = "fail" /\ th[t].op = "login" /\ th[t].who \in All
      /\ rate' = [rate EXCEPT ![th[t].who] =
                    [fails |-> rate[th[t].who].fails + 1,
                     locked |-> @.locked \/ rate[th[t].who].fails + 1 >= MaxFails]]
      /\ guesses' = guesses
  BY FailTypes
<1>2. /\ guesses \in [All -> Nat] /\ MaxFails \in Nat \ {0}
      /\ rate \in [All -> [fails : Nat, locked : BOOLEAN]]
  BY AccountsBoundAssumption DEF Types, RateTyped
<1>3. ASSUME NEW n \in All, n # th[t].who PROVE Bounded(n)'
  <2>1. \A x \in Threads : /\ Fails(th'[x], n) <=> Fails(th[x], n)
                           /\ Tries(th'[x], n) => Tries(th[x], n)
    BY <1>1, <1>3 DEF Fails, Tries
  <2>2. rate'[n] = rate[n] /\ guesses'[n] = guesses[n] /\ Bounded(n)
    BY <1>1, <1>2, <1>3 DEF Budget
  <2> QED
    BY <2>1, <2>2, BoundedStays
<1>4. ASSUME NEW m \in All, m = th[t].who PROVE Bounded(m)'
  <2>1. t \in Failing(m) /\ Failing(m)' = Failing(m) \ {t}
    BY <1>1, <1>4 DEF Failing
  <2>2. /\ Trying(m)' = Trying(m) /\ Failing(m) \cap Trying(m) = {}
        /\ Failing(m) \in SUBSET Threads /\ Trying(m) \in SUBSET Threads
    BY <1>1, <1>4 DEF Trying, Failing
  <2>3. /\ guesses[m] \in Nat /\ guesses'[m] = guesses[m]
        /\ rate[m].fails \in Nat /\ rate[m].locked \in BOOLEAN
    BY <1>1, <1>2
  <2>4. rate'[m] = [fails |-> rate[m].fails + 1,
                    locked |-> rate[m].locked \/ rate[m].fails + 1 >= MaxFails]
    BY <1>1, <1>2, <1>4, Zenon
  <2>5. IF rate[m].locked THEN guesses[m] + Cardinality(Trying(m)) <= MaxFails + Cardinality(Threads) - 1
        ELSE guesses[m] <= (IF rate[m].fails < MaxFails THEN rate[m].fails ELSE 0) + Cardinality(Failing(m))
    BY DEF Budget, Bounded, Slack
  <2> DEFINE g == guesses[m]
             f == rate[m].fails
             lock == rate[m].locked
             F == Failing(m)
             G == Trying(m)
             b == lock \/ f + 1 >= MaxFails
  <2>6. /\ b => g + Cardinality(G) <= MaxFails + Cardinality(Threads) - 1
        /\ ~b => g <= (IF f + 1 < MaxFails THEN f + 1 ELSE 0) + Cardinality(F \ {t})
    <3>1. /\ F \in SUBSET Threads /\ G \in SUBSET Threads /\ F \cap G = {} /\ t \in F
          /\ lock \in BOOLEAN /\ g \in Nat /\ f \in Nat
          /\ IF lock THEN g + Cardinality(G) <= MaxFails + Cardinality(Threads) - 1
             ELSE g <= (IF f < MaxFails THEN f ELSE 0) + Cardinality(F)
      BY <2>1, <2>2, <2>3, <2>5
    <3> HIDE DEF g, f, lock, F, G
    <3> QED
      BY <1>2, <3>1, CountCounts, AccountsThreadAssumption
  <2>7. rate'[m].locked = b /\ rate'[m].fails = f + 1 /\ b \in BOOLEAN
    BY <2>3, <2>4
  <2>8. CASE b
    <3>1. rate'[m].locked
      <4> HIDE DEF b
      <4> QED
        BY <2>7, <2>8
    <3>2. g + Cardinality(G) <= MaxFails + Cardinality(Threads) - 1
      BY <2>6, <2>8
    <3> QED
      BY <2>2, <2>3, <3>1, <3>2 DEF Bounded
  <2>9. CASE ~b
    <3>1. ~rate'[m].locked
      <4> HIDE DEF b
      <4> QED
        BY <2>7, <2>9
    <3>2. g <= (IF f + 1 < MaxFails THEN f + 1 ELSE 0) + Cardinality(F \ {t})
      BY <2>6, <2>9
    <3>3. Slack(m)' = IF f + 1 < MaxFails THEN f + 1 ELSE 0
      BY <2>7 DEF Slack
    <3> QED
      BY <2>1, <2>3, <3>1, <3>2, <3>3 DEF Bounded
  <2> QED
    BY <2>8, <2>9
<1> QED
  BY <1>3, <1>4 DEF Budget

\* From record s to record r a request guesses no more than before, nor is a
\* guess of it counted; one that begins has found the bucket open.
SameGuess(r, s) ==
  \A n \in All : /\ Fails(r, n) <=> Fails(s, n)
                 /\ Tries(r, n) => Tries(s, n) \/ ~rate[n].locked

LEMMA BudgetStays ==
  ASSUME Types, Budget,
         \A n \in All :
           \/ rate'[n] = rate[n] /\ guesses'[n] = guesses[n]
           \/ ~rate'[n].locked /\ guesses'[n] = 0 /\ rate'[n].fails \in Nat,
         \A x \in Threads : SameGuess(th'[x], th[x])
  PROVE  Budget'
<1> SUFFICES ASSUME NEW n \in All PROVE Bounded(n)'
  BY DEF Budget
<1>1. CASE rate'[n] = rate[n] /\ guesses'[n] = guesses[n]
  <2>1. \A x \in Threads : /\ Fails(th'[x], n) <=> Fails(th[x], n)
                           /\ Tries(th'[x], n) => Tries(th[x], n) \/ ~rate[n].locked
    BY DEF SameGuess
  <2>2. Bounded(n)
    BY DEF Budget
  <2> QED
    BY <1>1, <2>1, <2>2, BoundedStays
<1>2. CASE ~rate'[n].locked /\ guesses'[n] = 0 /\ rate'[n].fails \in Nat
  BY <1>2, BoundedAnew
<1> QED
  BY <1>1, <1>2

LEMMA BudgetHeld ==
  ASSUME Types, Budget, UNCHANGED <<rate, guesses>>,
         \A x \in Threads : SameGuess(th'[x], th[x])
  PROVE  Budget'
BY BudgetStays

\* What a request goes on with.
LEMMA GuessOf ==
  ASSUME NEW r, NEW s,
         \/ SameBut(r, s)
         \/ r = s
         \/ r.pc # "fail" /\ s.pc # "fail" /\ r.op # "login"
         \/ r.pc # "fail" /\ s.pc # "fail" /\ s.op = "login" /\ r.who = s.who
            /\ s.pc \in {"verify", "migrate", "open", "write", "totp", "recover"}
         \/ r.pc \in {"success", "mint", "idle", "stuck"} /\ s.pc # "fail"
  PROVE  SameGuess(r, s)
BY DEF SameGuess, SameBut, Fails, Tries

LEMMA AsksBudget ==
  ASSUME Types, Budget, NEW t \in Threads, Asks(t)
  PROVE  Budget'
<1>1. PICK r \in Req(keys) :
        /\ r.pc \in {"verify", "chpass", "create", "confirm", "enroll", "check",
                     "totpoff", "lookup"}
        /\ r.op = "login" => ~rate[r.who].locked
        /\ th' = [th EXCEPT ![t] = r]
  BY DEF Asks
<1>2. th[t].pc = "idle" /\ UNCHANGED <<rate, guesses>>
  BY DEF Asks, At
<1>3. th'[t] = r /\ \A x \in Threads : x # t => th'[x] = th[x]
  BY <1>1 DEF Types, ThreadsTyped
<1>4. SameGuess(r, th[t])
  BY <1>1, <1>2 DEF SameGuess, Fails, Tries
<1>5. \A x \in Threads : SameGuess(th'[x], th[x])
  BY <1>3, <1>4, GuessOf
<1> QED
  BY <1>2, <1>5, BudgetHeld

LEMMA QuietBudget ==
  ASSUME Types, Budget, NEW t \in Threads,
         Refused(t) \/ LoginTotp(t) \/ Confirm(t) \/ TotpCheck(t)
  PROVE  Budget'
<1>1. /\ UNCHANGED <<rate, guesses, keys>> /\ th[t].pc # "fail"
      /\ th \in [Threads -> Req(keys)] /\ Shaped(th[t])
  BY DEF Refused, LoginTotp, Confirm, TotpCheck, At, Ends, Types, ThreadsTyped
<1>2. CASE Done(t)
  <2>1. th'[t].pc = "idle" /\ \A x \in Threads : x # t => th'[x] = th[x]
    BY <1>1, <1>2, EndsIs
  <2>2. \A x \in Threads : SameGuess(th'[x], th[x])
    BY <1>1, <2>1, GuessOf
  <2> QED
    BY <1>1, <2>2, BudgetHeld
<1>3. CASE ~Done(t)
  <2>1. \/ /\ th[t].pc = "totp" /\ th[t].op = "login"
           /\ Goto(t, "success") \/ Goto(t, "recover")
        \/ /\ th[t].pc \in {"confirm", "check"} /\ th[t].op # "login"
           /\ Goto(t, "update") \/ Goto(t, "delete") \/ Goto(t, "enable")
    <3>1. th[t].pc = "totp" => th[t].op = "login"
      BY <1>1 DEF Shaped, LoginPcs
    <3>2. /\ th[t].pc \in {"confirm", "check"} => th[t].op # "login"
          /\ th[t].pc = "confirm" => th[t].op \in {"update", "delete"}
      BY <1>1 DEF Shaped, LoginPcs
    <3> QED
      BY <1>3, <3>1, <3>2 DEF Refused, LoginTotp, Confirm, TotpCheck, Ends, At
  <2>2. /\ th'[t].pc # "fail" /\ th'[t].op = th[t].op /\ th'[t].who = th[t].who
        /\ \A x \in Threads : x # t => th'[x] = th[x]
    BY <1>1, <2>1 DEF Goto, Req
  <2>3. \A x \in Threads : SameGuess(th'[x], th[x])
    BY <1>1, <2>1, <2>2, GuessOf
  <2> QED
    BY <1>1, <2>3, BudgetHeld
<1> QED
  BY <1>2, <1>3

LEMMA StepsBudget ==
  ASSUME Types, Budget, NEW t \in Threads,
         LoginVerified(t) \/ LoginMint(t) \/ OpenFile(t) \/ WriteFile(t) \/ LookupOidc(t)
  PROVE  Budget'
<1>1. UNCHANGED <<rate, guesses>> /\ \A x \in Threads : x # t => th'[x] = th[x]
  BY VerifiedTypes, MintTypes, FileSteps, OpenTypes, WriteTypes, StuckTypes
     DEF LoginVerified, LoginMint, OpenFile, WriteFile, LookupOidc
<1>2. th[t].pc = "verify" => th[t].op = "login"
  BY DEF Types, ThreadsTyped, Shaped, LoginPcs
<1>3. SameGuess(th'[t], th[t])
  <2>1. CASE LoginVerified(t)
    BY <1>2, <2>1, VerifiedTypes, GuessOf DEF LoginVerified, At, LoginPcs
  <2>2. CASE LoginMint(t) \/ LookupOidc(t)
    BY <2>2, MintTypes, StuckTypes, GuessOf
  <2>3. CASE Truncates(t)
    BY <2>3, OpenTypes, GuessOf
  <2>4. CASE Finishes(t)
    BY <2>4, WriteTypes, GuessOf
  <2> QED
    BY <2>1, <2>2, <2>3, <2>4, FileSteps
<1>4. \A x \in Threads : SameGuess(th'[x], th[x])
  BY <1>1, <1>3, GuessOf
<1> QED
  BY <1>1, <1>4, BudgetHeld

LEMMA SuccessBudget ==
  ASSUME Types, Budget, NEW t \in Threads, LoginSuccess(t)
  PROVE  Budget'
<1>1. /\ th'[t].pc = "mint" /\ th[t].pc = "success"
      /\ \A x \in Threads : x # t => th'[x] = th[x]
  BY SuccessTypes
<1>2. \A x \in Threads : SameGuess(th'[x], th[x])
  BY <1>1, GuessOf
<1>3. /\ rate' = [rate EXCEPT ![th[t].who] = NoBucket]
      /\ guesses' = [guesses EXCEPT ![th[t].who] = 0]
  BY DEF LoginSuccess
<1>4. \A n \in All : \/ rate'[n] = rate[n] /\ guesses'[n] = guesses[n]
                     \/ ~rate'[n].locked /\ guesses'[n] = 0 /\ rate'[n].fails \in Nat
  BY <1>3 DEF NoBucket, Types, RateTyped
<1> QED
  BY <1>2, <1>4, BudgetStays

LEMMA ClearsBudget == ASSUME Types, Budget, Clears PROVE Budget'
<1>1. PICK m \in All :
        /\ rate' \in {[rate EXCEPT ![m] = NoBucket], [rate EXCEPT ![m].locked = FALSE]}
        /\ guesses' = [guesses EXCEPT ![m] = 0]
  BY DEF Clears
<1>2. \A n \in All : \/ rate'[n] = rate[n] /\ guesses'[n] = guesses[n]
                     \/ ~rate'[n].locked /\ guesses'[n] = 0 /\ rate'[n].fails \in Nat
  BY <1>1 DEF NoBucket, Types, RateTyped
<1>3. \A x \in Threads : SameGuess(th'[x], th[x])
  BY GuessOf DEF Clears
<1> QED
  BY <1>2, <1>3, BudgetStays

LEMMA RestartBudget == ASSUME Types, Budget, Restart PROVE Budget'
<1>1. rate' = [n \in All |-> NoBucket] /\ guesses' = [n \in All |-> 0]
  BY DEF Restart
<1> SUFFICES ASSUME NEW n \in All PROVE Bounded(n)'
  BY DEF Budget
<1>2. ~rate'[n].locked /\ guesses'[n] = 0 /\ rate'[n].fails \in Nat
  BY <1>1 DEF NoBucket
<1> QED
  BY <1>2, BoundedAnew

LEMMA OwnerBudget ==
  ASSUME Types, Budget, NEW t \in Threads, UpdateOwner(t)
  PROVE  Budget'
<1>1. /\ th'[t].pc = "idle" /\ th[t].pc = "update"
      /\ \A x \in Threads \ {t} : SameBut(th'[x], th[x])
  BY OwnerTypes
<1>2. \A x \in Threads : SameGuess(th'[x], th[x])
  BY <1>1, GuessOf
<1> QED
  BY <1>2, BudgetHeld DEF UpdateOwner

LEMMA AltersBudget ==
  ASSUME Types, Budget, NEW t \in Threads, AltersSome(t)
  PROVE  Budget'
<1>1. PICK new, rotated, next : Alters(t, new, rotated, next)
  BY AltersSomeIs
<1>2. /\ th'[t].pc = "open" /\ th'[t].op = th[t].op /\ th'[t].who = th[t].who
      /\ \A x \in Threads \ {t} : SameBut(th'[x], th[x])
  BY <1>1, ChangedIs DEF Alters
<1>3. th[t].pc # "fail" /\ (th[t].op = "login" => th[t].pc \in {"migrate", "recover"})
  <2>1. Shaped(th[t])
    BY DEF Types, ThreadsTyped
  <2>2. th[t].pc \in {"migrate", "recover", "update", "chpass", "create", "delete", "enroll",
                      "enable", "totpoff"}
    BY DEF AltersSome, LoginMigrate, LoginRecover, UpdateUser, ChangePassword, CreateUser,
           DeleteUser, TotpEnroll, TotpEnable, TotpDisable, At
  <2> QED
    BY <2>1, <2>2 DEF Shaped, LoginPcs
<1>4. \A x \in Threads : SameGuess(th'[x], th[x])
  BY <1>2, <1>3, GuessOf
<1>5. \A n \in All : \/ rate'[n] = rate[n] /\ guesses'[n] = guesses[n]
                     \/ ~rate'[n].locked /\ guesses'[n] = 0 /\ rate'[n].fails \in Nat
  <2>1. CASE DeleteUser(t) /\ th[t].who \in DOMAIN acct \ {Owner}
    <3>1. /\ rate' = [rate EXCEPT ![th[t].who] = NoBucket]
          /\ guesses' = [guesses EXCEPT ![th[t].who] = 0]
      BY <2>1 DEF DeleteUser
    <3> QED
      BY <3>1 DEF NoBucket, Types, RateTyped
  <2>2. CASE ~(DeleteUser(t) /\ th[t].who \in DOMAIN acct \ {Owner})
    <3>1. UNCHANGED <<rate, guesses>>
      BY <2>2 DEF AltersSome, LoginMigrate, LoginRecover, UpdateUser, ChangePassword, CreateUser,
                  TotpEnroll, TotpEnable, TotpDisable, Ends
    <3> QED
      BY <3>1
  <2> QED
    BY <2>1, <2>2
<1> QED
  BY <1>4, <1>5, BudgetStays

LEMMA InitBudget == Init => Budget
<1> SUFFICES ASSUME Init, NEW n \in All PROVE Bounded(n)
  BY DEF Budget
<1>1. rate = [x \in All |-> NoBucket] /\ guesses = [x \in All |-> 0]
  BY DEF Init
<1>2. ~rate[n].locked /\ guesses[n] = 0 /\ Slack(n) \in Nat
  BY <1>1 DEF NoBucket, Slack
<1>3. Cardinality(Failing(n)) \in Nat
  BY Counted
<1> DEFINE c == Cardinality(Failing(n))
<1>4. 0 <= Slack(n) + c
  <2> HIDE DEF c
  <2> QED
    BY <1>2, <1>3 DEF c
<1> QED
  BY <1>2, <1>4 DEF Bounded

LEMMA NextBudget == Types /\ Budget /\ [Next]_vars => Budget'
<1> SUFFICES ASSUME Types, Budget, [Next]_vars PROVE Budget'
  OBVIOUS
<1>1. CASE UNCHANGED <<rate, guesses, th>>
  <2>1. \A x \in Threads : SameGuess(th'[x], th[x])
    BY <1>1, GuessOf
  <2> QED
    BY <1>1, <2>1, BudgetHeld
<1>2. CASE Clears \/ Restart
  BY <1>2, ClearsBudget, RestartBudget
<1>3. ASSUME NEW t \in Threads, Asks(t) \/ Refused(t) \/ AltersSome(t)
      PROVE  Budget'
  BY <1>3, AsksBudget, QuietBudget, AltersBudget
<1>4. ASSUME NEW t \in Threads, Single1(t)
      PROVE  Budget'
  BY <1>4, QuietBudget, StepsBudget, RefusesBudget, FailBudget, SuccessBudget, OwnerBudget
     DEF Single1
<1> QED
  BY <1>1, <1>2, <1>3, <1>4, Cases DEF vars, Drops

LEMMA AlwaysBudget == Spec => []Budget
BY InitTypes, NextTypes, InitBudget, NextBudget, PTL DEF Spec

\* Within one window an address tries at most MaxFails passwords or codes of an
\* account, and one more for every other request that is under way: for any
\* number of requests, accounts and failures that lock.
THEOREM GuessesAreLimited == Spec => []GuessBudget
<1>1. Types /\ Budget => GuessBudget
  <2> SUFFICES ASSUME Types, Budget, NEW n \in All
               PROVE  guesses[n] <= MaxFails + Cardinality(Threads) - 1
    BY DEF GuessBudget
  <2> DEFINE c == Cardinality(Failing(n))
             d == Cardinality(Trying(n))
             k == Cardinality(Threads)
             g == guesses[n]
             s == Slack(n)
  <2>1. c \in Nat /\ d \in Nat /\ k \in Nat /\ c <= k
    BY Counted
  <2>2. g \in Nat /\ rate[n].fails \in Nat /\ MaxFails \in Nat \ {0}
    BY AccountsBoundAssumption DEF Types, RateTyped
  <2>3. s \in Nat /\ s <= MaxFails - 1
    BY <2>2 DEF Slack
  <2>4. IF rate[n].locked THEN g + d <= MaxFails + k - 1 ELSE g <= s + c
    BY DEF Budget, Bounded
  <2> HIDE DEF c, d, k, g, s
  <2>5. g <= MaxFails + k - 1
    BY <2>1, <2>2, <2>3, <2>4
  <2> QED
    BY <2>5 DEF g, k
<1> QED
  BY <1>1, AlwaysTypes, AlwaysBudget, PTL

----------------------------------------------------------------------------
(* Recovery codes *)

\* Two accounts do not share a code that is still good.
OneHolder(a) ==
  \A n, m \in DOMAIN a : a[n].code /\ a[m].code /\ a[n].key = a[m].key => n = m

\* Every good code of the accounts "new" was good in acct.
KeepsCodes(new) ==
  /\ OneHolder(new)
  /\ \A n \in DOMAIN new : new[n].code =>
       \E m \in DOMAIN acct : acct[m].code /\ acct[m].key = new[n].key

\* A login that has used a code up by the record r had by the record s.
Holds(r, s) == Past(r) => Past(s) /\ r.code.key = s.code.key
StaysOpen(r, s) == s.pc = "open" => r.pc = "open"

LEMMA SingleStays ==
  ASSUME Single, "lost" \in anomaly => "lost" \in anomaly',
         "respent" \in anomaly' => "respent" \in anomaly, spent' = spent,
         mirror' = "good" => mirror = "good",
         file' \in {file, Torn}, "lost" \notin anomaly => KeepsCodes(acct'),
         \A x \in Threads : Holds(th'[x], th[x]),
         \A x \in Threads : Past(th'[x]) =>
           file' = Torn \/ mirror' # "good" \/ StaysOpen(th'[x], th[x])
  PROVE  Single'
<1>1. CASE "lost" \in anomaly
  BY <1>1 DEF Single
<1>2. CASE "lost" \notin anomaly
  <2> USE <1>2 DEF Single
  <2>1. "respent" \notin anomaly'
    BY DEF OnePlace
  <2>2. \A n, m \in DOMAIN acct' :
          acct'[n].code /\ acct'[m].code /\ acct'[n].key = acct'[m].key => n = m
    BY <1>2 DEF KeepsCodes, OneHolder
  <2>3. ASSUME NEW n \in DOMAIN acct', acct'[n].code
        PROVE  /\ acct'[n].key \notin spent'
               /\ \A x \in Threads : Past(th'[x]) => th'[x].code.key # acct'[n].key
    <3>1. PICK m \in DOMAIN acct : acct[m].code /\ acct[m].key = acct'[n].key
      BY <1>2, <2>3 DEF KeepsCodes
    <3> QED
      BY <3>1 DEF OnePlace, Holds
  <2>4. ASSUME file' # Torn, mirror' = "good"
        PROVE  /\ \A n, m \in DOMAIN file' :
                    file'[n].code /\ file'[m].code /\ file'[n].key = file'[m].key => n = m
               /\ \A n \in DOMAIN file' : file'[n].code =>
                    /\ file'[n].key \notin spent'
                    /\ \A x \in Threads : Past(th'[x]) /\ th'[x].code.key = file'[n].key
                                             => th'[x].pc = "open"
    <3>1. file' = file /\ file # Torn /\ mirror = "good"
      BY <2>4
    <3>2. ASSUME NEW n \in DOMAIN file, file[n].code, NEW x \in Threads,
                 Past(th'[x]), th'[x].code.key = file[n].key
          PROVE  th'[x].pc = "open"
      BY <2>4, <3>1, <3>2 DEF OnePlace, Holds, StaysOpen
    <3> QED
      BY <3>1, <3>2 DEF OnePlace
  <2>5. \A x \in Threads : Past(th'[x]) => th'[x].code.key \notin spent'
    BY DEF OnePlace, Holds
  <2>6. \A x, y \in Threads :
          Past(th'[x]) /\ Past(th'[y]) /\ th'[x].code.key = th'[y].code.key => x = y
    BY DEF OnePlace, Holds
  <2>7. OnePlace'
    BY <2>1, <2>2, <2>3, <2>4, <2>5, <2>6 DEF OnePlace
  <2> QED
    BY <2>7
<1> QED
  BY <1>1, <1>2

LEMMA SameCodes == ASSUME Single, "lost" \notin anomaly PROVE KeepsCodes(acct)
BY DEF Single, OnePlace, KeepsCodes, OneHolder

\* Each name keeps its code, if it keeps it at all.
LEMMA FewerCodes ==
  ASSUME Single, "lost" \notin anomaly, NEW new,
         \A n \in DOMAIN new : new[n].code =>
           n \in DOMAIN acct /\ acct[n].code /\ acct[n].key = new[n].key
  PROVE  KeepsCodes(new)
BY DEF Single, OnePlace, KeepsCodes, OneHolder

LEMMA HoldsIf ==
  ASSUME NEW r, NEW s,
         \/ SameBut(r, s) \/ r = s
         \/ r.op # "login" \/ r.pc \notin {"success", "mint", "open", "write"}
         \/ r.pc \in {"success", "mint"} /\ (~r.twofa \/ r.code.kind # "recovery")
  PROVE  Holds(r, s) /\ (Past(r) => StaysOpen(r, s))
BY DEF SameBut, Holds, Past, StaysOpen

\* A step that leaves the accounts and the file alone and uses no code.
LEMMA QuietSingle ==
  ASSUME Types, Single, NEW t \in Threads,
         \/ Asks(t) \/ Refused(t) \/ LoginTotp(t) \/ Confirm(t) \/ TotpCheck(t)
         \/ LoginVerified(t) \/ LoginRefused(t) \/ LoginBadCode(t) \/ LoginFail(t)
         \/ LoginSuccess(t) \/ LookupOidc(t)
  PROVE  Single'
<1>1. UNCHANGED <<acct, file, mirror, spent, anomaly>>
  BY DEF Asks, Refused, LoginTotp, Confirm, TotpCheck, Ends, LoginVerified, LoginRefused,
         LoginBadCode, Refuses, LoginFail, LoginSuccess, LookupOidc
<1>2. CASE "lost" \in anomaly
  BY <1>1, <1>2 DEF Single
<1>3. CASE "lost" \notin anomaly
  <2>1. /\ \A x \in Threads : x # t => th'[x] = th[x]
        /\ Holds(th'[t], th[t]) /\ (Past(th'[t]) => StaysOpen(th'[t], th[t]))
    <3>1. CASE Asks(t)
      <4>1. PICK r \in Req(keys) :
              /\ r.pc \in {"verify", "chpass", "create", "confirm", "enroll", "check",
                           "totpoff", "lookup"}
              /\ th' = [th EXCEPT ![t] = r]
        BY <3>1 DEF Asks
      <4>2. th'[t] = r /\ \A x \in Threads : x # t => th'[x] = th[x]
        BY <4>1 DEF Types, ThreadsTyped
      <4> QED
        BY <4>1, <4>2, HoldsIf
    <3>2. CASE Done(t) /\ keys' = keys
      BY <3>2, EndsIs, HoldsIf
    <3>3. CASE LoginTotp(t) /\ ~Done(t)
      <4>1. /\ th \in [Threads -> Req(keys)]
            /\ \/ Goto(t, "success") /\ th[t].code.kind = "totp"
               \/ Goto(t, "recover")
        BY <3>3 DEF LoginTotp, RightTotp, Types, ThreadsTyped
      <4>2. /\ \A x \in Threads : x # t => th'[x] = th[x]
            /\ th'[t].code = th[t].code
            /\ th'[t].pc = "recover" \/ (th'[t].pc = "success" /\ th[t].code.kind = "totp")
        BY <4>1 DEF Goto, Req
      <4> QED
        BY <4>2, HoldsIf
    <3>4. CASE Confirm(t) /\ ~Done(t)
      <4>1. /\ th \in [Threads -> Req(keys)] /\ Goto(t, th[t].op)
            /\ th[t].op \in {"update", "delete"}
        BY <3>4 DEF Confirm, Ends, At, Types, ThreadsTyped, Shaped
      <4>2. /\ \A x \in Threads : x # t => th'[x] = th[x]
            /\ th'[t].pc \in {"update", "delete"}
        BY <4>1 DEF Goto, Req
      <4> QED
        BY <4>2, HoldsIf
    <3>5. CASE TotpCheck(t) /\ ~Done(t)
      <4>1. th \in [Threads -> Req(keys)] /\ Goto(t, "enable")
        BY <3>5 DEF TotpCheck, Ends, Types, ThreadsTyped
      <4>2. (\A x \in Threads : x # t => th'[x] = th[x]) /\ th'[t].pc = "enable"
        BY <4>1 DEF Goto, Req
      <4> QED
        BY <4>2, HoldsIf
    <3>6. CASE LoginVerified(t)
      BY <3>6, VerifiedTypes, HoldsIf
    <3>7. CASE LoginRefused(t) \/ LoginBadCode(t)
      BY <3>7, RefusesTypes, HoldsIf
    <3>8. CASE LoginFail(t)
      BY <3>8, FailTypes, HoldsIf
    <3>9. CASE LoginSuccess(t)
      BY <3>9, SuccessTypes DEF Holds, Past, StaysOpen
    <3>10. CASE LookupOidc(t)
      BY <3>10, StuckTypes, HoldsIf
    <3> QED
      BY <3>1, <3>2, <3>3, <3>4, <3>5, <3>6, <3>7, <3>8, <3>9, <3>10
         DEF Refused, Ends, LoginTotp, Confirm, TotpCheck
  <2>2. \A x \in Threads :
          Holds(th'[x], th[x]) /\ (Past(th'[x]) => StaysOpen(th'[x], th[x]))
    BY <2>1, HoldsIf
  <2>3. KeepsCodes(acct')
    BY <1>1, <1>3, SameCodes
  <2> QED
    BY <1>1, <2>2, <2>3, SingleStays
<1> QED
  BY <1>2, <1>3

LEMMA StillSingle ==
  ASSUME Types, Single, Drops \/ Clears \/ UNCHANGED vars
  PROVE  Single'
BY DEF Drops, Clears, vars, Single, OnePlace, Past

LEMMA OwnerSingle ==
  ASSUME Types, Single, NEW t \in Threads, UpdateOwner(t)
  PROVE  Single'
<1>1. UNCHANGED <<file, mirror, spent, anomaly>>
  BY DEF UpdateOwner
<1>2. CASE "lost" \in anomaly
  BY <1>1, <1>2 DEF Single
<1>3. CASE "lost" \notin anomaly
  <2>1. /\ th'[t].op = "none" /\ \A x \in Threads \ {t} : SameBut(th'[x], th[x])
        /\ DOMAIN acct' = DOMAIN acct
        /\ \A n \in DOMAIN acct \ {Owner} : acct'[n] = acct[n]
        /\ acct'[Owner].code = acct[Owner].code /\ acct'[Owner].key = acct[Owner].key
    BY OwnerTypes
  <2>2. \A x \in Threads :
          Holds(th'[x], th[x]) /\ (Past(th'[x]) => StaysOpen(th'[x], th[x]))
    BY <2>1, HoldsIf
  <2>3. \A n \in DOMAIN acct' : acct'[n].code =>
          n \in DOMAIN acct /\ acct[n].code /\ acct[n].key = acct'[n].key
    BY <2>1
  <2>4. KeepsCodes(acct')
    BY <1>3, <2>3, FewerCodes
  <2> QED
    BY <1>1, <2>2, <2>4, SingleStays
<1> QED
  BY <1>2, <1>3

\* A save that empties the file, or fails.
LEMMA OpenSingle ==
  ASSUME Types, Single, NEW t \in Threads,
         Truncates(t) \/ (Finishes(t) /\ mirror' = "bad")
  PROVE  Single'
<1>1. UNCHANGED <<acct, spent, anomaly>>
  BY DEF Truncates, Finishes
<1>2. CASE "lost" \in anomaly
  BY <1>1, <1>2 DEF Single
<1>3. CASE "lost" \notin anomaly
  <2>1. /\ file' = Torn \/ mirror' # "good"
        /\ mirror' = "good" => mirror = "good"
    BY DEF Truncates
  <2>2. Holds(th'[t], th[t]) /\ \A x \in Threads : x # t => th'[x] = th[x]
    BY OpenTypes, WriteTypes DEF Holds, Past
  <2>3. \A x \in Threads : Holds(th'[x], th[x])
    BY <2>2, HoldsIf
  <2>4. OnePlace
    BY <1>3 DEF Single
  <2>5. /\ \A n \in DOMAIN acct' : acct'[n].code =>
             \A x \in Threads : Past(th'[x]) => th'[x].code.key # acct'[n].key
        /\ \A x \in Threads : Past(th'[x]) => th'[x].code.key \notin spent'
        /\ \A x, y \in Threads :
             Past(th'[x]) /\ Past(th'[y]) /\ th'[x].code.key = th'[y].code.key => x = y
    BY <1>1, <2>3, <2>4 DEF OnePlace, Holds
  <2>6. OnePlace'
    BY <1>1, <2>1, <2>4, <2>5 DEF OnePlace
  <2> QED
    BY <2>6 DEF Single
<1> QED
  BY <1>2, <1>3

\* Nothing is lost in a change to the accounts that uses no code up.
LEMMA AlteredSingle ==
  ASSUME Types, Single, NEW t \in Threads, NEW new, NEW rotated, NEW next,
         Alters(t, new, rotated, next), "lost" \notin anomaly => KeepsCodes(new),
         th[t].op # "login" \/ (th[t].pc = "migrate" /\ next = th[t].next)
  PROVE  Single'
<1>1. /\ acct' = new /\ th'[t].pc = "open" /\ th'[t].next = next
      /\ th'[t].op = th[t].op /\ th'[t].twofa = th[t].twofa
      /\ \A x \in Threads \ {t} : SameBut(th'[x], th[x])
  BY ChangedIs DEF Alters
<1>2. /\ anomaly \subseteq anomaly' /\ UNCHANGED <<file, spent>>
      /\ "respent" \in anomaly' => "respent" \in anomaly
      /\ mirror' = "good" => mirror = "good"
  BY DEF Alters, Changed, Begun
<1>3. CASE "lost" \in anomaly
  BY <1>2, <1>3 DEF Single
<1>4. CASE "lost" \notin anomaly
  <2>1. ~Past(th'[t])
    <3>1. th[t].pc = "migrate" /\ th[t].next = "success" => ~th[t].twofa
      BY DEF Types, ThreadsTyped, Shaped, LoginPcs
    <3> QED
      BY <1>1, <3>1 DEF Past
  <2>2. \A x \in Threads :
          Holds(th'[x], th[x]) /\ (Past(th'[x]) => StaysOpen(th'[x], th[x]))
    BY <1>1, <2>1, HoldsIf DEF Holds
  <2> QED
    BY <1>1, <1>2, <1>4, <2>2, SingleStays
<1> QED
  BY <1>3, <1>4

\* The changes after which every name has the code it had, or none.
LEMMA ChangedSingle ==
  ASSUME Types, Single, NEW t \in Threads,
         \/ LoginMigrate(t)
         \/ ChangePassword(t) /\ Knows(t)
         \/ CreateUser(t) /\ th[t].name \notin DOMAIN acct
         \/ DeleteUser(t) /\ th[t].who \in DOMAIN acct \ {Owner}
         \/ TotpEnable(t) /\ th[t].who \in DOMAIN acct
         \/ TotpDisable(t) /\ Knows(t)
  PROVE  Single'
<1> DEFINE Fewer(new) == \A n \in DOMAIN new : new[n].code =>
             n \in DOMAIN acct /\ acct[n].code /\ acct[n].key = new[n].key
<1>1. acct \in [DOMAIN acct -> Acct(keys)] /\ Shaped(th[t])
  BY DEF Types, AcctTyped, ThreadsTyped
<1>2. ASSUME NEW new, NEW rotated, NEW next, Alters(t, new, rotated, next), Fewer(new),
             th[t].op # "login" \/ (th[t].pc = "migrate" /\ next = th[t].next)
      PROVE  Single'
  BY <1>2, FewerCodes, AlteredSingle
<1> HIDE DEF Fewer
<1>3. CASE LoginMigrate(t)
  <2>1. Alters(t, Migrated(t), {}, th[t].next) /\ th[t].pc = "migrate"
    BY <1>3, MigrateAlters DEF LoginMigrate, At
  <2>2. Fewer(Migrated(t))
    BY <1>1 DEF Fewer, Migrated, Acct
  <2> QED
    BY <1>2, <2>1, <2>2
<1>4. CASE ChangePassword(t) /\ Knows(t)
  <2> DEFINE new == [acct EXCEPT ![th[t].who].pass = th[t].pass, ![th[t].who].legacy = FALSE]
  <2>1. Alters(t, new, {th[t].who}, "idle")
    BY <1>4, ChangePasswordAlters
  <2>2. Fewer(new)
    BY <1>1 DEF Fewer, Acct
  <2>3. th[t].op # "login"
    BY <1>1, <1>4 DEF ChangePassword, At, Shaped, LoginPcs
  <2> HIDE DEF new
  <2> QED
    BY <1>2, <2>1, <2>2, <2>3
<1>5. CASE CreateUser(t) /\ th[t].name \notin DOMAIN acct
  <2>1. Alters(t, Created(t), {}, "idle")
    BY <1>5, CreateAlters
  <2>2. Fewer(Created(t))
    BY DEF Fewer, Created, Account
  <2>3. th[t].op # "login"
    BY <1>1, <1>5 DEF CreateUser, At, Shaped, LoginPcs
  <2> QED
    BY <1>2, <2>1, <2>2, <2>3
<1>6. CASE DeleteUser(t) /\ th[t].who \in DOMAIN acct \ {Owner}
  <2> DEFINE new == Restrict(acct, DOMAIN acct \ {th[t].who})
  <2>1. Alters(t, new, {th[t].who}, "idle")
    BY <1>6, DeleteAlters
  <2>2. Fewer(new)
    BY DEF Fewer, Restrict
  <2>3. th[t].op # "login"
    BY <1>1, <1>6 DEF DeleteUser, At, Shaped, LoginPcs
  <2> HIDE DEF new
  <2> QED
    BY <1>2, <2>1, <2>2, <2>3
<1>7. CASE TotpEnable(t) /\ th[t].who \in DOMAIN acct
  <2> DEFINE new == [acct EXCEPT ![th[t].who].totp = "on"]
  <2>1. Alters(t, new, {}, "idle")
    BY <1>7, EnableAlters
  <2>2. Fewer(new)
    BY <1>1 DEF Fewer, Acct
  <2>3. th[t].op # "login"
    BY <1>1, <1>7 DEF TotpEnable, At, Shaped, LoginPcs
  <2> HIDE DEF new
  <2> QED
    BY <1>2, <2>1, <2>2, <2>3
<1>8. CASE TotpDisable(t) /\ Knows(t)
  <2> DEFINE new == [acct EXCEPT ![th[t].who].totp = "off", ![th[t].who].key = 0,
                                 ![th[t].who].code = FALSE]
  <2>1. Alters(t, new, {}, "idle")
    BY <1>8, DisableAlters
  <2>2. Fewer(new)
    BY <1>1 DEF Fewer, Acct
  <2>3. th[t].op # "login"
    BY <1>1, <1>8 DEF TotpDisable, At, Shaped, LoginPcs
  <2> HIDE DEF new
  <2> QED
    BY <1>2, <2>1, <2>2, <2>3
<1> QED
  BY <1>3, <1>4, <1>5, <1>6, <1>7, <1>8

\* A new name takes its code along.
LEMMA UpdateSingle ==
  ASSUME Types, Single, NEW t \in Threads, UpdateUser(t)
  PROVE  Single'
<1> DEFINE n == th[t].who
           m == Target(t)
<1>1. /\ Alters(t, Updated(t), {n}, "idle") /\ n \in DOMAIN acct \ {Owner}
      /\ m \notin DOMAIN acct \ {n}
  BY UpdateAlters
<1>2. Edited(t).key = acct[n].key /\ Edited(t).code = acct[n].code
  BY <1>1, EditedIs
<1>3. th[t].op # "login"
  BY DEF UpdateUser, At, Types, ThreadsTyped, Shaped, LoginPcs
<1>4. /\ DOMAIN Updated(t) = (DOMAIN acct \ {n}) \cup {m}
      /\ Updated(t)[m].key = acct[n].key /\ Updated(t)[m].code = acct[n].code
      /\ \A x \in DOMAIN acct \ {n} : Updated(t)[x] = acct[x]
  BY <1>1, <1>2 DEF Updated
<1>5. ASSUME "lost" \notin anomaly PROVE KeepsCodes(Updated(t))
  <2>1. OneHolder(acct)
    BY <1>5 DEF Single, OnePlace, OneHolder
  <2> HIDE DEF n, m
  <2>2. OneHolder(Updated(t))
    BY <1>1, <1>4, <2>1 DEF OneHolder
  <2>3. ASSUME NEW x \in DOMAIN Updated(t), Updated(t)[x].code
        PROVE  \E y \in DOMAIN acct : acct[y].code /\ acct[y].key = Updated(t)[x].key
    BY <1>1, <1>4, <2>3
  <2> QED
    BY <2>2, <2>3 DEF KeepsCodes
<1> QED
  BY <1>1, <1>3, <1>5, AlteredSingle

\* The code of an enrolment is a new one.
LEMMA EnrollSingle ==
  ASSUME Types, Single, NEW t \in Threads, TotpEnroll(t), th[t].who \in DOMAIN acct
  PROVE  Single'
<1> DEFINE n == th[t].who
           new == [acct EXCEPT ![n].totp = "set", ![n].key = keys + 1, ![n].code = TRUE]
<1>1. Alters(t, new, {}, "idle")
  BY EnrollAlters
<1>2. /\ \A u \in DOMAIN acct : acct[u].key \in 0..keys
      /\ spent \subseteq 0..keys /\ keys \in Nat /\ th[t].op # "login"
      /\ \A x \in Threads : th[x].code.key \in 0..keys
  BY DEF Types, AcctTyped, Acct, ThreadsTyped, Req, TotpEnroll, At, Shaped, LoginPcs
<1>3. /\ DOMAIN new = DOMAIN acct /\ new[n].key = keys + 1
      /\ \A u \in DOMAIN acct \ {n} : new[u] = acct[u]
  <2>1. acct \in [DOMAIN acct -> Acct(keys)]
    BY DEF Types, AcctTyped
  <2>2. n \in DOMAIN acct /\ acct[n] \in Acct(keys)
    BY <2>1
  <2> DEFINE r == [acct[n] EXCEPT !.totp = "set", !.key = keys + 1, !.code = TRUE]
  <2>3. r.key = keys + 1
    BY <2>2 DEF Acct
  <2>4. new = [acct EXCEPT ![n] = r]
    BY <2>1, <2>2
  <2> HIDE DEF r, n, new
  <2> QED
    BY <2>1, <2>2, <2>3, <2>4
<1> HIDE DEF n, new
<1>4. /\ acct' = new /\ th'[t].op = th[t].op
      /\ \A x \in Threads \ {t} : SameBut(th'[x], th[x])
  BY <1>1, ChangedIs DEF Alters
<1>5. /\ anomaly \subseteq anomaly' /\ UNCHANGED <<file, spent>>
      /\ "respent" \in anomaly' => "respent" \in anomaly
      /\ mirror' = "good" => mirror = "good"
  BY <1>1 DEF Alters, Changed, Begun
<1>6. CASE "lost" \in anomaly
  BY <1>5, <1>6 DEF Single
<1>7. CASE "lost" \notin anomaly
  <2>1. OnePlace
    BY <1>7 DEF Single
  <2>2. \A x \in Threads :
          Past(th'[x]) => x # t /\ Past(th[x]) /\ th'[x].code.key = th[x].code.key
                          /\ th'[x].pc = th[x].pc
    BY <1>2, <1>4 DEF Past, SameBut
  <2>3. \A u, v \in DOMAIN new :
          new[u].code /\ new[v].code /\ new[u].key = new[v].key => u = v
    <3>1. \A u \in DOMAIN acct \ {n} : new[u].key # keys + 1
      BY <1>2, <1>3
    <3> QED
      BY <1>3, <2>1, <3>1 DEF OnePlace
  <2>4. ASSUME NEW u \in DOMAIN new, new[u].code
        PROVE  /\ new[u].key \notin spent
               /\ \A x \in Threads : Past(th'[x]) => th'[x].code.key # new[u].key
    <3>1. CASE u = n
      <4>1. new[u].key \notin 0..keys
        BY <1>2, <1>3, <3>1
      <4> QED
        BY <1>2, <2>2, <4>1
    <3>2. CASE u # n
      BY <1>3, <2>1, <2>2, <2>4, <3>2 DEF OnePlace
    <3> QED
      BY <3>1, <3>2
  <2>5. OnePlace'
    BY <1>4, <1>5, <2>1, <2>2, <2>3, <2>4 DEF OnePlace
  <2> QED
    BY <2>5 DEF Single
<1> QED
  BY <1>6, <1>7

\* A login takes a code out of the account; the file has it until the save.
LEMMA RecoverSingle ==
  ASSUME Types, Single, NEW t \in Threads, LoginRecover(t)
  PROVE  Single'
<1> DEFINE n == th[t].who
           new == [acct EXCEPT ![n].code = FALSE]
<1>1. Alters(t, new, {}, "success")
  BY RecoverAlters
<1>2. /\ n \in DOMAIN acct /\ acct[n].code /\ acct[n].key = th[t].code.key
      /\ th[t].pc = "recover"
  BY DEF LoginRecover, HasCode, At
<1>3. /\ DOMAIN new = DOMAIN acct /\ ~new[n].code
      /\ \A u \in DOMAIN acct \ {n} : new[u] = acct[u]
  BY <1>2 DEF Types, AcctTyped, Acct
<1> HIDE DEF n, new
<1>4. /\ acct' = new /\ th'[t].pc = "open" /\ th'[t].code = th[t].code
      /\ \A x \in Threads \ {t} : SameBut(th'[x], th[x])
  BY <1>1, ChangedIs DEF Alters
<1>5. /\ anomaly \subseteq anomaly' /\ UNCHANGED <<file, spent>>
      /\ "respent" \in anomaly' => "respent" \in anomaly
      /\ mirror' = "good" => mirror = "good"
  BY <1>1 DEF Alters, Changed, Begun
<1>6. CASE "lost" \in anomaly'
  BY <1>6 DEF Single
<1>7. CASE "lost" \notin anomaly'
  <2>1. OnePlace
    BY <1>5, <1>7 DEF Single
  <2>2. \A x \in Threads \ {t} :
          Past(th'[x]) => Past(th[x]) /\ th'[x].code.key = th[x].code.key
                          /\ th'[x].pc = th[x].pc
    BY <1>4 DEF Past, SameBut
  <2>3. ASSUME NEW u \in DOMAIN new, new[u].code
        PROVE  /\ u \in DOMAIN acct /\ acct[u].code /\ acct[u].key = new[u].key
               /\ new[u].key # th[t].code.key
    BY <1>2, <1>3, <2>1, <2>3 DEF OnePlace
  <2>4. \A u, v \in DOMAIN new :
          new[u].code /\ new[v].code /\ new[u].key = new[v].key => u = v
    BY <2>1, <2>3 DEF OnePlace
  <2>5. ASSUME NEW u \in DOMAIN new, new[u].code
        PROVE  /\ new[u].key \notin spent
               /\ \A x \in Threads : Past(th'[x]) => th'[x].code.key # new[u].key
    BY <1>4, <2>1, <2>2, <2>3, <2>5 DEF OnePlace
  <2>6. th[t].code.key \notin spent /\ \A x \in Threads : Past(th[x]) => th[x].code.key # th[t].code.key
    BY <1>2, <2>1 DEF OnePlace
  <2>7. \A x \in Threads : Past(th'[x]) => th'[x].code.key \notin spent
    BY <1>4, <2>1, <2>2, <2>6 DEF OnePlace
  <2>8. \A x, y \in Threads :
          Past(th'[x]) /\ Past(th'[y]) /\ th'[x].code.key = th'[y].code.key => x = y
    BY <1>4, <2>1, <2>2, <2>6 DEF OnePlace
  <2>9. ASSUME file # Torn, mirror = "good"
        PROVE  /\ \A u, v \in DOMAIN file :
                    file[u].code /\ file[v].code /\ file[u].key = file[v].key => u = v
               /\ \A u \in DOMAIN file : file[u].code =>
                    /\ file[u].key \notin spent
                    /\ \A x \in Threads : Past(th'[x]) /\ th'[x].code.key = file[u].key
                                             => th'[x].pc = "open"
    BY <1>4, <2>1, <2>2, <2>9 DEF OnePlace
  <2>10. OnePlace'
    BY <1>4, <1>5, <2>1, <2>4, <2>5, <2>7, <2>8, <2>9 DEF OnePlace
  <2> QED
    BY <2>10 DEF Single
<1> QED
  BY <1>6, <1>7

\* The save takes the code out of the file as well.
LEMMA WriteSingle ==
  ASSUME Types, Settled, Single, NEW t \in Threads, Finishes(t), mirror' # "bad"
  PROVE  Single'
<1>1. /\ UNCHANGED <<acct, spent, anomaly>> /\ th[t].pc = "write" /\ mirror # "bad"
      /\ file' \in IF file = Torn THEN {th[t].snap} ELSE {th[t].snap, Torn}
  BY DEF Finishes, Mended
<1>2. CASE "lost" \in anomaly
  BY <1>1, <1>2 DEF Single
<1>3. CASE "lost" \notin anomaly
  <2>1. t \in Saving
    BY <1>1 DEF Saving
  <2>2. file' = Saved(acct)
    BY <1>1, <2>1 DEF Settled, Lone
  <2>3. /\ DOMAIN file' = DOMAIN acct \ {Owner}
        /\ \A n \in DOMAIN file' : file'[n] = acct[n]
    BY <2>2, SavedIs DEF Types
  <2>4. \A x \in Threads : Past(th'[x]) => Past(th[x]) /\ th'[x].code.key = th[x].code.key
    BY WriteTypes DEF Past
  <2>5. OnePlace
    BY <1>3 DEF Single
  <2>6. OnePlace'
    BY <1>1, <2>3, <2>4, <2>5 DEF OnePlace
  <2> QED
    BY <2>6 DEF Single
<1> QED
  BY <1>2, <1>3

\* The session of the login spends the code.
LEMMA MintSingle ==
  ASSUME Types, Single, NEW t \in Threads, LoginMint(t)
  PROVE  Single'
<1> DEFINE used == Note(th[t].twofa /\ th[t].code.kind = "recovery", th[t].code.key)
<1>1. /\ UNCHANGED <<acct, file, mirror>> /\ spent' = spent \cup used
      /\ anomaly' = anomaly \cup Note(used \cap spent # {}, "respent")
  BY DEF LoginMint
<1>2. /\ th'[t].pc = "idle" /\ th[t].pc = "mint" /\ th[t].op = "login"
      /\ \A x \in Threads : x # t => th'[x] = th[x]
  BY MintTypes
<1>3. used # {} => Past(th[t]) /\ used = {th[t].code.key}
  BY <1>2 DEF Note, Past
<1> HIDE DEF used
<1>4. \A x \in Threads : Past(th'[x]) => x # t /\ th'[x] = th[x]
  BY <1>2 DEF Past
<1>5. CASE "lost" \in anomaly
  BY <1>1, <1>5 DEF Single
<1>6. CASE "lost" \notin anomaly
  <2>1. OnePlace
    BY <1>6 DEF Single
  <2>2. used \cap spent = {}
    BY <1>3, <2>1 DEF OnePlace
  <2>3. anomaly' = anomaly
    BY <1>1, <2>2 DEF Note
  <2>4. \A n \in DOMAIN acct : acct[n].code => acct[n].key \notin used
    BY <1>3, <2>1 DEF OnePlace
  <2>5. file # Torn /\ mirror = "good" =>
          \A n \in DOMAIN file : file[n].code => file[n].key \notin used
    BY <1>2, <1>3, <2>1 DEF OnePlace
  <2>6. \A x \in Threads : Past(th'[x]) => th'[x].code.key \notin used
    BY <1>3, <1>4, <2>1 DEF OnePlace
  <2>7. OnePlace'
    BY <1>1, <1>4, <2>1, <2>3, <2>4, <2>5, <2>6 DEF OnePlace
  <2> QED
    BY <2>7 DEF Single
<1> QED
  BY <1>5, <1>6

\* The host starts again from the file.
LEMMA RestartSingle == ASSUME Types, Single, Restart PROVE Single'
<1>1. PICK users \in IF file = Torn THEN {<<>>} ELSE {file, <<>>} :
        acct' = Fresh(users) /\ mirror' = (IF users = file THEN "good" ELSE "bad")
  BY DEF Restart
<1>2. UNCHANGED <<file, spent>> /\ anomaly' = anomaly \cup Note(mirror # "good", "lost")
  BY DEF Restart
<1>3. CASE "lost" \in anomaly'
  BY <1>3 DEF Single
<1>4. CASE "lost" \notin anomaly'
  <2>1. "lost" \notin anomaly /\ mirror = "good" /\ anomaly' = anomaly
    BY <1>2, <1>4 DEF Note
  <2>2. OnePlace
    BY <2>1 DEF Single
  <2>3. DOMAIN users = {} \/ (users = file /\ file # Torn)
    BY <1>1, EmptyFile DEF Types
  <2>4. \A n \in DOMAIN acct' : acct'[n].code => n \in DOMAIN users /\ acct'[n] = users[n]
    BY <1>1 DEF Fresh, Account
  <2>5. \A t \in Threads : ~Past(th'[t])
    BY RestartTypes DEF Past
  <2>6. file # Torn =>
          /\ \A n, m \in DOMAIN file :
               file[n].code /\ file[m].code /\ file[n].key = file[m].key => n = m
          /\ \A n \in DOMAIN file : file[n].code => file[n].key \notin spent
    BY <2>1, <2>2 DEF OnePlace
  <2>7. \A n, m \in DOMAIN acct' :
          acct'[n].code /\ acct'[m].code /\ acct'[n].key = acct'[m].key => n = m
    BY <2>3, <2>4, <2>6
  <2>8. \A n \in DOMAIN acct' : acct'[n].code => acct'[n].key \notin spent'
    BY <1>2, <2>3, <2>4, <2>6
  <2>9. "respent" \notin anomaly'
    BY <2>1, <2>2 DEF OnePlace
  <2>10. OnePlace'
    BY <1>2, <2>5, <2>6, <2>7, <2>8, <2>9 DEF OnePlace
  <2> QED
    BY <2>10 DEF Single
<1> QED
  BY <1>3, <1>4

LEMMA InitSingle == Init => Single
<1> SUFFICES ASSUME Init PROVE Single
  OBVIOUS
<1>1. PICK legacy \in BOOLEAN : file = [n \in Known |-> Account(1, legacy, "viewer")]
  BY DEF Init
<1>2. acct = Fresh(file) /\ anomaly = {} /\ th = [t \in Threads |-> Blank]
  BY DEF Init
<1>3. \A n \in DOMAIN file : ~file[n].code
  BY <1>1 DEF Account
<1>4. \A n \in DOMAIN acct : ~acct[n].code
  BY <1>2, <1>3 DEF Fresh, Account
<1>5. \A t \in Threads : ~Past(th[t])
  BY <1>2 DEF Past, Blank
<1> QED
  BY <1>2, <1>3, <1>4, <1>5 DEF Single, OnePlace

LEMMA NextSingle == Types /\ Settled /\ Single /\ [Next]_vars => Single'
<1> SUFFICES ASSUME Types, Settled, Single, [Next]_vars PROVE Single'
  OBVIOUS
<1>1. CASE UNCHANGED vars
  BY <1>1, StillSingle
<1>2. CASE Drops \/ Clears \/ Restart
  BY <1>2, StillSingle, RestartSingle
<1>3. ASSUME NEW t \in Threads, Asks(t) \/ Refused(t) \/ AltersSome(t)
      PROVE  Single'
  <2>1. CASE Asks(t) \/ Refused(t)
    BY <2>1, QuietSingle
  <2>2. CASE LoginRecover(t)
    BY <2>2, RecoverSingle
  <2>3. CASE UpdateUser(t)
    BY <2>3, UpdateSingle
  <2>4. CASE TotpEnroll(t) /\ th[t].who \in DOMAIN acct
    BY <2>4, EnrollSingle
  <2>5. CASE /\ AltersSome(t) /\ ~LoginRecover(t) /\ ~UpdateUser(t)
             /\ ~(TotpEnroll(t) /\ th[t].who \in DOMAIN acct)
    BY <2>5, ChangedSingle DEF AltersSome
  <2> QED
    BY <1>3, <2>1, <2>2, <2>3, <2>4, <2>5 DEF AltersSome
<1>4. ASSUME NEW t \in Threads, Single1(t)
      PROVE  Single'
  BY <1>4, QuietSingle, MintSingle, OwnerSingle, FileSteps, OpenSingle, WriteSingle DEF Single1
<1> QED
  BY <1>1, <1>2, <1>3, <1>4, Cases

LEMMA AlwaysSingle == Spec => []Single
BY InitTypes, NextTypes, InitSettled, NextSettled, InitSingle, NextSingle, PTL DEF Spec

\* A recovery code opens one session, across restarts of the host too: unless
\* it restarted after a save that failed or overlapped another one, with no
\* later save that had users.json for itself and ended well.  For any number of
\* requests, enrolments and restarts.
THEOREM CodesOpenOneSession == Spec => []RecoveryOnce
<1>1. Single => RecoveryOnce
  BY DEF Single, OnePlace, RecoveryOnce
<1> QED
  BY <1>1, AlwaysSingle, PTL
=============================================================================
