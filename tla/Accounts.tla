------------------------------ MODULE Accounts ------------------------------
(***************************************************************************)
(* Users and their sessions: sign-up, log-in with account lockout, changes *)
(* of a user, third-party sign-in, e-mail verification and password reset. *)
(* A request is suspended at each database call; a step is one call and    *)
(* what the code does with its answer.  The caches in front of sessions    *)
(* and roles are the subject of AuthCaches.                                *)
(***************************************************************************)
EXTENDS Integers, Sequences, FiniteSetsExt

CONSTANTS
  Users, Names, Emails, Passwords, AuthIds, Installations,
  Slots,        \* requests served at a time
  Lower,        \* [Names \cup Emails -> _], what a case-insensitive search compares
  Threshold,    \* accountLockout.threshold
  LockTime,     \* accountLockout.duration
  TokenLife,    \* validity of verification and reset tokens, 0 for no limit
  PasswordAge,  \* passwordPolicy.maxPasswordAge, 0 for no limit
  History,      \* passwordPolicy.maxPasswordHistory, 0 for none
  Settings,     \* what differs between behaviours: see Init
  MaxNow,       \* bound: the last tick of the clock
  None

ASSUME AccountConstants ==
  /\ Threshold \in Nat \ {0} /\ LockTime \in Nat \ {0}
  /\ TokenLife \in Nat /\ PasswordAge \in Nat /\ History \in Nat /\ MaxNow \in Nat \ {0}
  /\ None \notin Nat \cup Users \cup Names \cup Emails \cup Passwords \cup AuthIds

RowType == [name : Names \cup {None}, email : Emails \cup {None}, pw : Passwords \cup {None},
            auth : AuthIds \cup {None}, verified : BOOLEAN, vtoken : Nat, vexpires : Nat, rtoken : Nat,
            rexpires : Nat, failed : Nat \cup {None}, locked : Nat, changed : Nat,
            past : Seq(Passwords \cup {None})]
SessionType(tokens, owners) ==
  [token : tokens, user : owners, inst : Installations \cup {None}, pw : Passwords \cup {None}]

\* A database in which every request has ended: identities are unique, no address
\* waits for a token, who failed too often is locked out, and the sessions are those
\* of today's passwords, one for each installation.
LegalStart(rows, open) ==
  LET known == {u \in Users : rows[u] # None}
  IN /\ rows \in [Users -> RowType \cup {None}]
     /\ \A u \in known :
          /\ ~rows[u].verified /\ rows[u].vtoken = 0 /\ Len(rows[u].past) <= History
          /\ rows[u].failed # None /\ rows[u].failed >= Threshold => rows[u].locked > 0
     /\ \A u, v \in known : u # v =>
          /\ rows[u].name # None /\ rows[v].name # None => Lower[rows[u].name] # Lower[rows[v].name]
          /\ rows[u].email = rows[v].email => rows[u].email = None
          /\ rows[u].auth = rows[v].auth => rows[u].auth = None
     /\ open \subseteq SessionType(1..Cardinality(open), known) /\ IsFiniteSet(open)
     /\ \A s \in open : s.pw = rows[s.user].pw
     /\ \A s, t \in open :
          s.token = t.token \/ (s.user = t.user /\ s.inst = t.inst /\ s.inst # None) => s = t

ASSUME SettingsConstants ==
  /\ None \notin RowType
  /\ \A s \in Settings :
       /\ LegalStart(s.users, s.sessions)
       /\ s.from \subseteq Installations \cup {None}
       /\ {s.alone, s.fails, s.prevent, s.reuse} \subseteq BOOLEAN

VARIABLES
  settings,   \* configuration and load of this behaviour, never changed
  now,        \* the clock
  users,      \* the _User collection, None for an id not in use
  sessions,   \* the _Session collection
  strays,     \* deletions of sessions that nobody waits for
  req,        \* the requests being served
  issued,     \* tokens handed out so far
  served,     \* requests made so far
  mailed,     \* history: what was sent to whom
  presented,  \* history: verification tokens that came back
  worn        \* history: the passwords of each user in order

vars == <<settings, now, users, sessions, strays, req, issued, served, mailed, presented, worn>>
histories == <<mailed, presented, worn>>

NewUser == [name |-> None, email |-> None, pw |-> None, auth |-> None, verified |-> FALSE,
            vtoken |-> 0, vexpires |-> 0, rtoken |-> 0, rexpires |-> 0,
            failed |-> None, locked |-> 0, changed |-> 0, past |-> <<>>]

Idle == [st |-> "idle", user |-> None, name |-> None, email |-> None, pw |-> None, auth |-> None,
         inst |-> None, own |-> FALSE, token |-> 0, session |-> 0, past |-> <<>>, row |-> None]

\* settings.users and sessions are the database a behaviour begins with, offers the
\* kinds of requests made in it and limit their number; alone when one is served at a time
\* and none fails.  verify, prevent and reuse stand for verifyUserEmails with
\* preventLoginWithUnverifiedEmail and the two ...TokenReuseIfValid.
Init ==
  /\ settings \in Settings
  /\ now = 1
  /\ users = settings.users
  /\ sessions = settings.sessions /\ strays = {}
  /\ req = [h \in Slots |-> Idle]
  /\ issued = Cardinality(sessions) /\ served = 0
  /\ mailed = {} /\ presented = {}
  /\ worn = [u \in Users |-> IF users[u] = None THEN <<>> ELSE <<users[u].pw>>]

Known == {u \in Users : users[u] # None}
Others(u) == Known \ {u}
AtRest == \A h \in Slots : req[h] = Idle

\* Request h goes on as r, ends, or is refused with an error.
Go(h, r) == req' = [req EXCEPT ![h] = r]
Finish(h) == Go(h, Idle)
Refuse(h) == Finish(h) /\ UNCHANGED <<settings, now, users, sessions, strays, issued, served, histories>>
Read(h, r) == Go(h, r) /\ UNCHANGED <<settings, now, users, sessions, strays, issued, served, histories>>
WriteUser(h, u, row, r) ==
  /\ users' = [users EXCEPT ![u] = row]
  /\ Go(h, r)
  /\ UNCHANGED <<settings, now, sessions, strays, issued, served, histories>>

\* A request of one of the kinds on offer arrives and begins as r.
Begin(h, kind, r) ==
  /\ kind \in settings.offers /\ served < settings.limit
  /\ req[h] = Idle
  /\ settings.alone => AtRest /\ strays = {}
  /\ served' = served + 1
  /\ Go(h, r)
  /\ UNCHANGED <<settings, now, users, sessions, strays, issued, histories>>

-----------------------------------------------------------------------------
\* RestWrite on _User: the stages of execute that use the database, in order.
Stages == <<"auth", "policy", "name", "email", "past", "store">>
Applies(r, stage) ==
  CASE stage = "auth" -> r.auth # None
    [] stage \in {"policy", "past"} -> r.user # None /\ r.pw # None /\ History > 0
    [] stage = "name" -> r.name # None
    [] stage = "email" -> r.email # None
    [] stage = "store" -> TRUE
FromStage(r, first) ==
  [r EXCEPT !.st = Stages[Min({i \in first..Len(Stages) : Applies(r, Stages[i])})]]
Execute(r) == FromStage(r, 1)
NextStage(r) == FromStage(r, 1 + CHOOSE i \in DOMAIN Stages : Stages[i] = r.st)

\* A new user with name and password, or with the id of a provider.
SignUp(h) == \E n \in Names, e \in Emails \cup {None}, p \in Passwords, i \in settings.from :
  Begin(h, "signUp", Execute([Idle EXCEPT !.name = n, !.email = e, !.pw = p, !.inst = i]))
SignInWith(h) == \E a \in AuthIds, i \in settings.from :
  Begin(h, "signInWith", Execute([Idle EXCEPT !.auth = a, !.inst = i]))

\* A user with a session changes one of its fields.
Update(h) == \E s \in sessions :
  LET own == [Idle EXCEPT !.user = s.user, !.own = TRUE, !.inst = s.inst]
  IN \/ \E p \in Passwords : Begin(h, "setPassword", Execute([own EXCEPT !.pw = p]))
     \/ \E e \in Emails : Begin(h, "setEmail", Execute([own EXCEPT !.email = e]))
     \/ \E n \in Names : Begin(h, "setName", Execute([own EXCEPT !.name = n]))
     \/ \E a \in AuthIds : Begin(h, "link", Execute([own EXCEPT !.auth = a]))

\* handleAuthData: nobody has this id, or its user signs in, or may keep it.
HandleAuthData(h) ==
  LET r == req[h]
      same == {u \in Known : users[u].auth = r.auth}
  IN /\ r.st = "auth"
     /\ \/ same \subseteq {r.user} /\ Read(h, NextStage(r))
        \/ /\ r.user = None
           /\ \E u \in same : same = {u} /\ Read(h, [r EXCEPT !.user = u, !.pw = users[u].pw, !.st = "session"])
        \/ ~(same \subseteq {r.user}) /\ (r.user # None \/ Cardinality(same) > 1) /\ Refuse(h)

\* The first passwords of the history and the present one are not chosen again.
Take(s, n) == SubSeq(s, 1, Min({n, Len(s)}))
ValidatePasswordHistory(h) ==
  LET r == req[h]
      old == Take(users[r.user].past, History - 1) \o <<users[r.user].pw>>
  IN /\ r.st = "policy"
     /\ \/ (\A i \in DOMAIN old : old[i] # r.pw) /\ Read(h, NextStage(r))
        \/ (\E i \in DOMAIN old : old[i] = r.pw) /\ Refuse(h)

\* Names and addresses differ from everyone else's in more than case.
NameTaken_SameCase(r) == \E v \in Others(r.user) : users[v].name = r.name \* Mutant: case matters.
NameTaken(r) == \E v \in Others(r.user) : users[v].name # None /\ Lower[users[v].name] = Lower[r.name]
ValidateUserName(h) ==
  LET r == req[h]
  IN /\ r.st = "name"
     /\ (NameTaken(r) /\ Refuse(h)) \/ (~NameTaken(r) /\ Read(h, NextStage(r)))

\* An address that nobody has gets a verification token with the write.
EmailTaken(r) == \E v \in Others(r.user) : users[v].email # None /\ Lower[users[v].email] = Lower[r.email]
ValidateEmail(h) ==
  LET r == req[h]
  IN /\ r.st = "email"
     /\ \/ EmailTaken(r) /\ Refuse(h)
        \/ /\ ~EmailTaken(r)
           /\ issued' = issued + 1
           /\ Go(h, [NextStage(r) EXCEPT !.token = issued + 1])
           /\ UNCHANGED <<settings, now, users, sessions, strays, served, histories>>

\* The history that goes with the new password.
KeptPasswords_NotPresent(row) == Take(row.past, History) \* Mutant: the present one is forgotten.
KeptPasswords(row) ==
  LET old == Take(row.past, History)
  IN SubSeq(old, Len(old) - Min({Len(old), Max({0, History - 2})}) + 1, Len(old)) \o <<row.pw>>
CollectHistory(h) ==
  LET r == req[h]
  IN r.st = "past" /\ Read(h, [NextStage(r) EXCEPT !.past = KeptPasswords(users[r.user])])

\* The row after the write: data over what was there.
Written(row, r) ==
  [row EXCEPT
     !.name = IF r.name = None THEN @ ELSE r.name,
     !.email = IF r.email = None THEN @ ELSE r.email,
     !.pw = IF r.pw = None THEN @ ELSE r.pw,
     !.auth = IF r.auth = None THEN @ ELSE r.auth,
     !.verified = @ /\ r.token = 0,
     !.vtoken = IF r.token = 0 THEN @ ELSE r.token,
     !.vexpires = IF r.token = 0 THEN @ ELSE now + TokenLife,
     !.rtoken = IF r.pw # None \/ r.email # None THEN 0 ELSE @,
     !.rexpires = IF r.pw # None \/ r.email # None THEN 0 ELSE @,
     !.changed = IF r.pw # None /\ PasswordAge > 0 THEN now ELSE @,
     !.past = IF r.past = <<>> THEN @ ELSE r.past]

\* The unique indexes on username and email.
Duplicate(u, row) == \E v \in Others(u) :
  (row.name # None /\ users[v].name = row.name) \/ (row.email # None /\ users[v].email = row.email)

\* createSessionTokenIfNeeded and handleFollowup: what follows the write.
SendMail(r) == IF r.token = 0 THEN Idle ELSE [r EXCEPT !.st = "mail"]
FollowUp_KeepSessions(r, created) == \* Mutant: the sessions of an old password stay.
  IF created /\ ~settings.prevent THEN [r EXCEPT !.st = "session"] ELSE SendMail(r)
FollowUp(r, created) ==
  IF created THEN IF settings.prevent THEN SendMail(r) ELSE [r EXCEPT !.st = "session"]
  ELSE IF r.pw # None THEN [r EXCEPT !.st = "clear"] ELSE SendMail(r)

RunDatabaseOperation(h) ==
  LET r == req[h]
      u == IF r.user # None THEN r.user ELSE CHOOSE v \in Users : v \notin Known
      row == Written(IF r.user # None THEN users[u] ELSE NewUser, r)
  IN /\ r.st = "store"
     /\ r.user = None => Known # Users
     /\ \/ Duplicate(u, row) /\ Refuse(h)
        \/ /\ ~Duplicate(u, row)
           /\ users' = [users EXCEPT ![u] = row]
           /\ Go(h, FollowUp([r EXCEPT !.user = u], r.user = None))
           /\ worn' = IF r.pw = None THEN worn ELSE [worn EXCEPT ![u] = Append(@, r.pw)]
           /\ UNCHANGED <<settings, now, sessions, strays, issued, served, mailed, presented>>

\* A new password ends all sessions, and gives the user's own request a new one.
ClearSessions(h) ==
  LET r == req[h]
  IN /\ r.st = "clear"
     /\ sessions' = {s \in sessions : s.user # r.user}
     /\ Go(h, IF r.own THEN [r EXCEPT !.st = "session"] ELSE SendMail(r))
     /\ UNCHANGED <<settings, now, users, strays, issued, served, histories>>

\* sendVerificationEmail completes a user of which only one of the two is known.
SendVerificationEmail(h) ==
  LET r == req[h]
      found == {u \in Known : /\ r.name # None => users[u].name = r.name
                              /\ r.email # None => users[u].email = r.email}
      to == IF r.name # None /\ r.email # None THEN {<<r.name, r.email>>}
            ELSE {<<users[u].name, users[u].email>> : u \in found}
  IN /\ r.st = "mail"
     /\ mailed' = mailed \cup {[what |-> "verify", token |-> r.token, name |-> t[1], email |-> t[2]] : t \in to}
     /\ Finish(h)
     /\ UNCHANGED <<settings, now, users, sessions, strays, issued, served, presented, worn>>
-----------------------------------------------------------------------------
\* createSession: RestWrite on _Session first sends off the deletion of the other
\* sessions of this user and installation, without waiting for it.
DestroyDuplicatedSessions(h) ==
  LET r == req[h]
  IN /\ r.st = "session"
     /\ issued' = issued + 1
     /\ strays' = IF r.inst = None THEN strays
                  ELSE strays \cup {[user |-> r.user, inst |-> r.inst, keep |-> issued + 1]}
     /\ Go(h, [r EXCEPT !.st = "insert", !.session = issued + 1])
     /\ UNCHANGED <<settings, now, users, sessions, served, histories>>
SessionFor(r) == [token |-> r.session, user |-> r.user, inst |-> r.inst, pw |-> r.pw]
CreateSession(h) ==
  LET r == req[h]
  IN /\ r.st = "insert"
     /\ sessions' = sessions \cup {SessionFor(r)}
     /\ Go(h, SendMail(r))
     /\ UNCHANGED <<settings, now, users, strays, issued, served, histories>>
StrayArrives == \E d \in strays :
  /\ strays' = strays \ {d}
  /\ sessions' = {s \in sessions : ~(s.user = d.user /\ s.inst = d.inst /\ s.token # d.keep)}
  /\ UNCHANGED <<settings, now, users, req, issued, served, histories>>

\* upgradeToRevocableSession creates a session for the user of another one.
UpgradeSession(h) == \E s \in sessions :
  Begin(h, "upgrade", [Idle EXCEPT !.st = "session", !.user = s.user, !.inst = s.inst, !.pw = users[s.user].pw])

\* handleLogOut finds the session and deletes it.
LogOut(h) == \E s \in sessions :
  Begin(h, "logOut", [Idle EXCEPT !.st = "delete", !.session = s.token])
DeleteSession(h) ==
  /\ req[h].st = "delete"
  /\ sessions' = {s \in sessions : s.token # req[h].session}
  /\ Finish(h)
  /\ UNCHANGED <<settings, now, users, strays, issued, served, histories>>
-----------------------------------------------------------------------------
\* Log-in, and verifyPassword, which makes no session.
LogIn(h) == \E n \in Names, p \in Passwords, i \in settings.from, session \in BOOLEAN :
  Begin(h, "logIn", [Idle EXCEPT !.st = "login", !.name = n, !.pw = p, !.inst = i, !.own = session])
Authenticate(h) ==
  LET r == req[h]
      found == {u \in Known : users[u].name = r.name}
  IN /\ r.st = "login"
     /\ \/ found = {} /\ Refuse(h)
        \/ \E u \in found : Read(h, [r EXCEPT !.st = "lock", !.user = u, !.row = users[u]])
PasswordMatches(r) == r.row.pw # None /\ r.row.pw = r.pw

\* AccountLockout speaks of the user by the name it was found with.
Account(r) == IF users[r.user].name = r.row.name THEN {r.user} ELSE {}
Locked(u) == users[u].locked > now /\ users[u].failed # None /\ users[u].failed >= Threshold
NotLocked(h) ==
  LET r == req[h]
  IN /\ r.st = "lock"
     /\ \/ (\E u \in Account(r) : Locked(u)) /\ Refuse(h)
        \/ /\ \A u \in Account(r) : ~Locked(u)
           /\ Read(h, [r EXCEPT !.st = IF PasswordMatches(r) THEN "reset" ELSE "isset"])
SetFailedLoginCount(h) ==
  LET r == req[h]
  IN /\ r.st \in {"reset", "init"}
     /\ \/ Account(r) = {} /\ Refuse(h)
        \/ /\ Account(r) # {}
           /\ WriteUser(h, r.user, [users[r.user] EXCEPT !.failed = 0],
                        [r EXCEPT !.st = IF @ = "reset" THEN "enter" ELSE "count"])
IsFailedLoginCountSet(h) ==
  LET r == req[h]
      set == \E u \in Account(r) : users[u].failed # None
  IN r.st = "isset" /\ Read(h, [r EXCEPT !.st = IF set THEN "count" ELSE "init"])
IncrementFailedLoginCount(h) ==
  LET r == req[h]
  IN /\ r.st = "count"
     /\ \/ Account(r) = {} /\ Refuse(h)
        \/ /\ Account(r) # {}
           /\ WriteUser(h, r.user, [users[r.user] EXCEPT !.failed = IF @ = None THEN 1 ELSE @ + 1],
                        [r EXCEPT !.st = "lockout"])
\* Mutant: one attempt more.
PastThreshold_More(count) == count # None /\ count > Threshold
PastThreshold(count) == count # None /\ count >= Threshold
SetLockoutExpiration(h) ==
  LET r == req[h]
  IN /\ r.st = "lockout"
     /\ \/ (\A u \in Account(r) : ~PastThreshold(users[u].failed)) /\ Refuse(h)
        \/ \E u \in Account(r) : /\ PastThreshold(users[u].failed)
                                 /\ WriteUser(h, u, [users[u] EXCEPT !.locked = now + LockTime], Idle)

\* The rest of the log-in goes by the user as it was found.
Expired(row) == PasswordAge > 0 /\ row.changed # 0 /\ row.changed + PasswordAge < now
Admit(h) ==
  LET r == req[h]
      next == IF r.own THEN [r EXCEPT !.st = "session"] ELSE Idle
      undated == r.own /\ PasswordAge > 0 /\ r.row.changed = 0 /\ Account(r) # {}
      refused == (settings.prevent /\ ~r.row.verified) \/ (r.own /\ Expired(r.row))
  IN /\ r.st = "enter"
     /\ \/ refused /\ Refuse(h)
        \/ ~refused /\ ~undated /\ Read(h, next)
        \/ ~refused /\ undated /\ WriteUser(h, r.user, [users[r.user] EXCEPT !.changed = now], next)
-----------------------------------------------------------------------------
\* E-mail verification.  The link carries the name and the token.
FollowLink(h) == \E m \in mailed :
  m.what = "verify" /\ Begin(h, "verify", [Idle EXCEPT !.st = "verify", !.name = m.name, !.token = m.token])
VerifyEmail(h) ==
  LET r == req[h]
      found == {u \in Known : users[u].name = r.name}
  IN /\ r.st = "verify"
     /\ \/ (\E u \in found : users[u].verified) /\ Refuse(h)
        \/ (\A u \in found : ~users[u].verified) /\ Read(h, [r EXCEPT !.st = "confirm"])
\* Mutant: by name only.
Confirmed_ByName(u, r) == users[u].name = r.name
\* rest.update finds the user by name and token once more.
Confirmed(u, r) ==
  /\ users[u].name = r.name /\ users[u].vtoken = r.token
  /\ TokenLife > 0 => ~users[u].verified /\ users[u].vexpires > now
ConfirmEmail(h) ==
  LET r == req[h]
  IN /\ r.st = "confirm"
     /\ users' = [u \in Users |-> IF u \in Known /\ Confirmed(u, r)
                                  THEN [users[u] EXCEPT !.verified = TRUE, !.vtoken = 0, !.vexpires = 0]
                                  ELSE users[u]]
     /\ presented' = presented \cup {r.token}
     /\ Finish(h)
     /\ UNCHANGED <<settings, now, sessions, strays, issued, served, mailed, worn>>

\* Another mail is asked for: by address, or by name on the web page.
AskVerification(h) ==
  \/ \E e \in Emails : Begin(h, "askVerify", [Idle EXCEPT !.st = "asked", !.email = e])
  \/ \E n \in Names : Begin(h, "askVerify", [Idle EXCEPT !.st = "asked", !.name = n])
Reusable(row) == settings.reuse /\ TokenLife > 0 /\ row.vtoken # 0 /\ now < row.vexpires
RegenerateToken(h) ==
  LET r == req[h]
      found == {u \in Known : IF r.email # None THEN users[u].email = r.email ELSE users[u].name = r.name}
  IN /\ r.st = "asked"
     /\ \/ (\A u \in found : users[u].verified) /\ Refuse(h)
        \/ \E u \in found :
             LET known == [r EXCEPT !.row = users[u], !.name = users[u].name, !.email = users[u].email]
             IN /\ ~users[u].verified
                /\ IF Reusable(users[u])
                   THEN issued' = issued /\ Go(h, [known EXCEPT !.st = "mail", !.token = users[u].vtoken])
                   ELSE issued' = issued + 1 /\ Go(h, [known EXCEPT !.st = "renew", !.token = issued + 1])
                /\ UNCHANGED <<settings, now, users, sessions, strays, served, histories>>
\* The user as it was read, with a new token, goes over the user as it is now,
\* all but the password; a field it did not have then is not removed.
Restored(row, old, token) ==
  [row EXCEPT !.name = old.name,
              !.email = IF old.email = None THEN @ ELSE old.email,
              !.auth = IF old.auth = None THEN @ ELSE old.auth,
              !.verified = FALSE, !.vtoken = token, !.vexpires = now + TokenLife,
              !.rtoken = IF old.rtoken = 0 THEN @ ELSE old.rtoken,
              !.rexpires = IF old.rtoken = 0 THEN @ ELSE old.rexpires,
              !.failed = IF old.failed = None THEN @ ELSE old.failed,
              !.locked = IF old.locked = 0 THEN @ ELSE old.locked,
              !.changed = IF old.changed = 0 THEN @ ELSE old.changed,
              !.past = IF old.past = <<>> THEN @ ELSE old.past]
RenewToken(h) ==
  LET r == req[h]
      target == {u \in Known : users[u].name = r.row.name}
  IN /\ r.st = "renew"
     /\ \/ (\A u \in target : Duplicate(u, Restored(users[u], r.row, r.token))) /\ Refuse(h)
        \/ \E u \in target :
             LET row == Restored(users[u], r.row, r.token)
             IN ~Duplicate(u, row) /\ WriteUser(h, u, row, [r EXCEPT !.st = "mail"])

\* Password reset: a token is set, or the valid one used again, and mailed.
AskReset(h) == \E e \in Emails :
  Begin(h, "askReset", [Idle EXCEPT !.st = IF settings.reuse /\ TokenLife > 0 THEN "findReset" ELSE "setReset",
                                    !.email = e])
ResetMail(u, token) == [what |-> "reset", token |-> token, name |-> users[u].name, email |-> users[u].email]
FindResetToken(h) ==
  LET r == req[h]
      valid == {u \in Known : users[u].email = r.email /\ users[u].rtoken # 0 /\ users[u].rexpires > now}
  IN /\ r.st = "findReset"
     /\ \/ valid = {} /\ Read(h, [r EXCEPT !.st = "setReset"])
        \/ /\ valid # {}
           /\ mailed' = mailed \cup {ResetMail(u, users[u].rtoken) : u \in valid}
           /\ Finish(h)
           /\ UNCHANGED <<settings, now, users, sessions, strays, issued, served, presented, worn>>
SetPasswordResetToken(h) ==
  LET r == req[h]
      found == {u \in Known : users[u].email = r.email}
  IN /\ r.st = "setReset"
     /\ \/ found = {} /\ Refuse(h)
        \/ \E u \in found :
             /\ issued' = issued + 1
             /\ users' = [users EXCEPT ![u].rtoken = issued + 1, ![u].rexpires = now + TokenLife]
             /\ mailed' = mailed \cup {ResetMail(u, issued + 1)}
             /\ Finish(h)
             /\ UNCHANGED <<settings, now, sessions, strays, served, presented, worn>>
ResetPassword(h) == \E m \in mailed, p \in Passwords :
  /\ m.what = "reset"
  /\ Begin(h, "reset", [Idle EXCEPT !.st = "checkReset", !.name = m.name, !.token = m.token, !.pw = p])
CheckResetToken(h) ==
  LET r == req[h]
      found == {u \in Known : users[u].name = r.name /\ users[u].rtoken = r.token
                                /\ (TokenLife > 0 => users[u].rexpires >= now)}
  IN /\ r.st = "checkReset"
     /\ \/ found = {} /\ Refuse(h)
        \/ \E u \in found : Read(h, Execute([Idle EXCEPT !.user = u, !.pw = r.pw]))
-----------------------------------------------------------------------------
Tick ==
  /\ now < MaxNow
  /\ now' = now + 1
  /\ UNCHANGED <<settings, users, sessions, strays, req, issued, served, histories>>
CallFails(h) == ~settings.alone /\ settings.fails /\ req[h] # Idle /\ Refuse(h)

Arrives(h) ==
  \/ SignUp(h) \/ SignInWith(h) \/ Update(h) \/ UpgradeSession(h) \/ LogOut(h) \/ LogIn(h)
  \/ FollowLink(h) \/ AskVerification(h) \/ AskReset(h) \/ ResetPassword(h)
Writes(h) ==
  \/ HandleAuthData(h) \/ ValidatePasswordHistory(h) \/ ValidateUserName(h) \/ ValidateEmail(h)
  \/ CollectHistory(h) \/ RunDatabaseOperation(h) \/ ClearSessions(h) \/ SendVerificationEmail(h)
  \/ DestroyDuplicatedSessions(h) \/ CreateSession(h) \/ DeleteSession(h)
LogsIn(h) ==
  \/ Authenticate(h) \/ NotLocked(h) \/ SetFailedLoginCount(h) \/ IsFailedLoginCountSet(h)
  \/ IncrementFailedLoginCount(h) \/ SetLockoutExpiration(h) \/ Admit(h)
UsesTokens(h) ==
  \/ VerifyEmail(h) \/ ConfirmEmail(h) \/ RegenerateToken(h) \/ RenewToken(h)
  \/ FindResetToken(h) \/ SetPasswordResetToken(h) \/ CheckResetToken(h)

Next ==
  \/ \E h \in Slots : Arrives(h) \/ Writes(h) \/ LogsIn(h) \/ UsesTokens(h) \/ CallFails(h)
  \/ StrayArrives
  \/ Tick

Spec == Init /\ [][Next]_vars
-----------------------------------------------------------------------------
\* Rows, sessions and requests keep to the shapes the collections have.
TypeOK ==
  /\ \A u \in Known : users[u] \in RowType
  /\ sessions \subseteq SessionType(1..issued, Known)
  /\ \A h \in Slots : req[h].user # None => req[h].user \in Known

\* Whatever interleaves with it, an address counts as verified only when a token
\* that was mailed to this very address came back: the token and the address it
\* belongs to are always written together, also by the write of a stale user.
\* (The mail for a user who was read without an address goes to whoever has the
\* name when it is sent, which is someone else if users swap names meanwhile.)
VerifiedIsMailed ==
  ~({"askVerify", "setName"} \subseteq settings.offers) =>
    \A u \in Known : users[u].verified =>
      \E m \in mailed : m.what = "verify" /\ m.token \in presented /\ m.email = users[u].email

\* After the last of the log-ins at a user has got through, an account whose
\* counter is past the threshold has been locked: no interleaving of increments
\* and resets leaves the count up and the lock unset.  (A user renamed meanwhile
\* is not found any more, and a stale user brings its old count back.)
ThresholdLocks ==
  settings.alone \/ (~settings.fails /\ settings.offers \cap {"askVerify", "setName"} = {}) =>
    \A u \in Known :
      users[u].failed # None /\ users[u].failed >= Threshold /\ (\A h \in Slots : req[h].user # u)
        => users[u].locked > 0

\* Names and addresses are unique, thanks to the indexes even for sign-ups that
\* overlap.  That they also differ in more than case, and that a provider's id
\* belongs to one user, is only asked before the write, and holds one by one.
OneAccountPerIdentity ==
  \A u, v \in Known : u # v =>
    /\ users[u].name = users[v].name => users[u].name = None
    /\ users[u].email = users[v].email => users[u].email = None
    /\ settings.alone =>
         /\ users[u].name # None /\ users[v].name # None => Lower[users[u].name] # Lower[users[v].name]
         /\ users[u].auth = users[v].auth => users[u].auth = None

\* One request at a time, every session was opened by someone who knew the password
\* of today, or was given one by a change of it, and an installation has one session.
SessionsInOrder ==
  settings.alone /\ AtRest /\ strays = {} =>
    /\ \A s \in sessions : s.pw = users[s.user].pw
    /\ \A s, t \in sessions : s.user = t.user /\ s.inst = t.inst /\ s.inst # None => s = t

\* One request at a time, no user takes one of its last passwords again, as many as
\* the policy names.
PasswordNotRepeated ==
  settings.alone =>
    \A u \in Users : \A i, j \in DOMAIN worn[u] : i < j /\ j - i <= History => worn[u][i] # worn[u][j]
=============================================================================
