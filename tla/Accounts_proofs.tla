--------------------------- MODULE Accounts_proofs ---------------------------
(***************************************************************************)
(* Users, for every number of users, requests and tokens.                  *)
(***************************************************************************)
EXTENDS Accounts, SequenceTheorems, FiniteSetTheorems, TLAPS

WriteStages == {"auth", "policy", "name", "email", "past", "store"}
LogInStages == {"lock", "reset", "isset", "init", "count", "lockout", "enter"}
OtherStages == {"idle", "clear", "session", "insert", "mail", "delete", "login", "verify", "confirm",
                "asked", "renew", "findReset", "setReset", "checkReset"}

AllStages == WriteStages \cup LogInStages \cup OtherStages

ReqType == [st : AllStages,
            user : Users \cup {None}, name : Names \cup {None}, email : Emails \cup {None},
            pw : Passwords \cup {None}, auth : AuthIds \cup {None}, inst : Installations \cup {None},
            own : BOOLEAN, token : Nat, session : Nat, past : Seq(Passwords \cup {None}),
            row : RowType \cup {None}]

\* What a request knows at each of its stages.
Sound(r, known, count, offers) ==
  /\ r.user \in known \cup {None}
  /\ r.st = "idle" => r = Idle
  /\ r.st \in LogInStages \cup {"policy", "past", "clear", "session", "insert"} => r.user # None
  /\ r.st \in LogInStages \cup {"renew"} => r.row \in RowType
  /\ r.st # "checkReset" => r.token <= count
  /\ r.st \in LogInStages \cup {"login"} => r.token = 0
  /\ r.st \in WriteStages => (r.token # 0 <=> r.email # None /\ r.st \in {"past", "store"})
  /\ r.st \in WriteStages /\ r.user # None /\ r.name # None => "setName" \in offers
  /\ r.st \in {"asked", "renew"} => "askVerify" \in offers /\ (r.email # None \/ r.name # None)
  /\ r.st = "renew" => r.name = r.row.name /\ r.email = r.row.email
  /\ r.st = "email" => r.email # None
  /\ r.st \in {"mail", "renew"} => r.token # 0
  /\ r.st \in {"clear", "session", "insert", "mail"} /\ r.token # 0 /\ r.email = None =>
       r.st = "mail" /\ r.name # None /\ "askVerify" \in offers
  /\ r.st = "insert" => r.session \in 1..count

Reqs(rq, known, count, offers) ==
  rq \in [Slots -> ReqType] /\ \A h \in Slots : Sound(rq[h], known, count, offers)

\* Tokens of verification are those handed out; a reset token may be older.
MailType(tokens) ==
  [what : {"verify"}, token : tokens, name : Names \cup {None}, email : Emails \cup {None}]
    \cup [what : {"reset"}, token : Nat, name : Names \cup {None}, email : Emails \cup {None}]
StrayType(tokens, owners) == [user : owners, inst : Installations, keep : tokens]
KnownIn(rows) == {u \in Users : rows[u] # None}

\* No row holds a token that was not handed out.
Covers(count, row) == row.vtoken <= count

Stored(rows, open, away, sent, count) ==
  /\ count \in Nat
  /\ rows \in [Users -> RowType \cup {None}]
  /\ \A u \in KnownIn(rows) : Covers(count, rows[u])
  /\ open \subseteq SessionType(1..count, KnownIn(rows))
  /\ away \subseteq StrayType(1..count, KnownIn(rows))
  /\ sent \subseteq MailType(1..count)

Set == settings \in Settings /\ now \in Nat \ {0}
TypeInv ==
  /\ Set
  /\ Stored(users, sessions, strays, mailed, issued)
  /\ Reqs(req, KnownIn(users), issued, settings.offers)

-----------------------------------------------------------------------------
LEMMA MinOfTwo ==
  ASSUME NEW a \in Int, NEW b \in Int
  PROVE Min({a, b}) = IF a <= b THEN a ELSE b
  <1> DEFINE m == IF a <= b THEN a ELSE b
  <1>1. m \in {a, b} /\ \A y \in {a, b} : m <= y OBVIOUS
  <1>2. \A x \in {a, b} : (\A y \in {a, b} : x <= y) => x = m OBVIOUS
  <1> QED BY <1>1, <1>2 DEF Min

LEMMA MaxOfTwo ==
  ASSUME NEW a \in Int, NEW b \in Int
  PROVE Max({a, b}) = IF a <= b THEN b ELSE a
  <1> DEFINE m == IF a <= b THEN b ELSE a
  <1>1. m \in {a, b} /\ \A y \in {a, b} : m >= y OBVIOUS
  <1>2. \A x \in {a, b} : (\A y \in {a, b} : x >= y) => x = m OBVIOUS
  <1> QED BY <1>1, <1>2 DEF Max

LEMMA LeastStage ==
  ASSUME NEW S \in SUBSET (1..6), 6 \in S
  PROVE Min(S) \in S /\ \A i \in S : Min(S) <= i
  <1>1. \E m \in S : \A i \in S : m <= i
    <2>1. S \subseteq {1, 2, 3, 4, 5, 6} OBVIOUS
    <2>2. CASE 1 \in S BY <2>1, <2>2
    <2>3. CASE 1 \notin S /\ 2 \in S BY <2>1, <2>3
    <2>4. CASE {1, 2} \cap S = {} /\ 3 \in S BY <2>1, <2>4
    <2>5. CASE {1, 2, 3} \cap S = {} /\ 4 \in S BY <2>1, <2>5
    <2>6. CASE {1, 2, 3, 4} \cap S = {} /\ 5 \in S BY <2>1, <2>6
    <2>7. CASE {1, 2, 3, 4, 5} \cap S = {} BY <2>1, <2>7
    <2> QED BY <2>2, <2>3, <2>4, <2>5, <2>6, <2>7
  <1> QED BY <1>1 DEF Min

\* The next stage of a write is the first one, from k on, that applies to it.
FirstOf(r, k, s) ==
  \E i \in k..6 : /\ s = [r EXCEPT !.st = Stages[i]]
                  /\ Applies(r, Stages[i])
                  /\ \A j \in k..(i - 1) : ~Applies(r, Stages[j])

LEMMA FirstApplies ==
  ASSUME NEW r, NEW k \in 1..6
  PROVE FirstOf(r, k, FromStage(r, k))
  <1> DEFINE S == {i \in k..6 : Applies(r, Stages[i])}
             i == Min(S)
  <1>1. Len(Stages) = 6 BY DEF Stages
  <1>2. Applies(r, Stages[6]) BY DEF Applies, Stages
  <1>3. S \in SUBSET (1..6) /\ 6 \in S BY <1>2
  <1>4. i \in S /\ \A j \in S : i <= j
    <2> HIDE DEF S
    <2> QED BY <1>3, LeastStage
  <1>5. FromStage(r, k) = [r EXCEPT !.st = Stages[i]] BY <1>1 DEF FromStage
  <1>6. i \in k..6 /\ Applies(r, Stages[i]) BY <1>4
  <1>7. ASSUME NEW j \in k..(i - 1) PROVE ~Applies(r, Stages[j])
    <2>1. j \in k..6 /\ ~(i <= j) BY <1>6
    <2> QED BY <1>4, <2>1
  <1> HIDE DEF i
  <1> QED BY <1>5, <1>6, <1>7 DEF FirstOf

\* How far a write gets from stage k on: past no stage that applies to it.
Changing(r) == r.user # None /\ r.pw # None /\ History > 0
Reaches(r, s, k) ==
  /\ s \in ReqType /\ s = [r EXCEPT !.st = s.st] /\ s.st \in WriteStages
  /\ s.st = "auth" => k <= 1 /\ r.auth # None
  /\ s.st = "policy" => k <= 2 /\ Changing(r)
  /\ s.st = "name" => k <= 3 /\ r.name # None
  /\ s.st = "email" => k <= 4 /\ r.email # None
  /\ s.st = "past" => k <= 5 /\ Changing(r)
  /\ k <= 1 /\ s.st # "auth" => r.auth = None
  /\ k <= 2 /\ s.st \notin {"auth", "policy"} => ~Changing(r)
  /\ k <= 3 /\ s.st \in {"email", "past", "store"} => r.name = None
  /\ k <= 4 /\ s.st \in {"past", "store"} => r.email = None
  /\ k <= 5 /\ s.st = "store" => ~Changing(r)

LEMMA StageNames ==
  /\ Stages[1] = "auth" /\ Stages[2] = "policy" /\ Stages[3] = "name"
  /\ Stages[4] = "email" /\ Stages[5] = "past" /\ Stages[6] = "store"
  BY DEF Stages

LEMMA WhatApplies ==
  ASSUME NEW r
  PROVE /\ Applies(r, "auth") <=> r.auth # None
        /\ Applies(r, "policy") <=> Changing(r)
        /\ Applies(r, "past") <=> Changing(r)
        /\ Applies(r, "name") <=> r.name # None
        /\ Applies(r, "email") <=> r.email # None
  BY DEF Applies, Changing

LEMMA StagesInOrder ==
  ASSUME NEW r \in ReqType, NEW k \in 1..6
  PROVE Reaches(r, FromStage(r, k), k)
  <1> DEFINE s == FromStage(r, k)
  <1>1. PICK i \in k..6 : /\ s = [r EXCEPT !.st = Stages[i]]
                          /\ Applies(r, Stages[i])
                          /\ \A j \in k..(i - 1) : ~Applies(r, Stages[j])
    BY FirstApplies DEF FirstOf
  <1>2. k \in {1, 2, 3, 4, 5, 6} /\ i \in {1, 2, 3, 4, 5, 6} /\ k <= i OBVIOUS
  <1>3. Stages[i] \in WriteStages BY <1>2, StageNames DEF WriteStages
  <1>4. s \in ReqType /\ s = [r EXCEPT !.st = s.st] /\ s.st = Stages[i]
    BY <1>1, <1>3 DEF ReqType, AllStages
  <1> HIDE DEF s
  <1>5. /\ k <= 1 /\ 1 < i => r.auth = None
        /\ k <= 2 /\ 2 < i => ~Changing(r)
        /\ k <= 3 /\ 3 < i => r.name = None
        /\ k <= 4 /\ 4 < i => r.email = None
        /\ k <= 5 /\ 5 < i => ~Changing(r)
    <2>1. \A j \in {1, 2, 3, 4, 5} : k <= j /\ j < i => ~Applies(r, Stages[j])
      BY <1>1
    <2> QED BY <2>1, StageNames, WhatApplies
  <1>6. /\ i = 1 => s.st = "auth" /\ r.auth # None
        /\ i = 2 => s.st = "policy" /\ Changing(r)
        /\ i = 3 => s.st = "name" /\ r.name # None
        /\ i = 4 => s.st = "email" /\ r.email # None
        /\ i = 5 => s.st = "past" /\ Changing(r)
        /\ i = 6 => s.st = "store"
    BY <1>1, <1>4, StageNames, WhatApplies
  <1>7. s.st \in WriteStages BY <1>3, <1>4
  <1>8. Reaches(r, s, k)
    BY <1>2, <1>4, <1>5, <1>6, <1>7 DEF Reaches
  <1> QED BY <1>8 DEF s

LEMMA NextIsNext ==
  ASSUME NEW r, NEW k \in 1..5, r.st = Stages[k]
  PROVE NextStage(r) = FromStage(r, k + 1)
  <1>1. DOMAIN Stages = 1..6 BY DEF Stages
  <1>2. \A i, j \in {1, 2, 3, 4, 5, 6} : Stages[i] = Stages[j] => i = j BY StageNames
  <1>3. \A i \in DOMAIN Stages : Stages[i] = r.st <=> i = k
    <2>1. k \in {1, 2, 3, 4, 5, 6} OBVIOUS
    <2>2. ASSUME NEW i \in 1..6 PROVE Stages[i] = Stages[k] <=> i = k
      <3>1. i \in {1, 2, 3, 4, 5, 6} OBVIOUS
      <3> QED BY <1>2, <2>1, <3>1
    <2> QED BY <1>1, <2>2
  <1>4. k \in DOMAIN Stages BY <1>1
  <1>5. (CHOOSE i \in DOMAIN Stages : Stages[i] = r.st) = k BY <1>3, <1>4
  <1>6. 1 + k = k + 1 OBVIOUS
  <1> QED BY <1>5, <1>6 DEF NextStage

LEMMA NextReaches ==
  ASSUME NEW r \in ReqType
  PROVE /\ r.st = "auth" => Reaches(r, NextStage(r), 2)
        /\ r.st = "policy" => Reaches(r, NextStage(r), 3)
        /\ r.st = "name" => Reaches(r, NextStage(r), 4)
        /\ r.st = "email" => Reaches(r, NextStage(r), 5)
        /\ r.st = "past" => Reaches(r, NextStage(r), 6)
  <1>1. ASSUME NEW k \in 1..5, r.st = Stages[k] PROVE Reaches(r, NextStage(r), k + 1)
    <2>1. NextStage(r) = FromStage(r, k + 1) BY <1>1, NextIsNext
    <2>2. k + 1 \in 1..6 OBVIOUS
    <2> QED BY <2>1, <2>2, StagesInOrder
  <1>2. /\ 1 + 1 = 2 /\ 2 + 1 = 3 /\ 3 + 1 = 4 /\ 4 + 1 = 5 /\ 5 + 1 = 6 /\ {1, 2, 3, 4, 5} \subseteq 1..5
    OBVIOUS
  <1> QED BY <1>1, <1>2, StageNames

\* A write that begins, or goes on, knows what it should.
LEMMA ExecuteIsSound ==
  ASSUME NEW r \in ReqType, NEW known, NEW count \in Nat, NEW offers,
         r.user \in known \cup {None}, r.token = 0,
         r.user # None /\ r.name # None => "setName" \in offers
  PROVE Execute(r) \in ReqType /\ Sound(Execute(r), known, count, offers)
  <1> DEFINE s == Execute(r)
  <1>1. Reaches(r, s, 1) BY StagesInOrder DEF Execute
  <1> HIDE DEF s
  <1>2. s \in ReqType /\ s.st \in WriteStages
        /\ s.user = r.user /\ s.name = r.name /\ s.email = r.email /\ s.token = 0 /\ s.row = r.row
    BY <1>1 DEF Reaches, ReqType
  <1>3. /\ s.st \in {"policy", "past"} => s.user # None
        /\ s.st \in {"past", "store"} => s.email = None
        /\ s.st = "email" => s.email # None
    BY <1>1, <1>2 DEF Reaches, Changing
  <1>4. Sound(s, known, count, offers)
    BY <1>2, <1>3 DEF Sound, WriteStages, LogInStages
  <1> QED BY <1>2, <1>4 DEF s

LEMMA NextIsSound ==
  ASSUME NEW r \in ReqType, NEW known, NEW count \in Nat, NEW offers,
         Sound(r, known, count, offers), r.st \in {"auth", "policy", "name", "past"}
  PROVE NextStage(r) \in ReqType /\ Sound(NextStage(r), known, count, offers)
  <1> DEFINE s == NextStage(r)
  <1>1. /\ r.st # "past" => Reaches(r, s, 2) \/ Reaches(r, s, 3) \/ Reaches(r, s, 4)
        /\ r.st = "past" => Reaches(r, s, 6)
    BY NextReaches
  <1> HIDE DEF s
  <1>2. s \in ReqType /\ s = [r EXCEPT !.st = s.st] /\ s.st \in WriteStages
    BY <1>1 DEF Reaches
  <1>3. s.user = r.user /\ s.name = r.name /\ s.email = r.email /\ s.token = r.token /\ s.row = r.row
    BY <1>2 DEF ReqType
  <1>4. /\ s.st = "policy" => s.user # None
        /\ s.st = "email" => s.email # None
    BY <1>1, <1>3 DEF Reaches, Changing
  <1>5. s.st = "past" => s.user # None
    BY <1>1, <1>3 DEF Reaches, Changing
  <1>6. /\ s.st \in {"past", "store"} /\ r.st # "past" => s.email = None
        /\ r.st = "past" => s.st = "store"
    BY <1>1, <1>3 DEF Reaches, WriteStages
  <1>7. Sound(s, known, count, offers)
    BY <1>2, <1>3, <1>4, <1>5, <1>6 DEF Sound, WriteStages, LogInStages
  <1> QED BY <1>2, <1>7 DEF s

LEMMA TokenKeepsType ==
  ASSUME NEW r \in ReqType, NEW n \in Nat
  PROVE [r EXCEPT !.token = n] \in ReqType
  BY DEF ReqType

LEMMA EmailIsSound ==
  ASSUME NEW r \in ReqType, NEW known, NEW count \in Nat, NEW offers,
         Sound(r, known, count, offers), r.st = "email"
  PROVE LET s == [NextStage(r) EXCEPT !.token = count + 1]
        IN s \in ReqType /\ Sound(s, known, count + 1, offers) /\ s.st \in {"past", "store"}
           /\ s.token = count + 1 /\ s.email = r.email /\ s.name = r.name /\ s.user = r.user
  <1> DEFINE t == NextStage(r)
             s == [t EXCEPT !.token = count + 1]
  <1>1. Reaches(r, t, 5) BY NextReaches
  <1> HIDE DEF t
  <1>2. t \in ReqType /\ t.st \in {"past", "store"}
        /\ t.user = r.user /\ t.name = r.name /\ t.email = r.email
    BY <1>1 DEF Reaches, ReqType, AllStages, WriteStages
  <1>3. t.st = "past" => t.user # None
    BY <1>1, <1>2 DEF Reaches, Changing
  <1>4. s \in ReqType
    <2>1. count + 1 \in Nat OBVIOUS
    <2> QED BY <1>2, <2>1, TokenKeepsType
  <1>7. s.st = t.st /\ s.user = t.user /\ s.name = t.name /\ s.email = t.email /\ s.token = count + 1
    BY <1>2 DEF ReqType
  <1> HIDE DEF s
  <1>5. r.email # None
    BY DEF Sound
  <1>6. Sound(s, known, count + 1, offers)
    BY <1>2, <1>3, <1>7, <1>5 DEF Sound, WriteStages, LogInStages
  <1> QED BY <1>2, <1>4, <1>6, <1>7 DEF s, t

-----------------------------------------------------------------------------
\* Users are not forgotten and tokens not taken back.
LEMMA SoundGrows ==
  ASSUME NEW r \in ReqType, NEW known, NEW more, known \subseteq more,
         NEW count \in Nat, NEW larger \in Nat, count <= larger, NEW offers,
         Sound(r, known, count, offers)
  PROVE Sound(r, more, larger, offers)
  <1>1. r.token \in Nat /\ r.session \in Nat BY DEF ReqType
  <1>2. (r.st # "checkReset" => r.token <= larger) /\ (r.st = "insert" => r.session \in 1..larger)
    BY <1>1 DEF Sound
  <1>3. r.user \in more \cup {None} BY DEF Sound
  <1> QED BY <1>2, <1>3 DEF Sound

LEMMA ReqsGrow ==
  ASSUME NEW rq, NEW known, NEW more, known \subseteq more,
         NEW count \in Nat, NEW larger \in Nat, count <= larger, NEW offers,
         Reqs(rq, known, count, offers)
  PROVE Reqs(rq, more, larger, offers)
  BY SoundGrows DEF Reqs

LEMMA OneGoes ==
  ASSUME NEW rq, NEW known, NEW count, NEW offers, Reqs(rq, known, count, offers),
         NEW h \in Slots, NEW r \in ReqType, Sound(r, known, count, offers)
  PROVE Reqs([rq EXCEPT ![h] = r], known, count, offers)
  BY DEF Reqs

LEMMA StoredGrows ==
  ASSUME NEW rows, NEW open, NEW away, NEW sent, NEW count, NEW larger \in Nat, count <= larger,
         Stored(rows, open, away, sent, count)
  PROVE Stored(rows, open, away, sent, larger)
  <1>1. count \in Nat BY DEF Stored
  <1>2. 1..count \subseteq 1..larger BY <1>1
  <1>3. open \subseteq SessionType(1..larger, KnownIn(rows))
    BY <1>2 DEF Stored, SessionType
  <1>4. away \subseteq StrayType(1..larger, KnownIn(rows))
    BY <1>2 DEF Stored, StrayType
  <1>5. sent \subseteq MailType(1..larger)
    BY <1>2 DEF Stored, MailType
  <1>6. ASSUME NEW u \in KnownIn(rows) PROVE Covers(larger, rows[u])
    <2>1. rows[u] \in RowType BY DEF Stored, KnownIn
    <2>2. rows[u].vtoken \in Nat BY <2>1 DEF RowType
    <2>3. rows[u].vtoken <= count BY DEF Stored, Covers
    <2> QED BY <1>1, <2>2, <2>3 DEF Covers
  <1> QED BY <1>3, <1>4, <1>5, <1>6 DEF Stored

LEMMA RowIsNew ==
  ASSUME NEW rows, NEW open, NEW away, NEW sent, NEW count,
         Stored(rows, open, away, sent, count), NEW u \in Users, NEW row \in RowType,
         Covers(count, row)
  PROVE /\ Stored([rows EXCEPT ![u] = row], open, away, sent, count)
        /\ KnownIn([rows EXCEPT ![u] = row]) = KnownIn(rows) \cup {u}
  <1> DEFINE new == [rows EXCEPT ![u] = row]
  <1>1. row # None BY SettingsConstants
  <1>2. new \in [Users -> RowType \cup {None}] BY DEF Stored
  <1>3. KnownIn(new) = KnownIn(rows) \cup {u}
    BY <1>1 DEF KnownIn, Stored
  <1> HIDE DEF new
  <1>4. open \subseteq SessionType(1..count, KnownIn(new))
    BY <1>3 DEF Stored, SessionType
  <1>5. away \subseteq StrayType(1..count, KnownIn(new))
    BY <1>3 DEF Stored, StrayType
  <1>7. \A v \in KnownIn(new) : Covers(count, new[v])
    <2>1. \A v \in Users : new[v] = IF v = u THEN row ELSE rows[v] BY DEF Stored, new
    <2>2. \A v \in KnownIn(rows) : Covers(count, rows[v]) BY DEF Stored
    <2>3. \A v \in KnownIn(new) : v \in Users /\ (v # u => v \in KnownIn(rows))
      BY <1>3 DEF KnownIn
    <2> QED BY <2>1, <2>2, <2>3
  <1>6. Stored(new, open, away, sent, count) BY <1>2, <1>4, <1>5, <1>7 DEF Stored
  <1> QED BY <1>3, <1>6 DEF new

LEMMA IdleIsSound ==
  ASSUME NEW known, NEW count \in Nat, NEW offers
  PROVE Idle \in ReqType /\ Sound(Idle, known, count, offers)
  <1>1. <<>> \in Seq(Passwords \cup {None}) OBVIOUS
  <1>2. Idle \in ReqType BY <1>1 DEF Idle, ReqType, AllStages, OtherStages
  <1>3. Sound(Idle, known, count, offers)
    BY DEF Idle, Sound, WriteStages, LogInStages
  <1> QED BY <1>2, <1>3

\* A step of one request that stores nothing, or one row.
LEMMA ReadStep ==
  ASSUME TypeInv, NEW h \in Slots, NEW r \in ReqType,
         Sound(r, KnownIn(users), issued, settings.offers), Go(h, r),
         UNCHANGED <<settings, now, users, sessions, strays, mailed, issued>>
  PROVE TypeInv'
  <1>1. Reqs(req', KnownIn(users), issued, settings.offers)
    BY OneGoes DEF TypeInv, Go
  <1> QED BY <1>1 DEF TypeInv, Set

LEMMA RefuseStep ==
  ASSUME TypeInv, NEW h \in Slots, Refuse(h)
  PROVE TypeInv'
  <1>1. issued \in Nat BY DEF TypeInv, Stored
  <1>2. Idle \in ReqType /\ Sound(Idle, KnownIn(users), issued, settings.offers)
    BY <1>1, IdleIsSound
  <1>3. Go(h, Idle) /\ UNCHANGED <<settings, now, users, sessions, strays, mailed, issued>>
    BY DEF Refuse, Finish, histories
  <1> QED BY <1>2, <1>3, ReadStep

LEMMA WriteStep ==
  ASSUME TypeInv, NEW h \in Slots, NEW u \in Users, NEW row \in RowType, Covers(issued, row),
         NEW r \in ReqType, Sound(r, KnownIn(users) \cup {u}, issued, settings.offers), Go(h, r),
         users' = [users EXCEPT ![u] = row],
         UNCHANGED <<settings, now, sessions, strays, mailed, issued>>
  PROVE TypeInv'
  <1> DEFINE known == KnownIn(users) \cup {u}
  <1>1. issued \in Nat BY DEF TypeInv, Stored
  <1>2. Stored(users', sessions, strays, mailed, issued) /\ KnownIn(users') = known
    <2>1. Stored(users, sessions, strays, mailed, issued) BY DEF TypeInv
    <2>2. Covers(issued, row) OBVIOUS
    <2> DEFINE new == [users EXCEPT ![u] = row]
    <2>5. u \in Users /\ row \in RowType OBVIOUS
    <2>3. KnownIn(new) = KnownIn(users) \cup {u} BY ONLY <2>1, <2>2, <2>5, RowIsNew
    <2>4. Stored(new, sessions, strays, mailed, issued) BY ONLY <2>1, <2>2, <2>5, RowIsNew
    <2> QED BY <2>3, <2>4
  <1>3. Reqs(req, known, issued, settings.offers)
    <2>1. issued <= issued BY <1>1
    <2> QED BY <1>1, <2>1, ReqsGrow DEF TypeInv
  <1>4. Reqs(req', known, issued, settings.offers)
    BY <1>3, OneGoes DEF Go
  <1> HIDE DEF known
  <1> QED BY <1>2, <1>4 DEF TypeInv, Set

-----------------------------------------------------------------------------
\* Two requests that differ in their stage alone.
Keeps(s, r) ==
  /\ s.user = r.user /\ s.name = r.name /\ s.email = r.email /\ s.pw = r.pw /\ s.auth = r.auth
  /\ s.inst = r.inst /\ s.own = r.own /\ s.token = r.token /\ s.session = r.session
  /\ s.past = r.past /\ s.row = r.row

\* How a request stands when it arrives, and what else is true of that step.
Unchecked(r) ==
  /\ r.st # "auth" => r.auth = None
  /\ r.st \notin {"auth", "policy"} => ~Changing(r)
  /\ r.st \in {"email", "past", "store"} => r.name = None
  /\ r.st \in {"past", "store"} => r.email = None
  /\ r.st # "past" /\ r.past = <<>>
Begun(r) ==
  /\ r.st \in WriteStages => Unchecked(r)
  /\ r.st \in WriteStages \cup {"session", "delete", "login", "verify", "asked", "findReset", "setReset", "checkReset"}
  /\ r.token # 0 => r.st \in {"verify", "checkReset"}
  /\ r.st = "session" => r.pw = users[r.user].pw
  /\ r.st = "verify" => \E m \in mailed : m.what = "verify" /\ m.token = r.token
Arrived(h, r) ==
  /\ req[h] = Idle /\ Go(h, r)
  /\ r \in ReqType /\ Sound(r, KnownIn(users), issued, settings.offers) /\ Begun(r)
  /\ settings.alone => AtRest /\ strays = {}
  /\ UNCHANGED <<settings, now, users, sessions, strays, issued, histories>>

LEMMA BeginStep ==
  ASSUME NEW h \in Slots, NEW kind, NEW r \in ReqType, Begun(r),
         Sound(r, KnownIn(users), issued, settings.offers), Begin(h, kind, r)
  PROVE Arrived(h, r)
  BY DEF Begin, Arrived

\* A write goes first to the first of its stages, having asked for nothing yet.
LEMMA ExecuteLeaves ==
  ASSUME NEW r \in ReqType, r.past = <<>>
  PROVE LET s == Execute(r)
        IN s \in ReqType /\ s.st \in WriteStages /\ Keeps(s, r) /\ s.token = r.token /\ Unchecked(s)
  <1>1. Reaches(r, Execute(r), 1) BY StagesInOrder DEF Execute
  <1> DEFINE s == Execute(r)
  <1> HIDE DEF s
  <1>2. s = [r EXCEPT !.st = s.st] /\ s.st \in WriteStages /\ s \in ReqType
    BY <1>1 DEF Reaches, s
  <1>3. /\ s.token = r.token /\ s.auth = r.auth /\ s.name = r.name /\ s.email = r.email
        /\ s.user = r.user /\ s.pw = r.pw /\ s.past = r.past
    BY <1>2 DEF ReqType
  <1>4. Keeps(s, r) BY <1>2 DEF ReqType, Keeps
  <1>5. Unchecked(s)
    <2>1. /\ s.st # "auth" => r.auth = None
          /\ s.st \notin {"auth", "policy"} => ~Changing(r)
          /\ s.st \in {"email", "past", "store"} => r.name = None
          /\ s.st \in {"past", "store"} => r.email = None
      BY <1>1 DEF Reaches, s
    <2>2. Changing(s) <=> Changing(r) BY <1>3 DEF Changing
    <2>3. s.st # "past" BY <1>1, <2>1 DEF Reaches, s
    <2> QED BY <1>3, <2>1, <2>2, <2>3 DEF Unchecked
  <1> QED BY <1>2, <1>3, <1>4, <1>5 DEF s

\* A request of a user or of nobody, before it goes to the database.
LEMMA ExecuteStep ==
  ASSUME TypeInv, NEW h \in Slots, NEW kind, NEW r \in ReqType,
         r.user \in KnownIn(users) \cup {None}, r.token = 0, r.past = <<>>,
         r.user # None /\ r.name # None => kind = "setName",
         Begin(h, kind, Execute(r))
  PROVE \E s : Arrived(h, s)
  <1>1. kind \in settings.offers BY DEF Begin
  <1>2. issued \in Nat BY DEF TypeInv, Stored
  <1> DEFINE s == Execute(r)
  <1>3. s \in ReqType /\ Sound(s, KnownIn(users), issued, settings.offers)
    BY <1>1, <1>2, ExecuteIsSound
  <1>4. s.st \in WriteStages /\ s.token = 0 /\ Unchecked(s) BY ExecuteLeaves
  <1>5. Begin(h, kind, s) OBVIOUS
  <1> HIDE DEF s
  <1>6. Begun(s) BY <1>4 DEF Begun, WriteStages
  <1>7. Arrived(h, s) BY <1>3, <1>5, <1>6, BeginStep
  <1> QED BY <1>7

LEMMA IdleFields ==
  /\ Idle.user = None /\ Idle.name = None /\ Idle.email = None /\ Idle.token = 0 /\ Idle.st = "idle"
  /\ Idle.past = <<>>
  /\ Idle \in ReqType
  BY IdleIsSound DEF Idle

LEMMA FromTypes ==
  ASSUME TypeInv, NEW i \in settings.from
  PROVE i \in Installations \cup {None}
  BY SettingsConstants DEF TypeInv, Set

LEMMA SessionTypes ==
  ASSUME TypeInv, NEW s \in sessions
  PROVE /\ s.user \in KnownIn(users) /\ s.inst \in Installations \cup {None}
        /\ s.token \in 1..issued /\ s.pw \in Passwords \cup {None} /\ s.user \in Users
  BY DEF TypeInv, Stored, SessionType, KnownIn

LEMMA RowTypes ==
  ASSUME TypeInv, NEW u \in KnownIn(users)
  PROVE users[u] \in RowType /\ u \in Users /\ u # None
  BY AccountConstants DEF TypeInv, Stored, KnownIn

LEMMA SignUpBegins ==
  ASSUME TypeInv, NEW h \in Slots, SignUp(h)
  PROVE \E r : Arrived(h, r)
  <1>1. PICK n \in Names, e \in Emails \cup {None}, p \in Passwords, i \in settings.from :
          Begin(h, "signUp", Execute([Idle EXCEPT !.name = n, !.email = e, !.pw = p, !.inst = i]))
    BY DEF SignUp
  <1> DEFINE r == [Idle EXCEPT !.name = n, !.email = e, !.pw = p, !.inst = i]
  <1>2. i \in Installations \cup {None} BY FromTypes
  <1>3. r \in ReqType /\ r.user = None /\ r.token = 0 /\ r.past = <<>>
    BY <1>2, IdleFields DEF ReqType
  <1> HIDE DEF r
  <1>4. Begin(h, "signUp", Execute(r)) BY <1>1 DEF r
  <1> QED BY <1>3, <1>4, ExecuteStep

LEMMA SignInWithBegins ==
  ASSUME TypeInv, NEW h \in Slots, SignInWith(h)
  PROVE \E r : Arrived(h, r)
  <1>1. PICK a \in AuthIds, i \in settings.from :
          Begin(h, "signInWith", Execute([Idle EXCEPT !.auth = a, !.inst = i]))
    BY DEF SignInWith
  <1> DEFINE r == [Idle EXCEPT !.auth = a, !.inst = i]
  <1>2. i \in Installations \cup {None} BY FromTypes
  <1>3. r \in ReqType /\ r.user = None /\ r.token = 0 /\ r.past = <<>>
    BY <1>2, IdleFields DEF ReqType
  <1> HIDE DEF r
  <1>4. Begin(h, "signInWith", Execute(r)) BY <1>1 DEF r
  <1> QED BY <1>3, <1>4, ExecuteStep

LEMMA UpdateBegins ==
  ASSUME TypeInv, NEW h \in Slots, Update(h)
  PROVE \E r : Arrived(h, r)
  <1> DEFINE own(s) == [Idle EXCEPT !.user = s.user, !.own = TRUE, !.inst = s.inst]
  <1>1. PICK s \in sessions :
          \/ \E p \in Passwords : Begin(h, "setPassword", Execute([own(s) EXCEPT !.pw = p]))
          \/ \E e \in Emails : Begin(h, "setEmail", Execute([own(s) EXCEPT !.email = e]))
          \/ \E n \in Names : Begin(h, "setName", Execute([own(s) EXCEPT !.name = n]))
          \/ \E a \in AuthIds : Begin(h, "link", Execute([own(s) EXCEPT !.auth = a]))
    BY DEF Update
  <1> DEFINE o == own(s)
  <1>2. s.user \in KnownIn(users) /\ s.inst \in Installations \cup {None} /\ s.user \in Users
    BY SessionTypes
  <1>3. o \in ReqType /\ o.user = s.user /\ o.token = 0 /\ o.name = None /\ o.past = <<>>
    BY <1>2, IdleFields DEF ReqType
  <1>4. \/ \E p \in Passwords : Begin(h, "setPassword", Execute([o EXCEPT !.pw = p]))
        \/ \E e \in Emails : Begin(h, "setEmail", Execute([o EXCEPT !.email = e]))
        \/ \E n \in Names : Begin(h, "setName", Execute([o EXCEPT !.name = n]))
        \/ \E a \in AuthIds : Begin(h, "link", Execute([o EXCEPT !.auth = a]))
    BY <1>1
  <1> HIDE DEF o
  <1>5. ASSUME NEW p \in Passwords, Begin(h, "setPassword", Execute([o EXCEPT !.pw = p]))
        PROVE \E r : Arrived(h, r)
    <2> DEFINE r == [o EXCEPT !.pw = p]
    <2>1. r \in ReqType /\ r.user = s.user /\ r.token = 0 /\ r.name = None /\ r.past = <<>> BY <1>3 DEF ReqType
    <2> HIDE DEF r
    <2>2. Begin(h, "setPassword", Execute(r)) BY <1>5 DEF r
    <2> QED BY <1>2, <2>1, <2>2, ExecuteStep
  <1>6. ASSUME NEW e \in Emails, Begin(h, "setEmail", Execute([o EXCEPT !.email = e]))
        PROVE \E r : Arrived(h, r)
    <2> DEFINE r == [o EXCEPT !.email = e]
    <2>1. r \in ReqType /\ r.user = s.user /\ r.token = 0 /\ r.name = None /\ r.past = <<>> BY <1>3 DEF ReqType
    <2> HIDE DEF r
    <2>2. Begin(h, "setEmail", Execute(r)) BY <1>6 DEF r
    <2> QED BY <1>2, <2>1, <2>2, ExecuteStep
  <1>7. ASSUME NEW n \in Names, Begin(h, "setName", Execute([o EXCEPT !.name = n]))
        PROVE \E r : Arrived(h, r)
    <2> DEFINE r == [o EXCEPT !.name = n]
    <2>1. r \in ReqType /\ r.user = s.user /\ r.token = 0 /\ r.past = <<>> BY <1>3 DEF ReqType
    <2> HIDE DEF r
    <2>2. Begin(h, "setName", Execute(r)) BY <1>7 DEF r
    <2> QED BY <1>2, <2>1, <2>2, ExecuteStep
  <1>8. ASSUME NEW a \in AuthIds, Begin(h, "link", Execute([o EXCEPT !.auth = a]))
        PROVE \E r : Arrived(h, r)
    <2> DEFINE r == [o EXCEPT !.auth = a]
    <2>1. r \in ReqType /\ r.user = s.user /\ r.token = 0 /\ r.name = None /\ r.past = <<>> BY <1>3 DEF ReqType
    <2> HIDE DEF r
    <2>2. Begin(h, "link", Execute(r)) BY <1>8 DEF r
    <2> QED BY <1>2, <2>1, <2>2, ExecuteStep
  <1> QED BY <1>4, <1>5, <1>6, <1>7, <1>8

LEMMA UpgradeBegins ==
  ASSUME TypeInv, NEW h \in Slots, UpgradeSession(h)
  PROVE \E r : Arrived(h, r)
  <1> DEFINE q(s) == [Idle EXCEPT !.st = "session", !.user = s.user, !.inst = s.inst, !.pw = users[s.user].pw]
  <1>1. PICK s \in sessions : Begin(h, "upgrade", q(s)) BY DEF UpgradeSession
  <1>2. /\ s.user \in KnownIn(users) /\ s.inst \in Installations \cup {None}
        /\ s.user \in Users /\ s.user # None /\ users[s.user].pw \in Passwords \cup {None}
    BY SessionTypes, RowTypes DEF RowType
  <1> DEFINE r == q(s)
  <1>3. /\ r \in ReqType /\ r.st = "session" /\ r.user = s.user /\ r.token = 0
        /\ r.pw = users[s.user].pw
    BY <1>2, IdleFields DEF ReqType, AllStages, OtherStages
  <1>4. Begin(h, "upgrade", r) BY <1>1
  <1> HIDE DEF r
  <1>5. issued \in Nat BY DEF TypeInv, Stored
  <1>6. Sound(r, KnownIn(users), issued, settings.offers)
    BY <1>2, <1>3, <1>5 DEF Sound, WriteStages, LogInStages
  <1>7. Begun(r) BY <1>3 DEF Begun, WriteStages
  <1> QED BY <1>3, <1>4, <1>6, <1>7, BeginStep

LEMMA LogOutBegins ==
  ASSUME TypeInv, NEW h \in Slots, LogOut(h)
  PROVE \E r : Arrived(h, r)
  <1>1. PICK s \in sessions : Begin(h, "logOut", [Idle EXCEPT !.st = "delete", !.session = s.token])
    BY DEF LogOut
  <1> DEFINE r == [Idle EXCEPT !.st = "delete", !.session = s.token]
  <1>2. issued \in Nat BY DEF TypeInv, Stored
  <1>3. s.token \in Nat BY <1>2, SessionTypes
  <1>4. r \in ReqType /\ r.st = "delete" /\ r.user = None /\ r.token = 0
    BY <1>3, IdleFields DEF ReqType, AllStages, OtherStages
  <1>5. Begin(h, "logOut", r) BY <1>1
  <1> HIDE DEF r
  <1>6. Sound(r, KnownIn(users), issued, settings.offers)
    BY <1>2, <1>4 DEF Sound, WriteStages, LogInStages
  <1>7. Begun(r) BY <1>4 DEF Begun, WriteStages
  <1> QED BY <1>4, <1>5, <1>6, <1>7, BeginStep

LEMMA LogInBegins ==
  ASSUME TypeInv, NEW h \in Slots, LogIn(h)
  PROVE \E r : Arrived(h, r)
  <1>1. PICK n \in Names, p \in Passwords, i \in settings.from, session \in BOOLEAN :
          Begin(h, "logIn", [Idle EXCEPT !.st = "login", !.name = n, !.pw = p, !.inst = i, !.own = session])
    BY DEF LogIn
  <1> DEFINE r == [Idle EXCEPT !.st = "login", !.name = n, !.pw = p, !.inst = i, !.own = session]
  <1>2. issued \in Nat BY DEF TypeInv, Stored
  <1>3. i \in Installations \cup {None} BY FromTypes
  <1>4. r \in ReqType /\ r.st = "login" /\ r.user = None /\ r.token = 0
    <2> DEFINE o == [Idle EXCEPT !.st = "login", !.name = n, !.pw = p, !.inst = i]
    <2>1. o \in ReqType /\ o.st = "login" /\ o.user = None /\ o.token = 0
      BY <1>3, IdleFields DEF ReqType, AllStages, OtherStages
    <2>2. r = [o EXCEPT !.own = session] BY IdleFields DEF ReqType
    <2> HIDE DEF o, r
    <2>3. r \in ReqType BY <2>1, <2>2 DEF ReqType
    <2>4. r.st = o.st /\ r.user = o.user /\ r.token = o.token BY <2>1, <2>2 DEF ReqType
    <2> QED BY <2>1, <2>3, <2>4
  <1>5. Begin(h, "logIn", r) BY <1>1
  <1> HIDE DEF r
  <1>6. Sound(r, KnownIn(users), issued, settings.offers)
    BY <1>2, <1>4 DEF Sound, WriteStages, LogInStages
  <1>7. Begun(r) BY <1>4 DEF Begun, WriteStages
  <1> QED BY <1>4, <1>5, <1>6, <1>7, BeginStep

LEMMA MailTypes ==
  ASSUME TypeInv, NEW m \in mailed
  PROVE /\ m.what = "verify" => m.token \in 1..issued
        /\ m.token \in Nat
        /\ m.name \in Names \cup {None} /\ m.email \in Emails \cup {None}
  <1>1. issued \in Nat BY DEF TypeInv, Stored
  <1> QED BY <1>1 DEF TypeInv, Stored, MailType

LEMMA FollowLinkBegins ==
  ASSUME TypeInv, NEW h \in Slots, FollowLink(h)
  PROVE \E r : Arrived(h, r)
  <1>1. PICK m \in mailed : /\ m.what = "verify"
                            /\ Begin(h, "verify", [Idle EXCEPT !.st = "verify", !.name = m.name, !.token = m.token])
    BY DEF FollowLink
  <1> DEFINE r == [Idle EXCEPT !.st = "verify", !.name = m.name, !.token = m.token]
  <1>2. issued \in Nat BY DEF TypeInv, Stored
  <1>3. m.token \in Nat /\ m.token <= issued /\ m.name \in Names \cup {None} BY <1>1, <1>2, MailTypes
  <1>4. r \in ReqType /\ r.st = "verify" /\ r.user = None /\ r.token = m.token
    BY <1>3, IdleFields DEF ReqType, AllStages, OtherStages
  <1>5. Begin(h, "verify", r) BY <1>1
  <1> HIDE DEF r
  <1>6. Sound(r, KnownIn(users), issued, settings.offers)
    BY <1>2, <1>3, <1>4 DEF Sound, WriteStages, LogInStages
  <1>7. Begun(r) BY <1>1, <1>4 DEF Begun, WriteStages
  <1> QED BY <1>4, <1>5, <1>6, <1>7, BeginStep

LEMMA ResetPasswordBegins ==
  ASSUME TypeInv, NEW h \in Slots, ResetPassword(h)
  PROVE \E r : Arrived(h, r)
  <1>1. PICK m \in mailed, p \in Passwords :
          Begin(h, "reset", [Idle EXCEPT !.st = "checkReset", !.name = m.name, !.token = m.token, !.pw = p])
    BY DEF ResetPassword
  <1> DEFINE r == [Idle EXCEPT !.st = "checkReset", !.name = m.name, !.token = m.token, !.pw = p]
  <1>2. issued \in Nat BY DEF TypeInv, Stored
  <1>3. m.token \in Nat /\ m.name \in Names \cup {None} BY <1>2, MailTypes
  <1>4. r \in ReqType /\ r.st = "checkReset" /\ r.user = None /\ r.token = m.token
    <2>1. p \in Passwords \cup {None} OBVIOUS
    <2>2. r \in ReqType BY <1>3, <2>1, IdleFields DEF ReqType, AllStages, OtherStages
    <2> QED BY <2>2, IdleFields DEF ReqType
  <1>5. Begin(h, "reset", r) BY <1>1
  <1> HIDE DEF r
  <1>6. Sound(r, KnownIn(users), issued, settings.offers)
    BY <1>2, <1>3, <1>4 DEF Sound, WriteStages, LogInStages
  <1>7. Begun(r) BY <1>4 DEF Begun, WriteStages
  <1> QED BY <1>4, <1>5, <1>6, <1>7, BeginStep

LEMMA AskVerificationBegins ==
  ASSUME TypeInv, NEW h \in Slots, AskVerification(h)
  PROVE \E r : Arrived(h, r)
  <1> DEFINE Asks(r) == r \in ReqType /\ r.st = "asked" /\ r.user = None /\ r.token = 0
                        /\ (r.email # None \/ r.name # None) /\ Begin(h, "askVerify", r)
  <1>1. \E r : Asks(r)
    <2>1. CASE \E e \in Emails : Begin(h, "askVerify", [Idle EXCEPT !.st = "asked", !.email = e])
      <3>1. PICK e \in Emails : Begin(h, "askVerify", [Idle EXCEPT !.st = "asked", !.email = e])
        BY <2>1
      <3> DEFINE r == [Idle EXCEPT !.st = "asked", !.email = e]
      <3>2. e # None BY AccountConstants
      <3>3. r \in ReqType /\ r.st = "asked" /\ r.user = None /\ r.token = 0 /\ r.email = e
        BY IdleFields DEF ReqType, AllStages, OtherStages
      <3>4. Begin(h, "askVerify", r) BY <3>1
      <3> HIDE DEF r
      <3>5. Asks(r) BY <3>2, <3>3, <3>4
      <3> QED BY <3>5
    <2>2. CASE \E n \in Names : Begin(h, "askVerify", [Idle EXCEPT !.st = "asked", !.name = n])
      <3>1. PICK n \in Names : Begin(h, "askVerify", [Idle EXCEPT !.st = "asked", !.name = n])
        BY <2>2
      <3> DEFINE r == [Idle EXCEPT !.st = "asked", !.name = n]
      <3>2. n # None BY AccountConstants
      <3>3. r \in ReqType /\ r.st = "asked" /\ r.user = None /\ r.token = 0 /\ r.name = n
        BY IdleFields DEF ReqType, AllStages, OtherStages
      <3>4. Begin(h, "askVerify", r) BY <3>1
      <3> HIDE DEF r
      <3>5. Asks(r) BY <3>2, <3>3, <3>4
      <3> QED BY <3>5
    <2> QED BY <2>1, <2>2 DEF AskVerification
  <1>2. PICK r : Asks(r) BY <1>1
  <1>3. issued \in Nat BY DEF TypeInv, Stored
  <1>4. "askVerify" \in settings.offers BY <1>2 DEF Begin
  <1>5. Sound(r, KnownIn(users), issued, settings.offers)
    BY <1>2, <1>3, <1>4 DEF Sound, WriteStages, LogInStages
  <1>6. Begun(r) BY <1>2 DEF Begun, WriteStages
  <1> QED BY <1>2, <1>5, <1>6, BeginStep

LEMMA AskResetBegins ==
  ASSUME TypeInv, NEW h \in Slots, AskReset(h)
  PROVE \E r : Arrived(h, r)
  <1> DEFINE at == IF settings.reuse /\ TokenLife > 0 THEN "findReset" ELSE "setReset"
  <1>1. PICK e \in Emails : Begin(h, "askReset", [Idle EXCEPT !.st = at, !.email = e])
    BY DEF AskReset
  <1>2. at \in {"findReset", "setReset"} OBVIOUS
  <1> HIDE DEF at
  <1> DEFINE r == [Idle EXCEPT !.st = at, !.email = e]
  <1>3. issued \in Nat /\ at \in AllStages BY <1>2 DEF TypeInv, Stored, AllStages, OtherStages
  <1>4. r \in ReqType /\ r.st = at /\ r.user = None /\ r.token = 0
    BY <1>3, IdleFields DEF ReqType
  <1>5. Begin(h, "askReset", r) BY <1>1
  <1> HIDE DEF r
  <1>6. Sound(r, KnownIn(users), issued, settings.offers)
    BY <1>2, <1>3, <1>4 DEF Sound, WriteStages, LogInStages
  <1>7. Begun(r) BY <1>2, <1>4 DEF Begun, WriteStages
  <1> QED BY <1>4, <1>5, <1>6, <1>7, BeginStep

LEMMA ArrivesBegins ==
  ASSUME TypeInv, NEW h \in Slots, Arrives(h)
  PROVE \E r : Arrived(h, r)
  BY SignUpBegins, SignInWithBegins, UpdateBegins, UpgradeBegins, LogOutBegins, LogInBegins,
     FollowLinkBegins, AskVerificationBegins, AskResetBegins, ResetPasswordBegins DEF Arrives

-----------------------------------------------------------------------------
LEMMA KnownIsKnown == Known = KnownIn(users)
  BY DEF Known, KnownIn

LEMMA ReqTypes ==
  ASSUME TypeInv, NEW h \in Slots
  PROVE /\ req[h] \in ReqType /\ Sound(req[h], KnownIn(users), issued, settings.offers)
        /\ issued \in Nat /\ now \in Nat /\ now > 0
        /\ req[h].user # None => req[h].user \in KnownIn(users) /\ req[h].user \in Users
  <1>1. req[h] \in ReqType /\ Sound(req[h], KnownIn(users), issued, settings.offers)
    BY DEF TypeInv, Reqs
  <1>2. issued \in Nat /\ now \in Nat /\ now > 0 BY DEF TypeInv, Stored, Set
  <1>3. req[h].user \in KnownIn(users) \cup {None} BY <1>1 DEF Sound
  <1> QED BY <1>1, <1>2, <1>3 DEF KnownIn

LEMMA ArrivesTypes ==
  ASSUME TypeInv, NEW h \in Slots, Arrives(h)
  PROVE TypeInv'
  <1>1. PICK r : Arrived(h, r) BY ArrivesBegins
  <1> QED BY <1>1, ReadStep DEF Arrived, histories

LEMMA NextStep ==
  ASSUME TypeInv, NEW h \in Slots, req[h].st \in {"auth", "policy", "name", "past"},
         Read(h, NextStage(req[h]))
  PROVE TypeInv'
  <1>1. /\ NextStage(req[h]) \in ReqType
        /\ Sound(NextStage(req[h]), KnownIn(users), issued, settings.offers)
    BY ReqTypes, NextIsSound
  <1> QED BY <1>1, ReadStep DEF Read, histories

\* Who signs in with a provider goes on to a session of its own user.
SignedIn(r, u, p) == [r EXCEPT !.user = u, !.pw = p, !.st = "session"]

LEMMA SignedInType ==
  ASSUME NEW r \in ReqType, NEW u \in Users, NEW p \in Passwords \cup {None}
  PROVE LET s == SignedIn(r, u, p)
        IN s \in ReqType /\ s.st = "session" /\ s.user = u /\ s.pw = p /\ s.token = r.token
  <1>1. "session" \in AllStages BY DEF AllStages, OtherStages
  <1>2. SignedIn(r, u, p) \in ReqType BY <1>1 DEF ReqType, SignedIn
  <1> QED BY <1>2 DEF ReqType, SignedIn

LEMMA SignsIn ==
  ASSUME TypeInv, NEW h \in Slots, req[h].st = "auth", NEW u \in KnownIn(users)
  PROVE LET s == SignedIn(req[h], u, users[u].pw)
        IN /\ s \in ReqType /\ Sound(s, KnownIn(users), issued, settings.offers)
           /\ s.st = "session" /\ s.token = 0 /\ s.user = u /\ s.pw = users[u].pw
  <1> DEFINE r == req[h]
             p == users[u].pw
             s == SignedIn(r, u, p)
  <1>1. r \in ReqType /\ Sound(r, KnownIn(users), issued, settings.offers) /\ issued \in Nat
    BY ReqTypes
  <1>2. u \in Users /\ u # None /\ p \in Passwords \cup {None}
    BY RowTypes DEF RowType
  <1>3. r.st = "auth" OBVIOUS
  <1> HIDE DEF r, p
  <1>4. r.token = 0 BY <1>1, <1>3 DEF Sound, WriteStages, ReqType
  <1>5. s \in ReqType /\ s.st = "session" /\ s.token = 0 /\ s.user = u /\ s.pw = p
    BY <1>1, <1>2, <1>4, SignedInType
  <1> HIDE DEF s
  <1>6. Sound(s, KnownIn(users), issued, settings.offers)
    BY <1>1, <1>2, <1>5 DEF Sound, WriteStages, LogInStages
  <1> QED BY <1>5, <1>6 DEF s, r, p

LEMMA HandleAuthDataTypes ==
  ASSUME TypeInv, NEW h \in Slots, HandleAuthData(h)
  PROVE TypeInv'
  <1> DEFINE r == req[h]
             q(u) == SignedIn(r, u, users[u].pw)
  <1>1. req[h].st = "auth" BY DEF HandleAuthData
  <1>2. \/ Read(h, NextStage(req[h]))
        \/ req[h].user = None /\ \E u \in KnownIn(users) : Read(h, q(u))
        \/ Refuse(h)
    BY KnownIsKnown DEF HandleAuthData, SignedIn
  <1>3. CASE Read(h, NextStage(req[h])) BY <1>1, <1>3, NextStep
  <1>4. CASE req[h].user = None /\ \E u \in KnownIn(users) : Read(h, q(u))
    <2>1. PICK u \in KnownIn(users) : Read(h, q(u)) BY <1>4
    <2>2. q(u) \in ReqType /\ Sound(q(u), KnownIn(users), issued, settings.offers)
      BY <1>1, <1>4, SignsIn
    <2> HIDE DEF q
    <2> QED BY <2>1, <2>2, ReadStep DEF Read, histories
  <1>5. CASE Refuse(h) BY <1>5, RefuseStep
  <1> QED BY <1>2, <1>3, <1>4, <1>5

LEMMA ChecksTypes ==
  ASSUME TypeInv, NEW h \in Slots, ValidatePasswordHistory(h) \/ ValidateUserName(h)
  PROVE TypeInv'
  <1>1. req[h].st \in {"policy", "name"} /\ (Read(h, NextStage(req[h])) \/ Refuse(h))
    BY DEF ValidatePasswordHistory, ValidateUserName
  <1> QED BY <1>1, NextStep, RefuseStep

LEMMA ValidateEmailTypes ==
  ASSUME TypeInv, NEW h \in Slots, ValidateEmail(h)
  PROVE TypeInv'
  <1>1. CASE Refuse(h) BY <1>1, RefuseStep
  <1>2. CASE ~Refuse(h)
    <2> DEFINE s == [NextStage(req[h]) EXCEPT !.token = issued + 1]
    <2>1. /\ req[h].st = "email" /\ issued' = issued + 1 /\ Go(h, s)
          /\ UNCHANGED <<settings, now, users, sessions, strays, mailed>>
      BY <1>2 DEF ValidateEmail, histories
    <2>2. s \in ReqType /\ Sound(s, KnownIn(users), issued + 1, settings.offers)
      BY <2>1, ReqTypes, EmailIsSound
    <2> HIDE DEF s
    <2>3. issued \in Nat /\ issued + 1 \in Nat /\ issued <= issued + 1
      BY ReqTypes
    <2>4. Reqs(req, KnownIn(users), issued + 1, settings.offers)
      BY <2>3, ReqsGrow DEF TypeInv
    <2>5. Reqs(req', KnownIn(users), issued + 1, settings.offers)
      BY <2>1, <2>2, <2>4, OneGoes DEF Go
    <2>6. Stored(users, sessions, strays, mailed, issued + 1)
      BY <2>3, StoredGrows DEF TypeInv
    <2> QED BY <2>1, <2>5, <2>6 DEF TypeInv, Set
  <1> QED BY <1>1, <1>2

-----------------------------------------------------------------------------
\* What is kept of a history: the end of its first entries, and the present password.
LEMMA TakeIs ==
  ASSUME NEW S, NEW s \in Seq(S), NEW n \in Nat
  PROVE LET L == IF n <= Len(s) THEN n ELSE Len(s)
        IN Take(s, n) \in Seq(S) /\ Len(Take(s, n)) = L /\ \A i \in 1..L : Take(s, n)[i] = s[i]
  <1> DEFINE L == IF n <= Len(s) THEN n ELSE Len(s)
  <1>1. Len(s) \in Nat /\ L \in 0..Len(s) OBVIOUS
  <1>2. Min({n, Len(s)}) = L BY <1>1, MinOfTwo
  <1>3. Take(s, n) = SubSeq(s, 1, L) BY <1>2 DEF Take
  <1> HIDE DEF L
  <1>4. SubSeq(s, 1, L) \in Seq(S) /\ Len(SubSeq(s, 1, L)) = L /\ \A i \in 1..L : SubSeq(s, 1, L)[i] = s[i]
    BY <1>1
  <1> QED BY <1>3, <1>4 DEF L

\* How many passwords of a history of length n stay, besides the present one.
Kept(n) ==
  LET short == IF History <= n THEN History ELSE n
      wanted == IF History <= 2 THEN 0 ELSE History - 2
  IN IF short <= wanted THEN short ELSE wanted

LEMMA KeptBounds ==
  ASSUME NEW n \in Nat
  PROVE Kept(n) \in Nat /\ Kept(n) <= n /\ Kept(n) <= History
        /\ (History >= 2 => Kept(n) <= History - 2) /\ (History <= 2 => Kept(n) = 0)
        /\ (n <= History => n - Kept(n) + Kept(n) = n)
        /\ (n <= History - 2 => Kept(n) = n)
        /\ (n >= History - 2 /\ History >= 2 => Kept(n) = History - 2)
  <1>1. History \in Nat BY AccountConstants
  <1> QED BY <1>1 DEF Kept

LEMMA KeptIs ==
  ASSUME NEW row \in RowType
  PROVE LET k == KeptPasswords(row)
            L == IF History <= Len(row.past) THEN History ELSE Len(row.past)
            n == Kept(Len(row.past))
        IN /\ k \in Seq(Passwords \cup {None}) /\ k # <<>> /\ Len(k) = n + 1
           /\ \A i \in 1..n : k[i] = row.past[L - n + i]
           /\ k[n + 1] = row.pw
  <1> DEFINE S == Passwords \cup {None}
             past == row.past
             pw == row.pw
             L == IF History <= Len(past) THEN History ELSE Len(past)
             n == Kept(Len(past))
             old == Take(past, History)
             part == SubSeq(old, L - n + 1, L)
  <1>1. past \in Seq(S) /\ pw \in S BY DEF RowType
  <1>2. History \in Nat BY AccountConstants
  <1> HIDE DEF past, pw, S
  <1>3. Len(past) \in Nat BY <1>1
  <1>4. /\ n \in Nat /\ n <= Len(past) /\ n <= History /\ L \in Nat /\ n <= L /\ L - n + 1 \in 1..(L + 1)
        /\ Len(past) \in Nat
    <2> DEFINE len == Len(past)
    <2>1. len \in Nat BY <1>3
    <2> HIDE DEF len
    <2>2. Kept(len) \in Nat /\ Kept(len) <= len /\ Kept(len) <= History BY <2>1, KeptBounds
    <2>3. n = Kept(len) /\ L = IF History <= len THEN History ELSE len BY DEF len
    <2> HIDE DEF n, L
    <2>4. /\ n \in Nat /\ n <= len /\ n <= History /\ L \in Nat /\ n <= L /\ L - n + 1 \in 1..(L + 1)
      BY <1>2, <2>1, <2>2, <2>3
    <2> QED BY <1>3, <2>4 DEF len
  <1>5. old \in Seq(S) /\ Len(old) = L /\ \A i \in 1..L : old[i] = past[i]
    BY <1>1, <1>2, TakeIs
  <1>6. Min({Len(old), Max({0, History - 2})}) = n
    <2>1. Max({0, History - 2}) = IF History <= 2 THEN 0 ELSE History - 2
      <3>1. 0 \in Int /\ History - 2 \in Int BY <1>2
      <3>2. Max({0, History - 2}) = IF 0 <= History - 2 THEN History - 2 ELSE 0
        BY <3>1, MaxOfTwo
      <3> QED BY <1>2, <3>2
    <2> DEFINE w == IF History <= 2 THEN 0 ELSE History - 2
    <2>2. w \in Int /\ L \in Int BY <1>2, <1>4
    <2> HIDE DEF w, L
    <2>3. Min({L, w}) = IF L <= w THEN L ELSE w BY <2>2, MinOfTwo
    <2> QED BY <1>5, <2>1, <2>3 DEF Kept, w, L
  <1> HIDE DEF n, L, old
  <1>7. part \in Seq(S) /\ Len(part) = n /\ \A i \in 1..n : part[i] = old[L - n + i]
    <2>1. \A i \in (L - n + 1)..L : old[i] \in S BY <1>4, <1>5
    <2>2. L - n + 1 \in Int /\ L \in Int BY <1>4
    <2>3. /\ part \in Seq(S)
          /\ Len(part) = IF L - n + 1 <= L THEN L - (L - n + 1) + 1 ELSE 0
          /\ \A i \in 1..(L - (L - n + 1) + 1) : part[i] = old[L - n + 1 + i - 1]
      BY <2>1, <2>2, SubSeqProperties
    <2>4. L - (L - n + 1) + 1 = n /\ (n = 0 => ~(L - n + 1 <= L)) /\ (n > 0 => L - n + 1 <= L)
      BY <1>4
    <2>5. \A i \in 1..n : L - n + 1 + i - 1 = L - n + i BY <1>4
    <2> QED BY <1>4, <2>3, <2>4, <2>5
  <1>8. KeptPasswords(row) = part \o <<pw>>
    BY <1>5, <1>6 DEF KeptPasswords, old, past, pw
  <1> HIDE DEF part
  <1>9. <<pw>> \in Seq(S) /\ Len(<<pw>>) = 1 /\ <<pw>>[1] = pw BY <1>1
  <1> DEFINE k == part \o <<pw>>
  <1>10. k \in Seq(S) /\ Len(k) = n + 1 /\ (\A i \in 1..n : k[i] = part[i]) /\ k[n + 1] = pw
    BY <1>4, <1>7, <1>9
  <1>11. k # <<>> BY <1>4, <1>10
  <1>12. \A i \in 1..n : L - n + i \in 1..L BY <1>4
  <1>13. \A i \in 1..n : k[i] = past[L - n + i]
    BY <1>5, <1>7, <1>10, <1>12
  <1> HIDE DEF k
  <1> QED BY <1>8, <1>10, <1>11, <1>13 DEF k, L, n, past, pw, S

-----------------------------------------------------------------------------
\* A request that goes on to another stage, or gets one of its fields.
At(r, st) == [r EXCEPT !.st = st]
Owned(r, u) == [r EXCEPT !.user = u]
WithPast(r, past) == [r EXCEPT !.past = past]

LEMMA AtType ==
  ASSUME NEW r \in ReqType, NEW st \in AllStages
  PROVE At(r, st) \in ReqType /\ At(r, st).st = st /\ Keeps(At(r, st), r)
  <1>1. At(r, st) \in ReqType BY DEF ReqType, At
  <1>2. At(r, st).st = st BY DEF ReqType, At
  <1>3. Keeps(At(r, st), r) BY DEF ReqType, At, Keeps
  <1> QED BY <1>1, <1>2, <1>3

LEMMA OwnedType ==
  ASSUME NEW r \in ReqType, NEW u \in Users
  PROVE /\ Owned(r, u) \in ReqType /\ Owned(r, u).user = u /\ Owned(r, u).st = r.st
        /\ Owned(r, u).name = r.name /\ Owned(r, u).email = r.email /\ Owned(r, u).token = r.token
        /\ Owned(r, u).pw = r.pw /\ Owned(r, u).own = r.own /\ Owned(r, u).inst = r.inst
  <1>1. Owned(r, u) \in ReqType BY DEF ReqType, Owned
  <1> QED BY <1>1 DEF ReqType, Owned

LEMMA WithPastType ==
  ASSUME NEW r \in ReqType, NEW past \in Seq(Passwords \cup {None})
  PROVE /\ WithPast(r, past) \in ReqType /\ WithPast(r, past).past = past
        /\ WithPast(r, past).user = r.user /\ WithPast(r, past).st = r.st
        /\ WithPast(r, past).name = r.name /\ WithPast(r, past).email = r.email
        /\ WithPast(r, past).token = r.token /\ WithPast(r, past).row = r.row
        /\ WithPast(r, past).pw = r.pw /\ WithPast(r, past).auth = r.auth
  <1>1. WithPast(r, past) \in ReqType BY DEF ReqType, WithPast
  <1> QED BY <1>1 DEF ReqType, WithPast

LEMMA StagesAre ==
  /\ {"session", "insert", "clear", "mail", "confirm", "renew", "setReset"} \subseteq AllStages
  /\ LogInStages \subseteq AllStages /\ WriteStages \subseteq AllStages
  BY DEF AllStages, OtherStages

\* Having written, a request that knows its user sees to sessions and mail.
Settled(r, known, count, offers) ==
  /\ r \in ReqType /\ r.user \in known /\ r.user # None /\ r.token <= count
  /\ r.token # 0 /\ r.email = None => r.name # None /\ "askVerify" \in offers

LEMMA SendMailIs ==
  ASSUME NEW r, NEW known, NEW count \in Nat, NEW offers, r \in ReqType, r.user \in known \cup {None},
         r.token <= count, r.token # 0 /\ r.email = None => r.name # None /\ "askVerify" \in offers
  PROVE /\ SendMail(r) \in ReqType /\ Sound(SendMail(r), known, count, offers)
        /\ r.token = 0 => SendMail(r) = Idle
        /\ r.token # 0 => SendMail(r).st = "mail" /\ Keeps(SendMail(r), r)
  <1>1. CASE r.token = 0
    <2>1. SendMail(r) = Idle BY <1>1 DEF SendMail
    <2>2. Idle \in ReqType /\ Sound(Idle, known, count, offers) BY IdleIsSound
    <2> QED BY <1>1, <2>1, <2>2
  <1>2. CASE r.token # 0
    <2> DEFINE s == At(r, "mail")
    <2>1. SendMail(r) = s BY <1>2 DEF SendMail, At
    <2>2. s \in ReqType /\ s.st = "mail" /\ Keeps(s, r) BY AtType, StagesAre
    <2> HIDE DEF s
    <2>3. s.user = r.user /\ s.token = r.token /\ s.email = r.email /\ s.name = r.name
      BY <2>2 DEF Keeps
    <2>4. Sound(s, known, count, offers)
      BY <1>2, <2>2, <2>3 DEF Sound, WriteStages, LogInStages
    <2> QED BY <1>2, <2>1, <2>2, <2>4
  <1> QED BY <1>1, <1>2

LEMMA SessionIs ==
  ASSUME NEW r, NEW known, NEW count \in Nat, NEW offers, r \in ReqType,
         r.user \in known, r.user # None, r.token <= count, r.token # 0 => r.email # None,
         NEW st \in {"session", "clear"}
  PROVE At(r, st) \in ReqType /\ Sound(At(r, st), known, count, offers)
        /\ At(r, st).st = st /\ Keeps(At(r, st), r)
  <1> DEFINE s == At(r, st)
  <1>1. st \in AllStages BY StagesAre
  <1>2. s \in ReqType /\ s.st = st /\ Keeps(s, r) BY <1>1, AtType
  <1> HIDE DEF s
  <1>3. s.user = r.user /\ s.token = r.token /\ s.email = r.email /\ s.name = r.name
    BY <1>2 DEF Keeps
  <1>4. Sound(s, known, count, offers)
    BY <1>2, <1>3 DEF Sound, WriteStages, LogInStages
  <1> QED BY <1>2, <1>4 DEF s

LEMMA FollowUpIs ==
  ASSUME NEW r, NEW known, NEW count \in Nat, r \in ReqType, NEW created \in BOOLEAN,
         r.user \in known, r.user # None, r.token <= count, r.token # 0 => r.email # None
  PROVE LET f == FollowUp(r, created)
        IN /\ f \in ReqType /\ Sound(f, known, count, settings.offers)
           /\ f = Idle \/ (f.st \in {"session", "clear", "mail"} /\ Keeps(f, r))
           /\ f.st = "session" => created
           /\ f.st = "mail" => r.token # 0
           /\ ~created => (f.st = "clear" <=> r.pw # None)
  <1>1. /\ SendMail(r) \in ReqType /\ Sound(SendMail(r), known, count, settings.offers)
        /\ SendMail(r) = Idle \/ (SendMail(r).st = "mail" /\ Keeps(SendMail(r), r) /\ r.token # 0)
    BY SendMailIs
  <1>2. ASSUME NEW st \in {"session", "clear"}
        PROVE /\ At(r, st) \in ReqType /\ Sound(At(r, st), known, count, settings.offers)
              /\ At(r, st).st = st /\ Keeps(At(r, st), r)
    BY SessionIs
  <1>3. Idle.st = "idle" BY IdleFields
  <1>4. CASE created
    <2>1. CASE settings.prevent
      <3>1. FollowUp(r, created) = SendMail(r) BY <1>4, <2>1 DEF FollowUp
      <3> QED BY <1>1, <1>3, <1>4, <3>1
    <2>2. CASE ~settings.prevent
      <3>1. FollowUp(r, created) = At(r, "session") BY <1>4, <2>2 DEF FollowUp, At
      <3> QED BY <1>2, <1>4, <3>1
    <2> QED BY <2>1, <2>2
  <1>5. CASE ~created
    <2>1. CASE r.pw # None
      <3>1. FollowUp(r, created) = At(r, "clear") BY <1>5, <2>1 DEF FollowUp, At
      <3> QED BY <1>2, <1>5, <2>1, <3>1
    <2>2. CASE r.pw = None
      <3>1. FollowUp(r, created) = SendMail(r) BY <1>5, <2>2 DEF FollowUp
      <3> QED BY <1>1, <1>3, <1>5, <2>2, <3>1
    <2> QED BY <2>1, <2>2
  <1> QED BY <1>4, <1>5

-----------------------------------------------------------------------------
LEMMA NewUserType == NewUser \in RowType
  <1>1. <<>> \in Seq(Passwords \cup {None}) OBVIOUS
  <1> QED BY <1>1 DEF NewUser, RowType

\* What a write puts into each field.
Fields(w, row, r) ==
  /\ w.name = (IF r.name = None THEN row.name ELSE r.name)
  /\ w.email = (IF r.email = None THEN row.email ELSE r.email)
  /\ w.pw = (IF r.pw = None THEN row.pw ELSE r.pw)
  /\ w.auth = (IF r.auth = None THEN row.auth ELSE r.auth)
  /\ w.verified <=> (row.verified /\ r.token = 0)
  /\ w.vtoken = (IF r.token = 0 THEN row.vtoken ELSE r.token)
  /\ w.failed = row.failed /\ w.locked = row.locked
  /\ w.past = (IF r.past = <<>> THEN row.past ELSE r.past)

LEMMA WrittenType ==
  ASSUME TypeInv, NEW row \in RowType, NEW r \in ReqType
  PROVE Written(row, r) \in RowType /\ Fields(Written(row, r), row, r)
  <1> DEFINE v1 == IF r.name = None THEN row.name ELSE r.name
             v2 == IF r.email = None THEN row.email ELSE r.email
             v3 == IF r.pw = None THEN row.pw ELSE r.pw
             v4 == IF r.auth = None THEN row.auth ELSE r.auth
             v5 == row.verified /\ r.token = 0
             v6 == IF r.token = 0 THEN row.vtoken ELSE r.token
             v7 == IF r.token = 0 THEN row.vexpires ELSE now + TokenLife
             v8 == IF r.pw # None \/ r.email # None THEN 0 ELSE row.rtoken
             v9 == IF r.pw # None \/ r.email # None THEN 0 ELSE row.rexpires
             v10 == IF r.pw # None /\ PasswordAge > 0 THEN now ELSE row.changed
             v11 == IF r.past = <<>> THEN row.past ELSE r.past
             w == [row EXCEPT !.name = v1, !.email = v2, !.pw = v3, !.auth = v4, !.verified = v5,
                              !.vtoken = v6, !.vexpires = v7, !.rtoken = v8, !.rexpires = v9,
                              !.changed = v10, !.past = v11]
  <1>1. Written(row, r) = w BY DEF Written
  <1>2. now \in Nat /\ now + TokenLife \in Nat
    BY AccountConstants DEF TypeInv, Set
  <1>3. v1 \in Names \cup {None} /\ v2 \in Emails \cup {None} /\ v3 \in Passwords \cup {None}
        /\ v4 \in AuthIds \cup {None}
    BY DEF RowType, ReqType
  <1>4. v6 \in Nat /\ v7 \in Nat /\ v8 \in Nat /\ v9 \in Nat /\ v10 \in Nat
    BY <1>2 DEF RowType, ReqType
  <1>5. v11 \in Seq(Passwords \cup {None}) BY DEF RowType, ReqType
  <1>6. v5 \in BOOLEAN
    <2>1. row.verified \in BOOLEAN BY DEF RowType
    <2> QED BY <2>1
  <1>7. v1 = v1 /\ v2 = v2 /\ v3 = v3 /\ v4 = v4 /\ (v5 <=> v5) /\ v6 = v6 /\ v11 = v11 OBVIOUS
  <1> HIDE DEF v1, v2, v3, v4, v5, v6, v7, v8, v9, v10, v11
  <1>8. w \in RowType BY <1>3, <1>4, <1>5, <1>6, ZenonT(60) DEF RowType
  <1>9. /\ w.name = v1 /\ w.email = v2 /\ w.pw = v3 /\ w.auth = v4 /\ w.vtoken = v6
        /\ w.failed = row.failed /\ w.locked = row.locked /\ w.past = v11
    BY DEF RowType
  <1>10. w.verified = v5 BY DEF RowType
  <1> HIDE DEF w
  <1>11. Fields(w, row, r)
    <2>1. w.verified <=> v5 BY <1>10
    <2>2. w.verified <=> (row.verified /\ r.token = 0) BY <2>1 DEF v5
    <2> QED BY <1>9, <2>2 DEF Fields, v1, v2, v3, v4, v6, v11
  <1> QED BY <1>1, <1>8, <1>11

\* A write that is not refused: user u gets the row, the request goes on as f.
Before(h) == IF req[h].user # None THEN users[req[h].user] ELSE NewUser
Stores(h, u, f) ==
  /\ req[h].st = "store" /\ u \in Users
  /\ req[h].user # None => u = req[h].user /\ u \in KnownIn(users)
  /\ req[h].user = None => u \notin KnownIn(users)
  /\ Written(Before(h), req[h]) \in RowType
  /\ ~Duplicate(u, Written(Before(h), req[h]))
  /\ users' = [users EXCEPT ![u] = Written(Before(h), req[h])]
  /\ f = FollowUp(Owned(req[h], u), req[h].user = None) /\ Go(h, f)
  /\ worn' = IF req[h].pw = None THEN worn ELSE [worn EXCEPT ![u] = Append(@, req[h].pw)]
  /\ UNCHANGED <<settings, now, sessions, strays, issued, served, mailed, presented>>

LEMMA StoreIs ==
  ASSUME TypeInv, NEW h \in Slots, RunDatabaseOperation(h)
  PROVE Refuse(h) \/ \E u, f : Stores(h, u, f)
  <1> DEFINE r == req[h]
             u == IF r.user # None THEN r.user ELSE CHOOSE v \in Users : v \notin Known
             row == Written(Before(h), r)
             f == FollowUp(Owned(r, u), r.user = None)
  <1>1. /\ r.st = "store" /\ (r.user = None => Known # Users)
        /\ \/ Refuse(h)
           \/ /\ ~Duplicate(u, row) /\ users' = [users EXCEPT ![u] = row] /\ Go(h, f)
              /\ worn' = IF r.pw = None THEN worn ELSE [worn EXCEPT ![u] = Append(@, r.pw)]
              /\ UNCHANGED <<settings, now, sessions, strays, issued, served, mailed, presented>>
    <2>1. row = Written(IF r.user # None THEN users[u] ELSE NewUser, r)
      BY DEF Before
    <2> HIDE DEF row
    <2> QED BY <2>1 DEF RunDatabaseOperation, Owned
  <1>2. r.user # None => u = r.user /\ u \in KnownIn(users) /\ u \in Users BY ReqTypes
  <1>3. r.user = None => u \notin KnownIn(users) /\ u \in Users
    BY <1>1, KnownIsKnown DEF Known
  <1>4. Before(h) \in RowType BY ReqTypes, RowTypes, NewUserType DEF Before
  <1>5. row \in RowType BY <1>4, ReqTypes, WrittenType
  <1> HIDE DEF u
  <1>6. CASE ~Refuse(h)
    <2>1. Stores(h, u, f)
      BY <1>1, <1>2, <1>3, <1>5, <1>6 DEF Stores
    <2> QED BY <2>1
  <1> QED BY <1>6

LEMMA StoresTypes ==
  ASSUME TypeInv, NEW h \in Slots, NEW u, NEW f, Stores(h, u, f)
  PROVE TypeInv' /\ KnownIn(users') = KnownIn(users) \cup {u} /\ u # None /\ f \in ReqType
        /\ Fields(Written(Before(h), req[h]), Before(h), req[h]) /\ Before(h) \in RowType
        /\ Sound(f, KnownIn(users) \cup {u}, issued, settings.offers)
  <1> DEFINE r == req[h]
             o == Owned(r, u)
             known == KnownIn(users) \cup {u}
  <1>1. r \in ReqType /\ Sound(r, KnownIn(users), issued, settings.offers) /\ issued \in Nat BY ReqTypes
  <1>2. r.st = "store" /\ u \in Users BY DEF Stores
  <1>3. u # None BY <1>2, AccountConstants
  <1>4. /\ o \in ReqType /\ o.user = u /\ o.email = r.email /\ o.token = r.token
    BY <1>1, <1>2, OwnedType
  <1>5. r.token <= issued /\ (r.token # 0 => r.email # None)
    BY <1>1, <1>2 DEF Sound, WriteStages
  <1>6. f = FollowUp(o, r.user = None) /\ Go(h, f) BY DEF Stores
  <1>7. u \in known OBVIOUS
  <1>8. (r.user = None) \in BOOLEAN OBVIOUS
  <1> HIDE DEF r, o, known
  <1>9. f \in ReqType /\ Sound(f, known, issued, settings.offers)
    BY <1>1, <1>3, <1>4, <1>5, <1>6, <1>7, <1>8, FollowUpIs
  <1> DEFINE row == Written(Before(h), req[h])
  <1>10. row \in RowType /\ users' = [users EXCEPT ![u] = row]
         /\ UNCHANGED <<settings, now, sessions, strays, mailed, issued>>
    BY DEF Stores
  <1>13. Before(h) \in RowType BY ReqTypes, RowTypes, NewUserType DEF Before
  <1>14. Fields(row, Before(h), r) BY <1>1, <1>13, WrittenType DEF r
  <1> HIDE DEF row
  <1>15. Covers(issued, row)
    <2>1. Before(h).vtoken <= issued
      BY <1>1, ReqTypes, KnownIsKnown DEF Before, NewUser, TypeInv, Stored, Covers
    <2> QED BY <1>5, <1>14, <2>1 DEF Fields, Covers
  <1>11. TypeInv'
    BY <1>2, <1>6, <1>9, <1>10, <1>15, WriteStep DEF known
  <1>12. KnownIn(users') = known
    <2>1. Stored(users, sessions, strays, mailed, issued) BY DEF TypeInv
    <2>2. u \in Users /\ row \in RowType BY <1>2, <1>10
    <2>3. KnownIn([users EXCEPT ![u] = row]) = KnownIn(users) \cup {u}
      BY <1>15, <2>1, <2>2, RowIsNew
    <2> QED BY <1>10, <2>3 DEF known
  <1> QED BY <1>3, <1>9, <1>11, <1>12, <1>13, <1>14 DEF known, row, r

LEMMA CollectHistoryIs ==
  ASSUME TypeInv, NEW h \in Slots, CollectHistory(h)
  PROVE LET p == KeptPasswords(users[req[h].user])
            s == WithPast(NextStage(req[h]), p)
        IN /\ req[h].st = "past" /\ Read(h, s) /\ s \in ReqType /\ s.st = "store"
           /\ s.past = p /\ s.user = req[h].user /\ s.name = req[h].name /\ s.email = req[h].email
           /\ s.token = req[h].token /\ s.pw = req[h].pw /\ s.auth = req[h].auth
           /\ Sound(s, KnownIn(users), issued, settings.offers)
           /\ req[h].user \in KnownIn(users)
  <1> DEFINE r == req[h]
             t == NextStage(r)
             p == KeptPasswords(users[r.user])
             s == WithPast(t, p)
  <1>1. r.st = "past" /\ Read(h, s) BY DEF CollectHistory, WithPast
  <1>2. r \in ReqType /\ Sound(r, KnownIn(users), issued, settings.offers) /\ issued \in Nat BY ReqTypes
  <1>3. r.user # None BY <1>1, <1>2 DEF Sound
  <1>4. users[r.user] \in RowType /\ r.user \in KnownIn(users) BY <1>3, ReqTypes, RowTypes
  <1>5. p \in Seq(Passwords \cup {None}) BY <1>4, KeptIs
  <1>6. t \in ReqType /\ Sound(t, KnownIn(users), issued, settings.offers)
    BY <1>1, <1>2, NextIsSound
  <1>7. Reaches(r, t, 6) BY <1>1, <1>2, NextReaches
  <1> HIDE DEF r, t, p
  <1>8. t = [r EXCEPT !.st = t.st] /\ t.st = "store" BY <1>7 DEF Reaches, WriteStages
  <1>9. t.user = r.user /\ t.name = r.name /\ t.email = r.email /\ t.token = r.token /\ t.pw = r.pw
        /\ t.auth = r.auth
    BY <1>2, <1>8 DEF ReqType
  <1>10. /\ s \in ReqType /\ s.past = p /\ s.user = t.user /\ s.st = "store" /\ s.name = t.name
         /\ s.email = t.email /\ s.token = t.token /\ s.row = t.row /\ s.pw = t.pw /\ s.auth = t.auth
    BY <1>5, <1>6, <1>8, WithPastType
  <1> HIDE DEF s
  <1>11. Sound(s, KnownIn(users), issued, settings.offers)
    BY <1>6, <1>8, <1>10 DEF Sound, WriteStages, LogInStages
  <1> QED BY <1>1, <1>4, <1>9, <1>10, <1>11 DEF s, t, p, r

-----------------------------------------------------------------------------
LEMMA MoveStep ==
  ASSUME TypeInv, NEW h \in Slots, NEW r \in ReqType,
         Sound(r, KnownIn(users), issued, settings.offers), Go(h, r),
         Stored(users, sessions', strays', mailed', issued),
         UNCHANGED <<settings, now, users, issued>>
  PROVE TypeInv'
  <1>1. Reqs(req', KnownIn(users), issued, settings.offers)
    BY OneGoes DEF TypeInv, Go
  <1> QED BY <1>1 DEF TypeInv, Set

\* The request that sees to the sessions of its user.
LEMMA SessionStages ==
  ASSUME TypeInv, NEW h \in Slots, req[h].st \in {"clear", "session", "insert"}
  PROVE /\ req[h] \in ReqType /\ req[h].user \in KnownIn(users) /\ req[h].user # None
        /\ req[h].token <= issued /\ (req[h].token # 0 => req[h].email # None) /\ issued \in Nat
        /\ req[h].st = "insert" => req[h].session \in 1..issued
  <1>1. /\ req[h] \in ReqType /\ Sound(req[h], KnownIn(users), issued, settings.offers) /\ issued \in Nat
    BY ReqTypes
  <1>2. req[h].user # None BY <1>1 DEF Sound
  <1> QED BY <1>1, <1>2 DEF Sound

LEMMA ClearSessionsIs ==
  ASSUME TypeInv, NEW h \in Slots, ClearSessions(h)
  PROVE \E f : /\ Go(h, f) /\ f \in ReqType /\ Sound(f, KnownIn(users), issued, settings.offers)
               /\ f = Idle \/ (f.st \in {"session", "mail"} /\ Keeps(f, req[h]))
               /\ f.st = "mail" => f.token # 0
  <1> DEFINE r == req[h]
  <1>1. r.st = "clear" /\ Go(h, IF r.own THEN At(r, "session") ELSE SendMail(r))
    BY DEF ClearSessions, At
  <1>2. /\ r \in ReqType /\ r.user \in KnownIn(users) /\ r.user # None /\ issued \in Nat
        /\ r.token <= issued /\ (r.token # 0 => r.email # None)
    BY <1>1, SessionStages
  <1> HIDE DEF r
  <1>3. /\ SendMail(r) \in ReqType /\ Sound(SendMail(r), KnownIn(users), issued, settings.offers)
        /\ SendMail(r) = Idle \/ (SendMail(r).st = "mail" /\ Keeps(SendMail(r), r) /\ r.token # 0)
    BY <1>2, SendMailIs
  <1>4. /\ At(r, "session") \in ReqType /\ Sound(At(r, "session"), KnownIn(users), issued, settings.offers)
        /\ At(r, "session").st = "session" /\ Keeps(At(r, "session"), r)
    BY <1>2, SessionIs
  <1>5. Idle.st = "idle" BY IdleFields
  <1>6. SendMail(r).st = "mail" => SendMail(r).token # 0
    BY <1>3, <1>5 DEF Keeps
  <1>7. CASE r.own BY <1>1, <1>4, <1>7 DEF r
  <1>8. CASE ~r.own BY <1>1, <1>3, <1>6, <1>8 DEF r
  <1> QED BY <1>7, <1>8

LEMMA ClearSessionsTypes ==
  ASSUME TypeInv, NEW h \in Slots, ClearSessions(h)
  PROVE TypeInv'
  <1>1. PICK f : Go(h, f) /\ f \in ReqType /\ Sound(f, KnownIn(users), issued, settings.offers)
    BY ClearSessionsIs
  <1>2. /\ sessions' \subseteq sessions
        /\ UNCHANGED <<settings, now, users, strays, mailed, issued>>
    BY DEF ClearSessions, histories
  <1>3. Stored(users, sessions', strays', mailed', issued)
    BY <1>2 DEF TypeInv, Stored
  <1> QED BY <1>1, <1>2, <1>3, MoveStep

LEMMA DestroyIs ==
  ASSUME TypeInv, NEW h \in Slots, DestroyDuplicatedSessions(h)
  PROVE \E f : /\ Go(h, f) /\ f \in ReqType /\ Sound(f, KnownIn(users), issued + 1, settings.offers)
               /\ f.st = "insert" /\ f.session = issued + 1
               /\ f.user = req[h].user /\ f.name = req[h].name /\ f.email = req[h].email
               /\ f.token = req[h].token /\ f.pw = req[h].pw /\ f.inst = req[h].inst
  <1> DEFINE r == req[h]
             f == [r EXCEPT !.st = "insert", !.session = issued + 1]
  <1>1. r.st = "session" /\ Go(h, f) BY DEF DestroyDuplicatedSessions
  <1>2. /\ r \in ReqType /\ r.user \in KnownIn(users) /\ r.user # None /\ issued \in Nat
        /\ r.token <= issued /\ (r.token # 0 => r.email # None)
    BY <1>1, SessionStages
  <1> HIDE DEF r
  <1>3. issued + 1 \in Nat /\ "insert" \in AllStages BY <1>2, StagesAre
  <1>4. f \in ReqType BY <1>2, <1>3 DEF ReqType
  <1>5. /\ f.st = "insert" /\ f.session = issued + 1 /\ f.user = r.user /\ f.name = r.name
        /\ f.email = r.email /\ f.token = r.token /\ f.pw = r.pw /\ f.inst = r.inst
    BY <1>2 DEF ReqType
  <1> HIDE DEF f
  <1>6. r.token \in Nat BY <1>2 DEF ReqType
  <1>7. f.token <= issued + 1 /\ f.session \in 1..(issued + 1) BY <1>2, <1>5, <1>6
  <1>8. Sound(f, KnownIn(users), issued + 1, settings.offers)
    BY <1>2, <1>5, <1>7 DEF Sound, WriteStages, LogInStages
  <1> QED BY <1>1, <1>4, <1>5, <1>8 DEF r

LEMMA DestroyTypes ==
  ASSUME TypeInv, NEW h \in Slots, DestroyDuplicatedSessions(h)
  PROVE TypeInv'
  <1> DEFINE n == issued + 1
             r == req[h]
  <1>1. PICK f : Go(h, f) /\ f \in ReqType /\ Sound(f, KnownIn(users), n, settings.offers)
    BY DestroyIs
  <1>2. r.st = "session" BY DEF DestroyDuplicatedSessions
  <1>3. r \in ReqType /\ r.user \in KnownIn(users) /\ issued \in Nat BY <1>2, SessionStages
  <1>4. n \in Nat /\ issued <= n /\ n \in 1..n BY <1>3
  <1>5. /\ strays' = IF r.inst = None THEN strays
                     ELSE strays \cup {[user |-> r.user, inst |-> r.inst, keep |-> n]}
        /\ issued' = n
        /\ UNCHANGED <<settings, now, users, sessions, mailed>>
    BY DEF DestroyDuplicatedSessions, histories
  <1> HIDE DEF n, r
  <1>6. Stored(users, sessions, strays, mailed, n) BY <1>3, <1>4, StoredGrows DEF TypeInv
  <1>7. r.inst # None => [user |-> r.user, inst |-> r.inst, keep |-> n] \in StrayType(1..n, KnownIn(users))
    BY <1>3, <1>4 DEF StrayType, ReqType
  <1>8. Stored(users, sessions, strays', mailed, n) BY <1>5, <1>6, <1>7 DEF Stored
  <1>9. Reqs(req, KnownIn(users), n, settings.offers) BY <1>3, <1>4, ReqsGrow DEF TypeInv
  <1>10. Reqs(req', KnownIn(users), n, settings.offers) BY <1>1, <1>9, OneGoes DEF Go
  <1> QED BY <1>5, <1>8, <1>10 DEF TypeInv, Set

LEMMA CreateSessionIs ==
  ASSUME TypeInv, NEW h \in Slots, CreateSession(h)
  PROVE LET f == SendMail(req[h])
        IN /\ Go(h, f) /\ f \in ReqType /\ Sound(f, KnownIn(users), issued, settings.offers)
           /\ f = Idle \/ (f.st = "mail" /\ f.token # 0 /\ Keeps(f, req[h]))
  <1>1. req[h].st = "insert" /\ Go(h, SendMail(req[h])) BY DEF CreateSession
  <1> DEFINE r == req[h]
  <1>2. /\ r \in ReqType /\ r.user \in KnownIn(users) /\ r.user # None /\ issued \in Nat
        /\ r.token <= issued /\ (r.token # 0 => r.email # None)
    BY <1>1, SessionStages
  <1> HIDE DEF r
  <1>3. /\ SendMail(r) \in ReqType /\ Sound(SendMail(r), KnownIn(users), issued, settings.offers)
        /\ SendMail(r) = Idle \/ (SendMail(r).st = "mail" /\ Keeps(SendMail(r), r) /\ r.token # 0)
    BY <1>2, SendMailIs
  <1> QED BY <1>1, <1>3 DEF r, Keeps

LEMMA CreateSessionTypes ==
  ASSUME TypeInv, NEW h \in Slots, CreateSession(h)
  PROVE TypeInv' /\ SessionFor(req[h]) \in SessionType(1..issued, KnownIn(users))
  <1> DEFINE r == req[h]
             f == SendMail(r)
  <1>1. Go(h, f) /\ f \in ReqType /\ Sound(f, KnownIn(users), issued, settings.offers)
    BY CreateSessionIs
  <1>2. r.st = "insert" BY DEF CreateSession
  <1>3. r \in ReqType /\ r.user \in KnownIn(users) /\ r.session \in 1..issued BY <1>2, SessionStages
  <1>4. /\ sessions' = sessions \cup {SessionFor(r)}
        /\ UNCHANGED <<settings, now, users, strays, mailed, issued>>
    BY DEF CreateSession, histories
  <1> HIDE DEF r, f
  <1>5. SessionFor(r) \in SessionType(1..issued, KnownIn(users))
    BY <1>3 DEF SessionFor, SessionType, ReqType
  <1>6. Stored(users, sessions', strays', mailed', issued)
    BY <1>4, <1>5 DEF TypeInv, Stored
  <1>7. TypeInv' BY <1>1, <1>4, <1>6, MoveStep
  <1> QED BY <1>5, <1>7 DEF r

LEMMA DeleteSessionTypes ==
  ASSUME TypeInv, NEW h \in Slots, DeleteSession(h)
  PROVE TypeInv'
  <1>1. /\ sessions' \subseteq sessions /\ Go(h, Idle)
        /\ UNCHANGED <<settings, now, users, strays, mailed, issued>>
    BY DEF DeleteSession, Finish, histories
  <1>2. Stored(users, sessions', strays', mailed', issued)
    BY <1>1 DEF TypeInv, Stored
  <1>3. Idle \in ReqType /\ Sound(Idle, KnownIn(users), issued, settings.offers)
    BY ReqTypes, IdleIsSound
  <1> QED BY <1>1, <1>2, <1>3, MoveStep

LEMMA StrayArrivesTypes ==
  ASSUME TypeInv, StrayArrives
  PROVE TypeInv'
  <1>1. PICK d \in strays :
          /\ strays' = strays \ {d} /\ sessions' \subseteq sessions
          /\ UNCHANGED <<settings, now, users, req, mailed, issued>>
    BY DEF StrayArrives, histories
  <1>2. Stored(users, sessions', strays', mailed', issued)
    BY <1>1 DEF TypeInv, Stored
  <1> QED BY <1>1, <1>2 DEF TypeInv, Set

LEMMA SendVerificationEmailTypes ==
  ASSUME TypeInv, NEW h \in Slots, SendVerificationEmail(h)
  PROVE TypeInv'
  <1> DEFINE r == req[h]
             found == {u \in Known : /\ r.name # None => users[u].name = r.name
                                     /\ r.email # None => users[u].email = r.email}
             to == IF r.name # None /\ r.email # None THEN {<<r.name, r.email>>}
                   ELSE {<<users[u].name, users[u].email>> : u \in found}
             new == {[what |-> "verify", token |-> r.token, name |-> t[1], email |-> t[2]] : t \in to}
  <1>1. /\ r.st = "mail" /\ mailed' = mailed \cup new /\ Go(h, Idle)
        /\ UNCHANGED <<settings, now, users, sessions, strays, issued>>
    BY DEF SendVerificationEmail, Finish
  <1>2. r \in ReqType /\ Sound(r, KnownIn(users), issued, settings.offers) /\ issued \in Nat BY ReqTypes
  <1>3. r.token \in 1..issued
    <2>1. r.token \in Nat /\ r.token # 0 /\ r.token <= issued BY <1>1, <1>2 DEF Sound, ReqType
    <2> QED BY <1>2, <2>1
  <1>4. \A t \in to : t[1] \in Names \cup {None} /\ t[2] \in Emails \cup {None}
    <2>1. ASSUME NEW u \in found PROVE users[u].name \in Names \cup {None} /\ users[u].email \in Emails \cup {None}
      BY KnownIsKnown, RowTypes DEF RowType
    <2>2. r.name \in Names \cup {None} /\ r.email \in Emails \cup {None} BY <1>2 DEF ReqType
    <2> QED BY <2>1, <2>2
  <1> HIDE DEF r, to
  <1>5. new \subseteq MailType(1..issued)
    BY <1>3, <1>4 DEF MailType
  <1> HIDE DEF new
  <1>6. Stored(users, sessions', strays', mailed', issued)
    BY <1>1, <1>5 DEF TypeInv, Stored
  <1>7. Idle \in ReqType /\ Sound(Idle, KnownIn(users), issued, settings.offers)
    BY <1>2, IdleIsSound
  <1> QED BY <1>1, <1>6, <1>7, MoveStep

LEMMA WritesTypes ==
  ASSUME TypeInv, NEW h \in Slots, Writes(h)
  PROVE TypeInv'
  <1>1. CASE CollectHistory(h)
    BY <1>1, CollectHistoryIs, ReadStep DEF Read, histories
  <1>2. CASE RunDatabaseOperation(h)
    BY <1>2, StoreIs, StoresTypes, RefuseStep
  <1> QED BY <1>1, <1>2, HandleAuthDataTypes, ChecksTypes, ValidateEmailTypes, ClearSessionsTypes,
             SendVerificationEmailTypes, DestroyTypes, CreateSessionTypes, DeleteSessionTypes DEF Writes

-----------------------------------------------------------------------------
\* A log-in goes from stage to stage with the user it has found; what it writes
\* are the counter, the lock and the date of the password.
Found(r, u, row) == [r EXCEPT !.st = "lock", !.user = u, !.row = row]
KeepsUser(w, row) ==
  /\ w.name = row.name /\ w.email = row.email /\ w.pw = row.pw /\ w.auth = row.auth
  /\ w.verified = row.verified /\ w.vtoken = row.vtoken /\ w.past = row.past
LoggingIn(h, f) ==
  /\ Go(h, f) /\ f \in ReqType /\ Sound(f, KnownIn(users), issued, settings.offers)
  /\ f = Idle \/ (f.token = 0 /\ f.st \in LogInStages \cup {"session"})
  /\ UNCHANGED <<settings, now, sessions, strays, issued, served, histories>>
Counted(u, w) ==
  /\ u \in KnownIn(users) /\ w \in RowType /\ KeepsUser(w, users[u])
  /\ users' = [users EXCEPT ![u] = w]

LEMMA FoundType ==
  ASSUME NEW r \in ReqType, NEW u \in Users, NEW row \in RowType
  PROVE /\ Found(r, u, row) \in ReqType /\ Found(r, u, row).st = "lock" /\ Found(r, u, row).user = u
        /\ Found(r, u, row).row = row /\ Found(r, u, row).token = r.token /\ Found(r, u, row).pw = r.pw
  <1>1. "lock" \in AllStages BY StagesAre DEF LogInStages
  <1>2. Found(r, u, row) \in ReqType BY <1>1 DEF ReqType, Found
  <1> QED BY <1>2 DEF ReqType, Found

LEMMA AuthenticateIs ==
  ASSUME TypeInv, NEW h \in Slots, Authenticate(h)
  PROVE /\ req[h].st = "login"
        /\ \/ Refuse(h)
           \/ \E u \in KnownIn(users) :
                /\ users[u].name = req[h].name
                /\ Read(h, Found(req[h], u, users[u]))
                /\ LoggingIn(h, Found(req[h], u, users[u]))
  <1> DEFINE r == req[h]
  <1>1. /\ r.st = "login"
        /\ \/ Refuse(h)
           \/ \E u \in KnownIn(users) : users[u].name = r.name /\ Read(h, Found(r, u, users[u]))
    BY KnownIsKnown DEF Authenticate, Found
  <1>2. /\ r \in ReqType /\ Sound(r, KnownIn(users), issued, settings.offers) /\ issued \in Nat
    BY ReqTypes
  <1>3. r.token = 0 BY <1>1, <1>2 DEF Sound
  <1>4. ASSUME NEW u \in KnownIn(users), Read(h, Found(r, u, users[u]))
        PROVE LoggingIn(h, Found(r, u, users[u]))
    <2> DEFINE row == users[u]
               f == Found(r, u, row)
    <2>1. u \in Users /\ row \in RowType /\ u # None BY RowTypes
    <2> HIDE DEF row
    <2>2. f \in ReqType /\ f.st = "lock" /\ f.user = u /\ f.row = row /\ f.token = 0
      BY <1>2, <1>3, <2>1, FoundType
    <2>3. Read(h, f) BY <1>4 DEF row
    <2> HIDE DEF f
    <2>4. Sound(f, KnownIn(users), issued, settings.offers)
      BY <1>2, <2>1, <2>2 DEF Sound, WriteStages, LogInStages
    <2>5. "lock" \in LogInStages BY DEF LogInStages
    <2>6. LoggingIn(h, f) BY <2>2, <2>3, <2>4, <2>5 DEF LoggingIn, Read
    <2> QED BY <2>6 DEF f, row
  <1> QED BY <1>1, <1>4

LEMMA LogInStep ==
  ASSUME TypeInv, NEW h \in Slots, req[h].st \in LogInStages, NEW st \in LogInStages \cup {"session"}
  PROVE LET f == At(req[h], st)
        IN /\ f \in ReqType /\ f.st = st /\ Keeps(f, req[h]) /\ f.token = 0
           /\ Sound(f, KnownIn(users), issued, settings.offers)
           /\ req[h].user \in KnownIn(users) /\ req[h].user \in Users /\ req[h].row \in RowType
           /\ users[req[h].user] \in RowType
  <1> DEFINE r == req[h]
             f == At(r, st)
  <1>1. /\ r \in ReqType /\ Sound(r, KnownIn(users), issued, settings.offers) /\ issued \in Nat
        /\ r.st \in LogInStages
    BY ReqTypes
  <1>2. r.user # None /\ r.token = 0 /\ r.row \in RowType BY <1>1 DEF Sound
  <1>3. r.user \in KnownIn(users) /\ users[r.user] \in RowType /\ r.user \in Users
    BY <1>2, ReqTypes, RowTypes
  <1> HIDE DEF r
  <1>4. st \in AllStages BY StagesAre
  <1>5. f \in ReqType /\ f.st = st /\ Keeps(f, r) BY <1>1, <1>4, AtType
  <1> HIDE DEF f
  <1>6. f.token = 0 /\ f.user = r.user /\ f.row = r.row /\ f.email = r.email BY <1>2, <1>5 DEF Keeps
  <1>7. Sound(f, KnownIn(users), issued, settings.offers)
    BY <1>1, <1>2, <1>3, <1>5, <1>6 DEF Sound, WriteStages, LogInStages
  <1> QED BY <1>2, <1>3, <1>5, <1>6, <1>7 DEF f, r

LEMMA IdleLogsIn ==
  ASSUME TypeInv
  PROVE Idle \in ReqType /\ Sound(Idle, KnownIn(users), issued, settings.offers)
  <1>1. issued \in Nat BY DEF TypeInv, Stored
  <1> QED BY <1>1, IdleIsSound

LEMMA LogInReads ==
  ASSUME TypeInv, NEW h \in Slots, NotLocked(h) \/ IsFailedLoginCountSet(h)
  PROVE \/ Refuse(h)
        \/ \E st \in {"reset", "isset", "count", "init"} :
             /\ Read(h, At(req[h], st)) /\ LoggingIn(h, At(req[h], st))
             /\ st = "reset" => PasswordMatches(req[h])
             /\ req[h].st \in {"lock", "isset"}
  <1>1. /\ req[h].st \in {"lock", "isset"}
        /\ \/ Refuse(h)
           \/ \E st \in {"reset", "isset", "count", "init"} :
                Read(h, At(req[h], st)) /\ (st = "reset" => PasswordMatches(req[h]))
    BY DEF NotLocked, IsFailedLoginCountSet, At
  <1>2. req[h].st \in LogInStages /\ {"reset", "isset", "count", "init"} \subseteq LogInStages
    BY <1>1 DEF LogInStages
  <1>3. ASSUME NEW st \in LogInStages, Read(h, At(req[h], st)) PROVE LoggingIn(h, At(req[h], st))
    BY <1>2, <1>3, LogInStep DEF LoggingIn, Read
  <1> QED BY <1>1, <1>2, <1>3

WithFailed(row, n) == [row EXCEPT !.failed = n]
WithLock(row, t) == [row EXCEPT !.locked = t]
WithDate(row, t) == [row EXCEPT !.changed = t]

LEMMA CountersType ==
  ASSUME NEW row \in RowType, NEW n \in Nat
  PROVE /\ WithFailed(row, n) \in RowType /\ KeepsUser(WithFailed(row, n), row)
        /\ WithFailed(row, n).failed = n /\ WithFailed(row, n).locked = row.locked
        /\ WithLock(row, n) \in RowType /\ KeepsUser(WithLock(row, n), row)
        /\ WithLock(row, n).failed = row.failed /\ WithLock(row, n).locked = n
        /\ WithDate(row, n) \in RowType /\ KeepsUser(WithDate(row, n), row)
        /\ WithDate(row, n).failed = row.failed /\ WithDate(row, n).locked = row.locked
  <1>1. WithFailed(row, n) \in RowType /\ WithLock(row, n) \in RowType /\ WithDate(row, n) \in RowType
    BY DEF RowType, WithFailed, WithLock, WithDate
  <1>2. KeepsUser(WithFailed(row, n), row) BY DEF RowType, WithFailed, KeepsUser
  <1>3. KeepsUser(WithLock(row, n), row) BY DEF RowType, WithLock, KeepsUser
  <1>4. KeepsUser(WithDate(row, n), row) BY DEF RowType, WithDate, KeepsUser
  <1>5. /\ WithFailed(row, n).failed = n /\ WithFailed(row, n).locked = row.locked
        /\ WithLock(row, n).failed = row.failed /\ WithLock(row, n).locked = n
        /\ WithDate(row, n).failed = row.failed /\ WithDate(row, n).locked = row.locked
    BY DEF RowType, WithFailed, WithLock, WithDate
  <1> QED BY <1>1, <1>2, <1>3, <1>4, <1>5

\* A log-in writes the row w for its user and goes on as f.
LogsWrite(h, w, f) ==
  /\ LoggingIn(h, f) /\ Counted(req[h].user, w)

LEMMA SetFailedLoginCountIs ==
  ASSUME TypeInv, NEW h \in Slots, SetFailedLoginCount(h)
  PROVE /\ req[h].st \in {"reset", "init"}
        /\ Refuse(h) \/ LogsWrite(h, WithFailed(users[req[h].user], 0),
                                  At(req[h], IF req[h].st = "reset" THEN "enter" ELSE "count"))
  <1> DEFINE r == req[h]
             st == IF r.st = "reset" THEN "enter" ELSE "count"
             w == WithFailed(users[r.user], 0)
             f == At(r, st)
  <1>1. r.st \in {"reset", "init"} /\ (Refuse(h) \/ WriteUser(h, r.user, w, f))
    BY DEF SetFailedLoginCount, WithFailed, At
  <1>2. r.st \in LogInStages /\ st \in LogInStages BY <1>1 DEF LogInStages
  <1>3. /\ f \in ReqType /\ f.st = st /\ f.token = 0 /\ Sound(f, KnownIn(users), issued, settings.offers)
        /\ r.user \in KnownIn(users) /\ users[r.user] \in RowType
    BY <1>2, LogInStep
  <1>4. w \in RowType /\ KeepsUser(w, users[r.user]) BY <1>3, CountersType
  <1> HIDE DEF w, f, st
  <1>5. CASE WriteUser(h, r.user, w, f)
    <2>1. LoggingIn(h, f) BY <1>2, <1>3, <1>5 DEF LoggingIn, WriteUser
    <2>2. Counted(r.user, w) BY <1>3, <1>4, <1>5 DEF Counted, WriteUser
    <2> QED BY <1>1, <2>1, <2>2 DEF LogsWrite, w, f, st
  <1> QED BY <1>1, <1>5

LEMMA IncrementIs ==
  ASSUME TypeInv, NEW h \in Slots, IncrementFailedLoginCount(h)
  PROVE /\ req[h].st = "count"
        /\ Refuse(h) \/ \E n \in Nat : LogsWrite(h, WithFailed(users[req[h].user], n), At(req[h], "lockout"))
  <1> DEFINE r == req[h]
             n == IF users[r.user].failed = None THEN 1 ELSE users[r.user].failed + 1
             w == WithFailed(users[r.user], n)
             f == At(r, "lockout")
  <1>1. r.st = "count" /\ (Refuse(h) \/ WriteUser(h, r.user, w, f))
    BY DEF IncrementFailedLoginCount, WithFailed, At
  <1>2. r.st \in LogInStages /\ "lockout" \in LogInStages BY <1>1 DEF LogInStages
  <1>3. /\ f \in ReqType /\ f.st = "lockout" /\ f.token = 0 /\ Sound(f, KnownIn(users), issued, settings.offers)
        /\ r.user \in KnownIn(users) /\ users[r.user] \in RowType
    BY <1>2, LogInStep
  <1>4. n \in Nat BY <1>3 DEF RowType
  <1> HIDE DEF n
  <1>5. w \in RowType /\ KeepsUser(w, users[r.user]) BY <1>3, <1>4, CountersType
  <1> HIDE DEF w, f
  <1>6. CASE WriteUser(h, r.user, w, f)
    <2>1. LoggingIn(h, f) BY <1>2, <1>3, <1>6 DEF LoggingIn, WriteUser
    <2>2. Counted(r.user, w) BY <1>3, <1>5, <1>6 DEF Counted, WriteUser
    <2>3. LogsWrite(h, w, f) BY <2>1, <2>2 DEF LogsWrite
    <2> QED BY <1>1, <1>4, <2>3 DEF w, f
  <1> QED BY <1>1, <1>6

LEMMA SetLockoutIs ==
  ASSUME TypeInv, NEW h \in Slots, SetLockoutExpiration(h)
  PROVE /\ req[h].st = "lockout"
        /\ \/ Refuse(h) /\ \A u \in Account(req[h]) : ~PastThreshold(users[u].failed)
           \/ \E t \in Nat \ {0} : LogsWrite(h, WithLock(users[req[h].user], t), Idle)
  <1> DEFINE r == req[h]
             t == now + LockTime
             w == WithLock(users[r.user], t)
  <1>1. /\ r.st = "lockout"
        /\ \/ Refuse(h) /\ \A u \in Account(r) : ~PastThreshold(users[u].failed)
           \/ WriteUser(h, r.user, w, Idle)
    BY DEF SetLockoutExpiration, Account, WithLock
  <1>2. r.st \in LogInStages BY <1>1 DEF LogInStages
  <1>3. r.user \in KnownIn(users) /\ users[r.user] \in RowType
    BY <1>2, LogInStep DEF LogInStages
  <1>4. t \in Nat \ {0} BY ReqTypes, AccountConstants
  <1> HIDE DEF t
  <1>5. w \in RowType /\ KeepsUser(w, users[r.user]) BY <1>3, <1>4, CountersType
  <1> HIDE DEF w
  <1>6. CASE WriteUser(h, r.user, w, Idle)
    <2>1. LoggingIn(h, Idle) BY <1>6, IdleLogsIn DEF LoggingIn, WriteUser
    <2>2. Counted(r.user, w) BY <1>3, <1>5, <1>6 DEF Counted, WriteUser
    <2>3. LogsWrite(h, w, Idle) BY <2>1, <2>2 DEF LogsWrite
    <2> QED BY <1>1, <1>4, <2>3 DEF w
  <1> QED BY <1>1, <1>6

LEMMA AdmitIs ==
  ASSUME TypeInv, NEW h \in Slots, Admit(h)
  PROVE /\ req[h].st = "enter"
        /\ \/ Refuse(h)
           \/ \E f \in {At(req[h], "session"), Idle} :
                \/ Read(h, f) /\ LoggingIn(h, f)
                \/ \E t \in Nat : LogsWrite(h, WithDate(users[req[h].user], t), f)
  <1> DEFINE r == req[h]
             f == IF r.own THEN At(r, "session") ELSE Idle
             w == WithDate(users[r.user], now)
  <1>1. /\ r.st = "enter"
        /\ \/ Refuse(h)
           \/ Read(h, f)
           \/ WriteUser(h, r.user, w, f)
    BY DEF Admit, WithDate, At
  <1>2. r.st \in LogInStages BY <1>1 DEF LogInStages
  <1>3. /\ At(r, "session") \in ReqType /\ At(r, "session").token = 0 /\ At(r, "session").st = "session"
        /\ Sound(At(r, "session"), KnownIn(users), issued, settings.offers)
        /\ r.user \in KnownIn(users) /\ users[r.user] \in RowType
    BY <1>2, LogInStep
  <1>4. now \in Nat BY ReqTypes
  <1>5. w \in RowType /\ KeepsUser(w, users[r.user]) BY <1>3, <1>4, CountersType
  <1>6. /\ f \in ReqType /\ Sound(f, KnownIn(users), issued, settings.offers)
        /\ f = Idle \/ (f.token = 0 /\ f.st = "session")
    BY <1>3, IdleLogsIn
  <1>7. f \in {At(r, "session"), Idle} OBVIOUS
  <1> HIDE DEF w, f
  <1>8. CASE WriteUser(h, r.user, w, f)
    <2>1. LoggingIn(h, f) BY <1>6, <1>8 DEF LoggingIn, WriteUser
    <2>2. Counted(r.user, w) BY <1>3, <1>5, <1>8 DEF Counted, WriteUser
    <2>3. LogsWrite(h, w, f) BY <2>1, <2>2 DEF LogsWrite
    <2>4. \E t \in Nat : LogsWrite(h, WithDate(users[req[h].user], t), f) BY <1>4, <2>3 DEF w
    <2> QED BY <1>1, <1>7, <2>4
  <1>9. CASE Read(h, f)
    <2>1. LoggingIn(h, f) BY <1>6, <1>9 DEF LoggingIn, Read
    <2> QED BY <1>1, <1>7, <1>9, <2>1
  <1> QED BY <1>1, <1>8, <1>9

LEMMA LogsInIs ==
  ASSUME TypeInv, NEW h \in Slots, LogsIn(h)
  PROVE \/ Refuse(h)
        \/ \E f : LoggingIn(h, f) /\ (users' = users \/ \E u, w : Counted(u, w))
  <1>1. CASE Authenticate(h) BY <1>1, AuthenticateIs DEF Read
  <1>2. CASE NotLocked(h) \/ IsFailedLoginCountSet(h)
    <2>1. Refuse(h) \/ \E f : Read(h, f) /\ LoggingIn(h, f) BY <1>2, LogInReads
    <2> QED BY <2>1 DEF Read
  <1>3. CASE SetFailedLoginCount(h) BY <1>3, SetFailedLoginCountIs DEF LogsWrite
  <1>4. CASE IncrementFailedLoginCount(h) BY <1>4, IncrementIs DEF LogsWrite
  <1>5. CASE SetLockoutExpiration(h) BY <1>5, SetLockoutIs DEF LogsWrite
  <1>6. CASE Admit(h) BY <1>6, AdmitIs DEF LogsWrite, Read
  <1> QED BY <1>1, <1>2, <1>3, <1>4, <1>5, <1>6 DEF LogsIn

LEMMA CountedKnown ==
  ASSUME TypeInv, NEW u, NEW w, Counted(u, w)
  PROVE /\ KnownIn(users') = KnownIn(users) /\ Covers(issued, w)
        /\ u \in KnownIn(users) /\ u \in Users /\ w \in RowType
  <1>1. /\ u \in KnownIn(users) /\ w \in RowType /\ w.vtoken = users[u].vtoken
        /\ users' = [users EXCEPT ![u] = w]
    BY DEF Counted, KeepsUser
  <1>2. u \in Users BY <1>1 DEF KnownIn
  <1>3. Covers(issued, w) BY <1>1 DEF TypeInv, Stored, Covers
  <1>4. Stored(users, sessions, strays, mailed, issued) BY DEF TypeInv
  <1>5. KnownIn(users') = KnownIn(users) \cup {u}
    <2>1. u \in Users /\ w \in RowType BY <1>1, <1>2
    <2>2. KnownIn([users EXCEPT ![u] = w]) = KnownIn(users) \cup {u}
      BY ONLY <1>3, <1>4, <2>1, RowIsNew
    <2> QED BY <1>1, <2>2
  <1> QED BY <1>1, <1>2, <1>3, <1>5

LEMMA LogsInTypes ==
  ASSUME TypeInv, NEW h \in Slots, LogsIn(h)
  PROVE TypeInv'
  <1>1. CASE Refuse(h) BY <1>1, RefuseStep
  <1>2. ASSUME NEW f, LoggingIn(h, f), users' = users PROVE TypeInv'
    <2>1. /\ Go(h, f) /\ f \in ReqType /\ Sound(f, KnownIn(users), issued, settings.offers)
          /\ UNCHANGED <<settings, now, users, sessions, strays, mailed, issued>>
      BY <1>2 DEF LoggingIn, histories
    <2> QED BY <2>1, ReadStep
  <1>3. ASSUME NEW f, LoggingIn(h, f), NEW u, NEW w, Counted(u, w) PROVE TypeInv'
    <2>1. /\ Go(h, f) /\ f \in ReqType /\ Sound(f, KnownIn(users), issued, settings.offers)
          /\ UNCHANGED <<settings, now, sessions, strays, mailed, issued>>
      BY <1>3 DEF LoggingIn, histories
    <2>2. users' = [users EXCEPT ![u] = w] BY <1>3 DEF Counted
    <2>3. Covers(issued, w) /\ u \in Users /\ w \in RowType /\ u \in KnownIn(users)
      BY <1>3, CountedKnown
    <2>4. KnownIn(users) \cup {u} = KnownIn(users) BY <2>3
    <2>5. Sound(f, KnownIn(users) \cup {u}, issued, settings.offers) BY <2>1, <2>4
    <2> QED BY <2>1, <2>2, <2>3, <2>5, WriteStep
  <1> QED BY <1>1, <1>2, <1>3, LogsInIs
-----------------------------------------------------------------------------
LEMMA VerifyEmailIs ==
  ASSUME TypeInv, NEW h \in Slots, VerifyEmail(h)
  PROVE LET f == At(req[h], "confirm")
        IN /\ req[h].st = "verify"
           /\ Refuse(h) \/ Read(h, f)
           /\ f \in ReqType /\ f.st = "confirm" /\ Keeps(f, req[h])
           /\ Sound(f, KnownIn(users), issued, settings.offers)
  <1> DEFINE r == req[h]
             f == At(r, "confirm")
  <1>1. r.st = "verify" /\ (Refuse(h) \/ Read(h, f)) BY DEF VerifyEmail, At
  <1>2. r \in ReqType /\ Sound(r, KnownIn(users), issued, settings.offers) BY ReqTypes
  <1> HIDE DEF r
  <1>3. f \in ReqType /\ f.st = "confirm" /\ Keeps(f, r) BY <1>2, AtType, StagesAre
  <1> HIDE DEF f
  <1>4. f.user = r.user /\ f.token = r.token BY <1>3 DEF Keeps
  <1>5. Sound(f, KnownIn(users), issued, settings.offers)
    BY <1>1, <1>2, <1>3, <1>4 DEF Sound, WriteStages, LogInStages
  <1> QED BY <1>1, <1>3, <1>5 DEF f, r

ConfirmedRow(row) == [row EXCEPT !.verified = TRUE, !.vtoken = 0, !.vexpires = 0]

LEMMA ConfirmedRowType ==
  ASSUME NEW row \in RowType
  PROVE LET w == ConfirmedRow(row)
        IN /\ w \in RowType /\ w.verified /\ w.vtoken = 0 /\ w.name = row.name /\ w.email = row.email
           /\ w.pw = row.pw /\ w.auth = row.auth /\ w.failed = row.failed /\ w.locked = row.locked
           /\ w.past = row.past
  <1>1. TRUE \in BOOLEAN OBVIOUS
  <1>2. ConfirmedRow(row) \in RowType BY <1>1 DEF RowType, ConfirmedRow
  <1>3. ConfirmedRow(row).verified = TRUE BY DEF RowType, ConfirmedRow
  <1>4. LET w == ConfirmedRow(row)
        IN /\ w.vtoken = 0 /\ w.name = row.name /\ w.email = row.email
           /\ w.pw = row.pw /\ w.auth = row.auth /\ w.failed = row.failed /\ w.locked = row.locked
           /\ w.past = row.past
    BY DEF RowType, ConfirmedRow
  <1> QED BY <1>2, <1>3, <1>4

LEMMA ConfirmEmailTypes ==
  ASSUME TypeInv, NEW h \in Slots, ConfirmEmail(h)
  PROVE TypeInv' /\ KnownIn(users') = KnownIn(users)
  <1> DEFINE new == [u \in Users |-> IF u \in KnownIn(users) /\ Confirmed(u, req[h])
                                     THEN ConfirmedRow(users[u]) ELSE users[u]]
  <1>1. /\ users' = new /\ Go(h, Idle)
        /\ UNCHANGED <<settings, now, sessions, strays, issued, mailed>>
    BY KnownIsKnown DEF ConfirmEmail, Finish, ConfirmedRow
  <1>2. ASSUME NEW u \in Users
        PROVE /\ new[u] \in RowType \cup {None} /\ (new[u] # None <=> users[u] # None)
              /\ new[u] # None => Covers(issued, new[u])
    <2>1. users[u] \in RowType \cup {None} BY DEF TypeInv, Stored
    <2>2. u \in KnownIn(users) => ConfirmedRow(users[u]) \in RowType /\ ConfirmedRow(users[u]).vtoken = 0
      BY RowTypes, ConfirmedRowType
    <2>3. u \in KnownIn(users) <=> users[u] # None BY DEF KnownIn
    <2>4. None \notin RowType BY SettingsConstants
    <2>5. u \in KnownIn(users) => Covers(issued, users[u]) BY DEF TypeInv, Stored
    <2>6. u \in KnownIn(users) => Covers(issued, ConfirmedRow(users[u]))
      BY <2>2 DEF TypeInv, Stored, Covers
    <2> QED BY <2>1, <2>2, <2>3, <2>4, <2>5, <2>6
  <1> HIDE DEF new
  <1>3. new \in [Users -> RowType \cup {None}]
    BY <1>2 DEF new
  <1>4. KnownIn(new) = KnownIn(users) BY <1>2 DEF KnownIn
  <1>5. \A u \in KnownIn(new) : Covers(issued, new[u]) BY <1>2 DEF KnownIn
  <1>6. Stored(new, sessions, strays, mailed, issued)
    BY <1>3, <1>4, <1>5 DEF TypeInv, Stored
  <1>7. Reqs(req', KnownIn(users), issued, settings.offers)
    BY <1>1, IdleLogsIn, OneGoes DEF TypeInv, Go
  <1> QED BY <1>1, <1>4, <1>6, <1>7 DEF TypeInv, Set

-----------------------------------------------------------------------------
\* Who asks for a mail goes on with the user as it was read, and its old or a new token.
Renewal(r, row, st, token) ==
  [r EXCEPT !.row = row, !.name = row.name, !.email = row.email, !.st = st, !.token = token]

LEMMA RenewalType ==
  ASSUME NEW r \in ReqType, NEW row \in RowType, NEW st \in {"mail", "renew"}, NEW token \in Nat
  PROVE LET s == Renewal(r, row, st, token)
        IN s \in ReqType /\ s.st = st /\ s.token = token /\ s.row = row /\ s.name = row.name
           /\ s.email = row.email /\ s.user = r.user
  <1>1. st \in AllStages BY StagesAre
  <1>2. row.name \in Names \cup {None} /\ row.email \in Emails \cup {None} BY DEF RowType
  <1>3. Renewal(r, row, st, token) \in ReqType BY <1>1, <1>2 DEF ReqType, Renewal
  <1> QED BY <1>3 DEF ReqType, Renewal

\* The request h finds user u and waits for the mail, or to store token t.
Asks(h, u, st, token) ==
  /\ req[h].st = "asked" /\ u \in KnownIn(users)
  /\ (users[u].email # None \/ users[u].name # None)
  /\ Go(h, Renewal(req[h], users[u], st, token))
  /\ UNCHANGED <<settings, now, users, sessions, strays, served, histories>>

LEMMA RegenerateIs ==
  ASSUME TypeInv, NEW h \in Slots, RegenerateToken(h)
  PROVE \/ Refuse(h)
        \/ \E u \in Users :
             \/ /\ Asks(h, u, "mail", users[u].vtoken) /\ users[u].vtoken # 0
                /\ issued' = issued
             \/ Asks(h, u, "renew", issued + 1) /\ issued' = issued + 1
  <1> DEFINE r == req[h]
  <1>1. r \in ReqType /\ Sound(r, KnownIn(users), issued, settings.offers) BY ReqTypes
  <1>2. CASE ~Refuse(h)
    <2>1. PICK u \in KnownIn(users) :
            /\ IF r.email # None THEN users[u].email = r.email ELSE users[u].name = r.name
            /\ IF Reusable(users[u])
               THEN issued' = issued /\ Go(h, [[r EXCEPT !.row = users[u], !.name = users[u].name, !.email = users[u].email]
                                                 EXCEPT !.st = "mail", !.token = users[u].vtoken])
               ELSE issued' = issued + 1 /\ Go(h, [[r EXCEPT !.row = users[u], !.name = users[u].name, !.email = users[u].email]
                                                     EXCEPT !.st = "renew", !.token = issued + 1])
            /\ UNCHANGED <<settings, now, users, sessions, strays, served, histories>>
      BY <1>2, KnownIsKnown DEF RegenerateToken
    <2>2. r.st = "asked" BY DEF RegenerateToken
    <2>3. users[u].email # None \/ users[u].name # None
      BY <1>1, <2>1, <2>2 DEF Sound
    <2> DEFINE row == users[u]
    <2>4. row \in RowType /\ u \in Users /\ issued \in Nat BY RowTypes, ReqTypes
    <2>5. row.vtoken \in Nat BY <2>4 DEF RowType
    <2> HIDE DEF r, row
    <2>6. ASSUME NEW st, NEW token
          PROVE Renewal(r, row, st, token)
                  = [[r EXCEPT !.row = row, !.name = row.name, !.email = row.email] EXCEPT !.st = st, !.token = token]
      BY <1>1 DEF ReqType, Renewal
    <2>7. CASE Reusable(row)
      <3>1. issued' = issued /\ Go(h, Renewal(r, row, "mail", row.vtoken))
        BY <2>1, <2>6, <2>7 DEF row
      <3>2. row.vtoken # 0 BY <2>7 DEF Reusable
      <3>3. Asks(h, u, "mail", row.vtoken)
        BY <2>1, <2>2, <2>3, <3>1 DEF Asks, r, row
      <3> QED BY <2>4, <3>1, <3>2, <3>3 DEF row
    <2>8. CASE ~Reusable(row)
      <3>1. issued' = issued + 1 /\ Go(h, Renewal(r, row, "renew", issued + 1))
        BY <2>1, <2>6, <2>8 DEF row
      <3>2. Asks(h, u, "renew", issued + 1)
        BY <2>1, <2>2, <2>3, <3>1 DEF Asks, r, row
      <3> QED BY <2>4, <3>1, <3>2
    <2> QED BY <2>7, <2>8
  <1> QED BY <1>2

LEMMA AsksTypes ==
  ASSUME TypeInv, NEW h \in Slots, NEW u \in Users, NEW st \in {"mail", "renew"}, NEW token \in Nat,
         Asks(h, u, st, token), token # 0, NEW count \in Nat, issued <= count, token <= count,
         issued' = count
  PROVE TypeInv'
  <1> DEFINE r == req[h]
             row == users[u]
             s == Renewal(r, row, st, token)
  <1>1. /\ r \in ReqType /\ Sound(r, KnownIn(users), issued, settings.offers) /\ issued \in Nat
        /\ r.user \in KnownIn(users) \cup {None} /\ "askVerify" \in settings.offers
    BY ReqTypes DEF Sound, Asks
  <1>2. /\ u \in KnownIn(users) /\ (row.email # None \/ row.name # None) /\ Go(h, s)
        /\ UNCHANGED <<settings, now, users, sessions, strays, mailed>>
    BY DEF Asks, histories
  <1>3. row \in RowType BY <1>2, RowTypes
  <1> HIDE DEF r, row
  <1>4. s \in ReqType /\ s.st = st /\ s.token = token /\ s.row = row /\ s.name = row.name
        /\ s.email = row.email /\ s.user = r.user
    BY <1>1, <1>3, RenewalType
  <1> HIDE DEF s
  <1>5. Sound(s, KnownIn(users), count, settings.offers)
    BY <1>1, <1>2, <1>3, <1>4 DEF Sound, WriteStages, LogInStages
  <1>6. Stored(users, sessions, strays, mailed, count) BY StoredGrows DEF TypeInv
  <1>7. Reqs(req, KnownIn(users), count, settings.offers) BY <1>1, ReqsGrow DEF TypeInv
  <1>8. Reqs(req', KnownIn(users), count, settings.offers) BY <1>2, <1>4, <1>5, <1>7, OneGoes DEF Go
  <1> QED BY <1>2, <1>6, <1>8 DEF TypeInv, Set

LEMMA RegenerateTypes ==
  ASSUME TypeInv, NEW h \in Slots, RegenerateToken(h)
  PROVE TypeInv'
  <1>1. CASE Refuse(h) BY <1>1, RefuseStep
  <1>2. ASSUME NEW u \in Users, Asks(h, u, "mail", users[u].vtoken), users[u].vtoken # 0, issued' = issued
        PROVE TypeInv'
    <2> DEFINE t == users[u].vtoken
    <2>1. u \in KnownIn(users) BY <1>2 DEF Asks
    <2>2. t \in Nat /\ t # 0 BY <1>2, <2>1, RowTypes DEF RowType
    <2>3. issued \in Nat /\ issued <= issued BY ReqTypes
    <2>4. t <= issued BY <2>1 DEF TypeInv, Stored, Covers
    <2>5. Asks(h, u, "mail", t) BY <1>2
    <2> HIDE DEF t
    <2> QED BY <1>2, <2>2, <2>3, <2>4, <2>5, AsksTypes
  <1>3. ASSUME NEW u \in Users, Asks(h, u, "renew", issued + 1), issued' = issued + 1
        PROVE TypeInv'
    <2> DEFINE t == issued + 1
    <2>1. issued \in Nat BY ReqTypes
    <2>2. t \in Nat /\ t # 0 /\ issued <= t /\ t <= t BY <2>1
    <2>3. Asks(h, u, "renew", t) /\ issued' = t BY <1>3
    <2> HIDE DEF t
    <2> QED BY <2>2, <2>3, AsksTypes
  <1> QED BY <1>1, <1>2, <1>3, RegenerateIs

\* What the stale row puts over the row as it is.
RestoredFields(w, row, old, token) ==
  /\ w.name = old.name
  /\ w.email = (IF old.email = None THEN row.email ELSE old.email)
  /\ w.pw = row.pw
  /\ w.auth = (IF old.auth = None THEN row.auth ELSE old.auth)
  /\ ~w.verified /\ w.vtoken = token
  /\ w.failed = (IF old.failed = None THEN row.failed ELSE old.failed)
  /\ w.locked = (IF old.locked = 0 THEN row.locked ELSE old.locked)
  /\ w.past = (IF old.past = <<>> THEN row.past ELSE old.past)

LEMMA RestoredType ==
  ASSUME TypeInv, NEW row \in RowType, NEW old \in RowType, NEW token \in Nat
  PROVE Restored(row, old, token) \in RowType /\ RestoredFields(Restored(row, old, token), row, old, token)
  <1> DEFINE v1 == old.name
             v2 == IF old.email = None THEN row.email ELSE old.email
             v3 == IF old.auth = None THEN row.auth ELSE old.auth
             v4 == now + TokenLife
             v5 == IF old.rtoken = 0 THEN row.rtoken ELSE old.rtoken
             v6 == IF old.rtoken = 0 THEN row.rexpires ELSE old.rexpires
             v7 == IF old.failed = None THEN row.failed ELSE old.failed
             v8 == IF old.locked = 0 THEN row.locked ELSE old.locked
             v9 == IF old.changed = 0 THEN row.changed ELSE old.changed
             v10 == IF old.past = <<>> THEN row.past ELSE old.past
             w == [row EXCEPT !.name = v1, !.email = v2, !.auth = v3, !.verified = FALSE, !.vtoken = token,
                              !.vexpires = v4, !.rtoken = v5, !.rexpires = v6, !.failed = v7, !.locked = v8,
                              !.changed = v9, !.past = v10]
  <1>1. Restored(row, old, token) = w BY DEF Restored
  <1>2. v4 \in Nat BY AccountConstants DEF TypeInv, Set
  <1>3. v1 \in Names \cup {None} /\ v2 \in Emails \cup {None} /\ v3 \in AuthIds \cup {None}
    BY DEF RowType
  <1>4. v5 \in Nat /\ v6 \in Nat /\ v7 \in Nat \cup {None} /\ v8 \in Nat /\ v9 \in Nat
    BY DEF RowType
  <1>5. v10 \in Seq(Passwords \cup {None}) BY DEF RowType
  <1>6. FALSE \in BOOLEAN OBVIOUS
  <1> HIDE DEF v1, v2, v3, v4, v5, v6, v7, v8, v9, v10
  <1>7. w \in RowType BY <1>2, <1>3, <1>4, <1>5, <1>6, ZenonT(60) DEF RowType
  <1>8. /\ w.name = v1 /\ w.email = v2 /\ w.pw = row.pw /\ w.auth = v3 /\ w.vtoken = token
        /\ w.failed = v7 /\ w.locked = v8 /\ w.past = v10
    BY DEF RowType
  <1>9. w.verified = FALSE BY DEF RowType
  <1> HIDE DEF w
  <1>10. RestoredFields(w, row, old, token)
    BY <1>8, <1>9 DEF RestoredFields, v1, v2, v3, v7, v8, v10
  <1> QED BY <1>1, <1>7, <1>10

\* The renewed token is stored with the stale row, for user u.
Renews(h, u) ==
  /\ req[h].st = "renew" /\ u \in KnownIn(users) /\ users[u].name = req[h].row.name
  /\ ~Duplicate(u, Restored(users[u], req[h].row, req[h].token))
  /\ users' = [users EXCEPT ![u] = Restored(users[u], req[h].row, req[h].token)]
  /\ Go(h, At(req[h], "mail"))
  /\ UNCHANGED <<settings, now, sessions, strays, issued, served, histories>>

LEMMA RenewIs ==
  ASSUME NEW h \in Slots, RenewToken(h)
  PROVE Refuse(h) \/ \E u \in Users : Renews(h, u)
  <1> DEFINE r == req[h]
             row(u) == Restored(users[u], r.row, r.token)
  <1>1. CASE ~Refuse(h)
    <2>1. PICK u \in KnownIn(users) :
            /\ users[u].name = r.row.name /\ ~Duplicate(u, row(u))
            /\ WriteUser(h, u, row(u), At(r, "mail"))
      BY <1>1, KnownIsKnown DEF RenewToken, At
    <2>2. r.st = "renew" BY DEF RenewToken
    <2>3. u \in Users BY DEF KnownIn
    <2> HIDE DEF r
    <2>4. Renews(h, u) BY <2>1, <2>2 DEF Renews, WriteUser, r
    <2> QED BY <2>3, <2>4
  <1> QED BY <1>1

LEMMA RenewsTypes ==
  ASSUME TypeInv, NEW h \in Slots, NEW u \in Users, Renews(h, u)
  PROVE /\ TypeInv' /\ KnownIn(users') = KnownIn(users)
        /\ Restored(users[u], req[h].row, req[h].token) \in RowType
        /\ RestoredFields(Restored(users[u], req[h].row, req[h].token), users[u], req[h].row, req[h].token)
        /\ req[h].row \in RowType /\ req[h].token # 0
        /\ req[h].name = req[h].row.name /\ req[h].email = req[h].row.email
  <1> DEFINE r == req[h]
             row == users[u]
             w == Restored(row, r.row, r.token)
             f == At(r, "mail")
  <1>1. r \in ReqType /\ Sound(r, KnownIn(users), issued, settings.offers) /\ issued \in Nat BY ReqTypes
  <1>2. /\ r.st = "renew" /\ u \in KnownIn(users) /\ users' = [users EXCEPT ![u] = w] /\ Go(h, f)
        /\ UNCHANGED <<settings, now, sessions, strays, issued, mailed>>
    BY DEF Renews, histories
  <1>3. row \in RowType BY <1>2, RowTypes
  <1> HIDE DEF r, row
  <1>4. /\ r.row \in RowType /\ r.token # 0 /\ r.name = r.row.name /\ r.email = r.row.email
        /\ r.user \in KnownIn(users) \cup {None} /\ r.token <= issued
        /\ "askVerify" \in settings.offers /\ (r.email # None \/ r.name # None)
    BY <1>1, <1>2 DEF Sound
  <1>5. r.token \in Nat BY <1>1 DEF ReqType
  <1>6. w \in RowType /\ RestoredFields(w, row, r.row, r.token) BY <1>3, <1>4, <1>5, RestoredType
  <1> HIDE DEF w
  <1>7. Covers(issued, w) BY <1>4, <1>6 DEF RestoredFields, Covers
  <1>8. f \in ReqType /\ f.st = "mail" /\ Keeps(f, r) BY <1>1, AtType, StagesAre
  <1> HIDE DEF f
  <1>9. Sound(f, KnownIn(users), issued, settings.offers)
    <2>1. f.user = r.user /\ f.token = r.token /\ f.email = r.email /\ f.name = r.name
      BY <1>8 DEF Keeps
    <2> QED BY <1>4, <1>8, <2>1 DEF Sound, WriteStages, LogInStages
  <1>10. KnownIn(users) \cup {u} = KnownIn(users) BY <1>2
  <1>11. TypeInv'
    <2>1. Sound(f, KnownIn(users) \cup {u}, issued, settings.offers) BY <1>9, <1>10
    <2> QED BY <1>2, <1>6, <1>7, <1>8, <2>1, WriteStep
  <1>12. KnownIn(users') = KnownIn(users)
    <2>1. Stored(users, sessions, strays, mailed, issued) BY DEF TypeInv
    <2>2. u \in Users /\ w \in RowType BY <1>6
    <2>3. KnownIn([users EXCEPT ![u] = w]) = KnownIn(users) \cup {u}
      BY ONLY <1>7, <2>1, <2>2, RowIsNew
    <2> QED BY <1>2, <1>10, <2>3
  <1> QED BY <1>4, <1>6, <1>11, <1>12 DEF w, r, row
-----------------------------------------------------------------------------
LEMMA ResetMailType ==
  ASSUME TypeInv, NEW u \in KnownIn(users), NEW t \in Nat, NEW count
  PROVE ResetMail(u, t) \in MailType(1..count) /\ ResetMail(u, t).what = "reset"
  <1>1. users[u].name \in Names \cup {None} /\ users[u].email \in Emails \cup {None}
    BY RowTypes DEF RowType
  <1> QED BY <1>1 DEF ResetMail, MailType

LEMMA FindResetTypes ==
  ASSUME TypeInv, NEW h \in Slots, FindResetToken(h)
  PROVE TypeInv'
  <1> DEFINE valid == {u \in Known : users[u].email = req[h].email /\ users[u].rtoken # 0 /\ users[u].rexpires > now}
             new == {ResetMail(u, users[u].rtoken) : u \in valid}
             f == At(req[h], "setReset")
  <1>1. /\ req[h].st = "findReset"
        /\ \/ Read(h, f)
           \/ /\ mailed' = mailed \cup new /\ Go(h, Idle)
              /\ UNCHANGED <<settings, now, users, sessions, strays, issued>>
    BY DEF FindResetToken, Finish, At
  <1>2. CASE Read(h, f)
    <2> DEFINE r == req[h]
    <2>1. r \in ReqType /\ Sound(r, KnownIn(users), issued, settings.offers) /\ r.st = "findReset"
      BY <1>1, ReqTypes
    <2>2. f \in ReqType /\ f.st = "setReset" /\ Keeps(f, r) BY <2>1, AtType, StagesAre
    <2> HIDE DEF f, r
    <2>3. f.user = r.user /\ f.token = r.token BY <2>2 DEF Keeps
    <2>4. Sound(f, KnownIn(users), issued, settings.offers)
      BY <2>1, <2>2, <2>3 DEF Sound, WriteStages, LogInStages
    <2> QED BY <1>2, <2>2, <2>4, ReadStep DEF Read, histories
  <1>3. CASE /\ mailed' = mailed \cup new /\ Go(h, Idle)
             /\ UNCHANGED <<settings, now, users, sessions, strays, issued>>
    <2>1. \A u \in valid : ResetMail(u, users[u].rtoken) \in MailType(1..issued)
      BY KnownIsKnown, RowTypes, ResetMailType DEF RowType
    <2>2. new \subseteq MailType(1..issued) BY <2>1
    <2> HIDE DEF new
    <2>3. Stored(users, sessions', strays', mailed', issued)
      BY <1>3, <2>2 DEF TypeInv, Stored
    <2> QED BY <1>3, <2>3, IdleLogsIn, MoveStep
  <1> QED BY <1>1, <1>2, <1>3

ResetRow(row, token, expires) == [row EXCEPT !.rtoken = token, !.rexpires = expires]

LEMMA ResetRowType ==
  ASSUME NEW row \in RowType, NEW t \in Nat, NEW e \in Nat
  PROVE LET w == ResetRow(row, t, e)
        IN w \in RowType /\ KeepsUser(w, row) /\ w.failed = row.failed /\ w.locked = row.locked
  <1>1. ResetRow(row, t, e) \in RowType BY DEF RowType, ResetRow
  <1>2. KeepsUser(ResetRow(row, t, e), row) BY DEF RowType, ResetRow, KeepsUser
  <1>3. ResetRow(row, t, e).failed = row.failed /\ ResetRow(row, t, e).locked = row.locked
    BY DEF RowType, ResetRow
  <1> QED BY <1>1, <1>2, <1>3

\* A reset token is stored for a user and mailed.
Resets(h, u, w) ==
  /\ Counted(u, w) /\ w.failed = users[u].failed /\ w.locked = users[u].locked
  /\ issued' = issued + 1 /\ Go(h, Idle)
  /\ \E m \in MailType(1..issued) : m.what = "reset" /\ mailed' = mailed \cup {m}
  /\ UNCHANGED <<settings, now, sessions, strays, served, presented, worn>>

LEMMA SetResetIs ==
  ASSUME TypeInv, NEW h \in Slots, SetPasswordResetToken(h)
  PROVE Refuse(h) \/ \E u, w : Resets(h, u, w)
  <1>1. CASE ~Refuse(h)
    <2> DEFINE t == issued + 1
               e == now + TokenLife
    <2>1. PICK u \in KnownIn(users) :
            /\ issued' = t
            /\ users' = [users EXCEPT ![u].rtoken = t, ![u].rexpires = e]
            /\ mailed' = mailed \cup {ResetMail(u, t)} /\ Go(h, Idle)
            /\ UNCHANGED <<settings, now, sessions, strays, served, presented, worn>>
      BY <1>1, KnownIsKnown DEF SetPasswordResetToken, Finish
    <2> DEFINE row == users[u]
               w == ResetRow(row, t, e)
    <2>2. t \in Nat /\ e \in Nat BY ReqTypes, AccountConstants
    <2>3. row \in RowType /\ u \in Users BY RowTypes
    <2>4. ResetMail(u, t) \in MailType(1..issued) /\ ResetMail(u, t).what = "reset"
      BY <2>2, ResetMailType
    <2> HIDE DEF t, e
    <2>5. w \in RowType /\ KeepsUser(w, row) /\ w.failed = row.failed /\ w.locked = row.locked
      BY <2>2, <2>3, ResetRowType
    <2>6. users' = [users EXCEPT ![u] = w]
      <3>1. users \in [Users -> RowType \cup {None}] BY DEF TypeInv, Stored
      <3>2. [users EXCEPT ![u].rtoken = t, ![u].rexpires = e] = [users EXCEPT ![u] = w]
        BY <2>3, <3>1 DEF ResetRow, RowType
      <3> QED BY <2>1, <3>2
    <2> HIDE DEF w
    <2>7. Counted(u, w) BY <2>5, <2>6 DEF Counted, row
    <2>8. Resets(h, u, w) BY <2>1, <2>4, <2>5, <2>7 DEF Resets, t, row
    <2> QED BY <2>8
  <1> QED BY <1>1

LEMMA ResetsTypes ==
  ASSUME TypeInv, NEW h \in Slots, NEW u, NEW w, Resets(h, u, w)
  PROVE TypeInv' /\ KnownIn(users') = KnownIn(users) /\ u \in Users
  <1>1. PICK m \in MailType(1..issued) : mailed' = mailed \cup {m} BY DEF Resets
  <1>2. /\ Counted(u, w) /\ issued' = issued + 1 /\ Go(h, Idle)
        /\ UNCHANGED <<settings, now, sessions, strays>>
    BY DEF Resets
  <1>3. /\ KnownIn(users') = KnownIn(users) /\ Covers(issued, w) /\ u \in Users /\ w \in RowType
    BY <1>2, CountedKnown
  <1>4. users' = [users EXCEPT ![u] = w] BY <1>2 DEF Counted
  <1> DEFINE n == issued + 1
             new == [users EXCEPT ![u] = w]
             sent == mailed \cup {m}
  <1>5. issued \in Nat /\ n \in Nat /\ issued <= n BY ReqTypes
  <1> HIDE DEF n
  <1>6. Stored(users, sessions, strays, sent, issued) BY <1>1 DEF TypeInv, Stored
  <1> HIDE DEF sent
  <1>7. Stored(new, sessions, strays, sent, issued) BY ONLY <1>3, <1>6, RowIsNew
  <1> HIDE DEF new
  <1>8. Stored(new, sessions, strays, sent, n) BY <1>5, <1>7, StoredGrows
  <1>9. Reqs(req, KnownIn(users), n, settings.offers) BY <1>5, ReqsGrow DEF TypeInv
  <1>10. Idle \in ReqType /\ Sound(Idle, KnownIn(users), n, settings.offers) BY <1>5, IdleIsSound
  <1>11. Reqs(req', KnownIn(users), n, settings.offers) BY <1>2, <1>9, <1>10, OneGoes DEF Go
  <1>12. Stored(users', sessions, strays, mailed', issued') /\ issued' = n
    BY <1>1, <1>2, <1>4, <1>8 DEF new, sent, n
  <1> QED BY <1>2, <1>3, <1>11, <1>12 DEF TypeInv, Set

LEMMA CheckResetIs ==
  ASSUME TypeInv, NEW h \in Slots, CheckResetToken(h)
  PROVE \/ Refuse(h)
        \/ \E f : Read(h, f) /\ f \in ReqType /\ Sound(f, KnownIn(users), issued, settings.offers)
                  /\ f.st \in WriteStages /\ f.token = 0 /\ Unchecked(f)
  <1> DEFINE r == req[h]
             q(u) == [Idle EXCEPT !.user = u, !.pw = r.pw]
  <1>1. CASE ~Refuse(h)
    <2>1. PICK u \in KnownIn(users) : Read(h, Execute(q(u)))
      BY <1>1, KnownIsKnown DEF CheckResetToken
    <2>2. r.pw \in Passwords \cup {None} BY ReqTypes DEF ReqType
    <2>3. u \in Users /\ issued \in Nat BY RowTypes, ReqTypes
    <2> DEFINE o == q(u)
    <2>4. o \in ReqType /\ o.user = u /\ o.token = 0 /\ o.name = None /\ o.past = <<>>
      BY <2>2, <2>3, IdleFields DEF ReqType
    <2>5. Read(h, Execute(o)) BY <2>1
    <2> HIDE DEF o
    <2>6. Execute(o) \in ReqType /\ Sound(Execute(o), KnownIn(users), issued, settings.offers)
      BY <2>3, <2>4, ExecuteIsSound
    <2>7. Execute(o).st \in WriteStages /\ Execute(o).token = 0 /\ Unchecked(Execute(o))
      BY <2>4, ExecuteLeaves
    <2> QED BY <2>5, <2>6, <2>7
  <1> QED BY <1>1

LEMMA UsesTokensTypes ==
  ASSUME TypeInv, NEW h \in Slots, UsesTokens(h)
  PROVE TypeInv'
  <1>1. CASE VerifyEmail(h)
    <2> DEFINE f == At(req[h], "confirm")
    <2>1. /\ Refuse(h) \/ Read(h, f)
          /\ f \in ReqType /\ Sound(f, KnownIn(users), issued, settings.offers)
      BY <1>1, VerifyEmailIs
    <2> HIDE DEF f
    <2> QED BY <2>1, RefuseStep, ReadStep DEF Read, histories
  <1>2. CASE RenewToken(h) BY <1>2, RenewIs, RenewsTypes, RefuseStep
  <1>3. CASE SetPasswordResetToken(h) BY <1>3, SetResetIs, ResetsTypes, RefuseStep
  <1>4. CASE CheckResetToken(h)
    <2>1. \/ Refuse(h)
          \/ \E f : Read(h, f) /\ f \in ReqType /\ Sound(f, KnownIn(users), issued, settings.offers)
      BY <1>4, CheckResetIs
    <2> QED BY <2>1, RefuseStep, ReadStep DEF Read, histories
  <1> QED BY <1>1, <1>2, <1>3, <1>4, ConfirmEmailTypes, RegenerateTypes, FindResetTypes DEF UsesTokens

LEMMA TickTypes ==
  ASSUME TypeInv, Tick
  PROVE TypeInv'
  <1>1. /\ now' = now + 1
        /\ UNCHANGED <<settings, users, sessions, strays, req, issued, mailed>>
    BY DEF Tick, histories
  <1>2. now' \in Nat \ {0} BY <1>1 DEF TypeInv, Set
  <1> QED BY <1>1, <1>2 DEF TypeInv, Set

LEMMA StutterTypes ==
  ASSUME TypeInv, UNCHANGED vars
  PROVE TypeInv'
  BY DEF vars, histories, TypeInv, Set

LEMMA TypesStep ==
  ASSUME TypeInv, [Next]_vars
  PROVE TypeInv'
  <1>1. ASSUME NEW h \in Slots, CallFails(h) PROVE TypeInv'
    BY <1>1, RefuseStep DEF CallFails
  <1> QED BY <1>1, ArrivesTypes, WritesTypes, LogsInTypes, UsesTokensTypes, StrayArrivesTypes,
             TickTypes, StutterTypes DEF Next

\* A database in which every request has ended.
LEMMA Starts ==
  ASSUME Init
  PROVE /\ settings \in Settings /\ LegalStart(users, sessions)
        /\ {settings.alone, settings.fails} \subseteq BOOLEAN
  BY SettingsConstants DEF Init

LEMMA TypesInit ==
  ASSUME Init
  PROVE TypeInv
  <1>1. settings \in Settings /\ LegalStart(users, sessions) BY Starts
  <1>2. /\ now = 1 /\ strays = {} /\ mailed = {} /\ issued = Cardinality(sessions)
        /\ req = [h \in Slots |-> Idle]
    BY DEF Init
  <1>3. /\ users \in [Users -> RowType \cup {None}]
        /\ sessions \subseteq SessionType(1..issued, KnownIn(users)) /\ IsFiniteSet(sessions)
        /\ \A u \in KnownIn(users) : users[u].vtoken = 0
    BY <1>1, <1>2 DEF LegalStart, KnownIn
  <1>4. issued \in Nat BY <1>2, <1>3, FS_CardinalityType
  <1>5. \A u \in KnownIn(users) : Covers(issued, users[u]) BY <1>3, <1>4 DEF Covers
  <1>6. Stored(users, sessions, strays, mailed, issued) BY <1>2, <1>3, <1>4, <1>5 DEF Stored
  <1>7. Reqs(req, KnownIn(users), issued, settings.offers)
    BY <1>2, <1>4, IdleIsSound DEF Reqs
  <1>8. Set BY <1>1, <1>2 DEF Set
  <1> QED BY <1>6, <1>7, <1>8 DEF TypeInv

LEMMA TypesHold == Spec => []TypeInv
  <1>1. Init => TypeInv BY TypesInit
  <1>2. TypeInv /\ [Next]_vars => TypeInv' BY TypesStep
  <1> QED BY <1>1, <1>2, PTL DEF Spec

\* Rows, sessions and requests keep to the shapes the collections have.
THEOREM TypeCorrect == Spec => []TypeOK
  <1>1. ASSUME TypeInv PROVE TypeOK
    <2>1. \A u \in Known : users[u] \in RowType BY <1>1, RowTypes, KnownIsKnown
    <2>2. sessions \subseteq SessionType(1..issued, Known) BY <1>1, KnownIsKnown DEF TypeInv, Stored
    <2>3. \A h \in Slots : req[h].user # None => req[h].user \in Known
      BY <1>1, ReqTypes, KnownIsKnown
    <2> QED BY <2>1, <2>2, <2>3 DEF TypeOK
  <1> QED BY <1>1, TypesHold, PTL

-----------------------------------------------------------------------------
(***************************************************************************)
(* Verification.  A token is pending until it is stored with the address   *)
(* it was made for, then it is on its way to that address, and in the end  *)
(* it comes back by a link that was mailed.                                *)
(***************************************************************************)
Pending(r) == r.token # 0 /\ r.st \in {"past", "store", "renew"}
OnItsWay(r) == r.token # 0 /\ r.st \in {"clear", "session", "insert", "mail"}
Link(r) == r.st \in {"verify", "confirm"}
Swaps == {"askVerify", "setName"} \subseteq settings.offers
Links(sent) == {m \in sent : m.what = "verify"}

\* Two users share neither name nor address nor token.
Distinct(rows) == \A u, v \in KnownIn(rows) : u # v =>
  /\ rows[u].name = rows[v].name => rows[u].name = None
  /\ rows[u].email = rows[v].email => rows[u].email = None
  /\ rows[u].vtoken = rows[v].vtoken => rows[u].vtoken = 0
\* A pending token is held by no user, was mailed to nobody, and is one request's own.
Unused(t, rows, links) ==
  /\ \A u \in KnownIn(rows) : rows[u].vtoken # t
  /\ \A m \in links : m.token # t
PendingIsUnused == \A h \in Slots : Pending(req[h]) =>
  /\ Unused(req[h].token, users, Links(mailed))
  /\ \A g \in Slots : g # h /\ (Pending(req[g]) \/ OnItsWay(req[g])) => req[g].token # req[h].token
\* Whoever holds a token on its way has the address, or the name, it is sent to.
Addressed(r, row, offers) == row.vtoken = r.token =>
  /\ r.email # None => row.email = r.email
  /\ r.email = None /\ "setName" \notin offers => row.name = r.name
WayIsAddressed == \A h \in Slots : OnItsWay(req[h]) =>
  \A u \in KnownIn(users) : Addressed(req[h], users[u], settings.offers)
MailIsAddressed == ~Swaps =>
  \A m \in Links(mailed), u \in KnownIn(users) : users[u].vtoken = m.token => users[u].email = m.email
LinksWereMailed == \A h \in Slots : Link(req[h]) => \E m \in Links(mailed) : m.token = req[h].token
Verified == ~Swaps =>
  \A u \in KnownIn(users) : users[u].verified =>
    \E m \in Links(mailed) : m.token \in presented /\ m.email = users[u].email

TokenInv ==
  /\ Distinct(users) /\ PendingIsUnused /\ WayIsAddressed /\ MailIsAddressed
  /\ LinksWereMailed /\ Verified

\* A step that leaves tokens, names and addresses where they are.
SameUser(w, row) ==
  w.name = row.name /\ w.email = row.email /\ w.vtoken = row.vtoken /\ w.verified = row.verified
SameUsers ==
  /\ KnownIn(users') = KnownIn(users)
  /\ \A u \in KnownIn(users) : SameUser(users'[u], users[u])
Follows(s, r) ==
  /\ Pending(s) => Pending(r) /\ s.token = r.token
  /\ OnItsWay(s) => OnItsWay(r) /\ s.token = r.token /\ s.name = r.name /\ s.email = r.email
  /\ Link(s) => (Link(r) /\ s.token = r.token) \/ \E m \in Links(mailed) : m.token = s.token
Quiet ==
  /\ settings' = settings /\ presented' = presented /\ Links(mailed') = Links(mailed)
  /\ SameUsers
  /\ \A h \in Slots : Follows(req'[h], req[h])

LEMMA QuietKeeps ==
  ASSUME TokenInv, Quiet
  PROVE TokenInv'
  <1> DEFINE known == KnownIn(users)
  <1>1. known = KnownIn(users') /\ \A u \in known : SameUser(users'[u], users[u])
    BY DEF Quiet, SameUsers
  <1>2. /\ \A h \in Slots : Follows(req'[h], req[h])
        /\ settings' = settings /\ presented' = presented /\ Links(mailed') = Links(mailed)
    BY DEF Quiet
  <1> HIDE DEF known
  <1>3. Distinct(users')
    BY <1>1 DEF TokenInv, Distinct, SameUser, known
  <1>4. PendingIsUnused'
    <2> SUFFICES ASSUME NEW h \in Slots, Pending(req'[h])
                 PROVE /\ Unused(req'[h].token, users', Links(mailed'))
                       /\ \A g \in Slots : g # h /\ (Pending(req'[g]) \/ OnItsWay(req'[g])) =>
                            req'[g].token # req'[h].token
      BY DEF PendingIsUnused
    <2>1. Pending(req[h]) /\ req'[h].token = req[h].token BY <1>2 DEF Follows
    <2>2. /\ Unused(req[h].token, users, Links(mailed))
          /\ \A g \in Slots : g # h /\ (Pending(req[g]) \/ OnItsWay(req[g])) => req[g].token # req[h].token
      BY <2>1 DEF TokenInv, PendingIsUnused
    <2>3. \A g \in Slots : Pending(req'[g]) \/ OnItsWay(req'[g]) =>
             (Pending(req[g]) \/ OnItsWay(req[g])) /\ req'[g].token = req[g].token
      BY <1>2 DEF Follows
    <2>4. Unused(req'[h].token, users', Links(mailed'))
      BY <1>1, <1>2, <2>1, <2>2 DEF Unused, SameUser, known
    <2> QED BY <2>1, <2>2, <2>3, <2>4
  <1>5. WayIsAddressed'
    <2> SUFFICES ASSUME NEW h \in Slots, OnItsWay(req'[h]), NEW u \in known
                 PROVE Addressed(req'[h], users'[u], settings'.offers)
      BY <1>1 DEF WayIsAddressed
    <2>1. OnItsWay(req[h]) /\ req'[h].token = req[h].token /\ req'[h].name = req[h].name
          /\ req'[h].email = req[h].email
      BY <1>2 DEF Follows
    <2>2. Addressed(req[h], users[u], settings.offers) BY <2>1 DEF TokenInv, WayIsAddressed, known
    <2> QED BY <1>1, <1>2, <2>1, <2>2 DEF Addressed, SameUser
  <1>6. MailIsAddressed'
    BY <1>1, <1>2 DEF TokenInv, MailIsAddressed, SameUser, Swaps, known
  <1>7. LinksWereMailed'
    BY <1>2 DEF TokenInv, LinksWereMailed, Follows
  <1>8. Verified'
    BY <1>1, <1>2 DEF TokenInv, Verified, SameUser, Swaps, known
  <1> QED BY <1>3, <1>4, <1>5, <1>6, <1>7, <1>8 DEF TokenInv

LEMMA NextFields ==
  ASSUME NEW r \in ReqType, r.st \in {"auth", "policy", "name", "past"}
  PROVE LET s == NextStage(r)
        IN /\ s \in ReqType /\ s.st \in WriteStages /\ Keeps(s, r) /\ s.token = r.token
           /\ r.st = "auth" => Reaches(r, s, 2)
           /\ r.st = "policy" => Reaches(r, s, 3)
           /\ r.st = "name" => Reaches(r, s, 4)
           /\ r.st = "past" => s.st = "store"
  <1> DEFINE s == NextStage(r)
  <1>1. /\ r.st = "auth" => Reaches(r, s, 2)
        /\ r.st = "policy" => Reaches(r, s, 3)
        /\ r.st = "name" => Reaches(r, s, 4)
        /\ r.st = "past" => Reaches(r, s, 6)
    BY NextReaches
  <1> HIDE DEF s
  <1>2. s \in ReqType /\ s = [r EXCEPT !.st = s.st] /\ s.st \in WriteStages
    BY <1>1 DEF Reaches
  <1>3. Keeps(s, r) BY <1>2 DEF ReqType, Keeps
  <1>4. s.token = r.token BY <1>3 DEF Keeps
  <1>5. r.st = "past" => s.st = "store" BY <1>1 DEF Reaches, WriteStages
  <1> QED BY <1>1, <1>2, <1>3, <1>4, <1>5 DEF s

LEMMA OnwardIsQuiet ==
  ASSUME TypeInv, NEW h \in Slots, NEW f, Go(h, f), Follows(f, req[h]), SameUsers,
         settings' = settings, presented' = presented, Links(mailed') = Links(mailed)
  PROVE Quiet
  <1>1. req' = [req EXCEPT ![h] = f] /\ req \in [Slots -> ReqType] BY DEF Go, TypeInv, Reqs
  <1>2. \A g \in Slots : Follows(req[g], req[g]) BY DEF Follows
  <1>3. \A g \in Slots : Follows(req'[g], req[g]) BY <1>1, <1>2
  <1> QED BY <1>3 DEF Quiet

LEMMA NobodyChanges ==
  ASSUME UNCHANGED users
  PROVE SameUsers
  BY DEF SameUsers, SameUser

LEMMA CountedIsSame ==
  ASSUME TypeInv, NEW u, NEW w, Counted(u, w)
  PROVE SameUsers
  <1>1. KnownIn(users') = KnownIn(users) /\ u \in KnownIn(users) /\ u \in Users BY CountedKnown
  <1>2. users' = [users EXCEPT ![u] = w] /\ KeepsUser(w, users[u]) BY DEF Counted
  <1>3. users \in [Users -> RowType \cup {None}] /\ KnownIn(users) \subseteq Users
    BY DEF TypeInv, Stored, KnownIn
  <1>4. ASSUME NEW v \in KnownIn(users) PROVE SameUser(users'[v], users[v])
    <2>1. CASE v = u BY <1>1, <1>2, <1>3, <2>1 DEF SameUser, KeepsUser
    <2>2. CASE v # u
      <3>1. users'[v] = users[v] BY <1>2, <1>3, <2>2
      <3> QED BY <3>1 DEF SameUser
    <2> QED BY <2>1, <2>2
  <1> QED BY <1>1, <1>4 DEF SameUsers

LEMMA TokenlessFollows ==
  ASSUME NEW f, NEW r, f.token = 0, ~Link(f)
  PROVE Follows(f, r)
  BY DEF Follows, Pending, OnItsWay

LEMMA ReadIsQuiet ==
  ASSUME TypeInv, NEW h \in Slots, NEW f, Read(h, f), Follows(f, req[h])
  PROVE Quiet
  <1>1. Go(h, f) /\ UNCHANGED <<settings, users, mailed, presented>> BY DEF Read, histories
  <1> QED BY <1>1, OnwardIsQuiet, NobodyChanges

LEMMA RefuseIsQuiet ==
  ASSUME TypeInv, NEW h \in Slots, Refuse(h)
  PROVE Quiet
  <1>1. Idle.token = 0 /\ ~Link(Idle) BY IdleFields DEF Link
  <1>2. Follows(Idle, req[h]) BY <1>1, TokenlessFollows
  <1>3. Go(h, Idle) /\ UNCHANGED <<settings, users, mailed, presented>>
    BY DEF Refuse, Finish, histories
  <1> QED BY <1>2, <1>3, OnwardIsQuiet, NobodyChanges

LEMMA ArrivesIsQuiet ==
  ASSUME TypeInv, NEW h \in Slots, Arrives(h)
  PROVE Quiet
  <1>1. PICK r : Arrived(h, r) BY ArrivesBegins
  <1>2. /\ Go(h, r) /\ Begun(r) /\ UNCHANGED <<settings, users, mailed, presented>>
    BY <1>1 DEF Arrived, histories
  <1>3. /\ r.token # 0 => r.st \in {"verify", "checkReset"}
        /\ r.st = "verify" => \E m \in mailed : m.what = "verify" /\ m.token = r.token
        /\ r.st # "confirm"
    BY <1>2 DEF Begun, WriteStages
  <1>4. Follows(r, req[h])
    BY <1>3 DEF Follows, Pending, OnItsWay, Link, Links
  <1> QED BY <1>2, <1>4, OnwardIsQuiet, NobodyChanges

LEMMA StageIsQuiet ==
  ASSUME TypeInv, NEW h \in Slots, req[h].st \in {"auth", "policy", "name"}, Read(h, NextStage(req[h]))
  PROVE Quiet
  <1> DEFINE r == req[h]
             s == NextStage(r)
  <1>1. r \in ReqType /\ Sound(r, KnownIn(users), issued, settings.offers) BY ReqTypes
  <1>2. r.token = 0 BY <1>1 DEF Sound, WriteStages, ReqType
  <1>3. s.st \in WriteStages /\ s.token = 0 BY <1>1, <1>2, NextFields
  <1>4. Follows(s, r) BY <1>3, TokenlessFollows DEF Link, WriteStages
  <1> QED BY <1>4, ReadIsQuiet

LEMMA CollectIsQuiet ==
  ASSUME TypeInv, NEW h \in Slots, CollectHistory(h)
  PROVE Quiet
  <1> DEFINE s == WithPast(NextStage(req[h]), KeptPasswords(users[req[h].user]))
  <1>1. req[h].st = "past" /\ Read(h, s) /\ s.st = "store" /\ s.token = req[h].token
    BY CollectHistoryIs
  <1> HIDE DEF s
  <1>2. Follows(s, req[h]) BY <1>1 DEF Follows, Pending, OnItsWay, Link
  <1> QED BY <1>1, <1>2, ReadIsQuiet

LEMMA HandleAuthDataIsQuiet ==
  ASSUME TypeInv, NEW h \in Slots, HandleAuthData(h)
  PROVE Quiet
  <1> DEFINE r == req[h]
  <1>1. req[h].st = "auth" BY DEF HandleAuthData
  <1>2. \/ Read(h, NextStage(r))
        \/ \E u \in KnownIn(users) : Read(h, SignedIn(r, u, users[u].pw))
        \/ Refuse(h)
    BY KnownIsKnown DEF HandleAuthData, SignedIn
  <1>3. ASSUME NEW u \in KnownIn(users), Read(h, SignedIn(r, u, users[u].pw)) PROVE Quiet
    <2> DEFINE s == SignedIn(r, u, users[u].pw)
    <2>1. s.st = "session" /\ s.token = 0 BY <1>1, SignsIn
    <2>2. Follows(s, r) BY <2>1, TokenlessFollows DEF Link
    <2> QED BY <1>3, <2>2, ReadIsQuiet
  <1> QED BY <1>1, <1>2, <1>3, StageIsQuiet, RefuseIsQuiet

LEMMA SessionsIsQuiet ==
  ASSUME TypeInv, NEW h \in Slots,
         ClearSessions(h) \/ DestroyDuplicatedSessions(h) \/ CreateSession(h) \/ DeleteSession(h)
  PROVE Quiet
  <1>1. UNCHANGED <<settings, users, mailed, presented>>
    BY DEF ClearSessions, DestroyDuplicatedSessions, CreateSession, DeleteSession, histories
  <1>2. Idle.token = 0 /\ ~Link(Idle) BY IdleFields DEF Link
  <1>3. \E f : Go(h, f) /\ Follows(f, req[h])
    <2>1. CASE DeleteSession(h)
      <3>1. Go(h, Idle) /\ Follows(Idle, req[h]) BY <1>2, <2>1, TokenlessFollows DEF DeleteSession, Finish
      <3> QED BY <3>1
    <2>2. CASE ClearSessions(h)
      <3>1. PICK f : /\ Go(h, f)
                     /\ f = Idle \/ (f.st \in {"session", "mail"} /\ Keeps(f, req[h]))
        BY <2>2, ClearSessionsIs
      <3>2. req[h].st = "clear" BY <2>2 DEF ClearSessions
      <3>3. Follows(f, req[h])
        BY <1>2, <3>1, <3>2, TokenlessFollows DEF Follows, Keeps, Pending, OnItsWay, Link
      <3> QED BY <3>1, <3>3
    <2>3. CASE DestroyDuplicatedSessions(h)
      <3>1. PICK f : /\ Go(h, f) /\ f.st = "insert" /\ f.name = req[h].name /\ f.email = req[h].email
                     /\ f.token = req[h].token
        BY <2>3, DestroyIs
      <3>2. req[h].st = "session" BY <2>3 DEF DestroyDuplicatedSessions
      <3>3. Follows(f, req[h]) BY <3>1, <3>2 DEF Follows, Pending, OnItsWay, Link
      <3> QED BY <3>1, <3>3
    <2>4. CASE CreateSession(h)
      <3> DEFINE f == SendMail(req[h])
      <3>1. Go(h, f) /\ (f = Idle \/ (f.st = "mail" /\ Keeps(f, req[h])))
        BY <2>4, CreateSessionIs
      <3>2. req[h].st = "insert" BY <2>4 DEF CreateSession
      <3> HIDE DEF f
      <3>3. Follows(f, req[h])
        BY <1>2, <3>1, <3>2, TokenlessFollows DEF Follows, Keeps, Pending, OnItsWay, Link
      <3> QED BY <3>1, <3>3
    <2> QED BY <2>1, <2>2, <2>3, <2>4
  <1> QED BY <1>1, <1>3, OnwardIsQuiet, NobodyChanges

LEMMA ChecksIsQuiet ==
  ASSUME TypeInv, NEW h \in Slots, ValidatePasswordHistory(h) \/ ValidateUserName(h)
  PROVE Quiet
  <1>1. /\ req[h].st \in {"policy", "name"}
        /\ Refuse(h) \/ Read(h, NextStage(req[h]))
    BY DEF ValidatePasswordHistory, ValidateUserName
  <1> QED BY <1>1, StageIsQuiet, RefuseIsQuiet

LEMMA LogsInIsQuiet ==
  ASSUME TypeInv, NEW h \in Slots, LogsIn(h)
  PROVE Quiet
  <1>1. \/ Refuse(h)
        \/ \E f : LoggingIn(h, f) /\ (users' = users \/ \E u, w : Counted(u, w))
    BY LogsInIs
  <1>2. ASSUME NEW f, LoggingIn(h, f), users' = users \/ \E u, w : Counted(u, w) PROVE Quiet
    <2>1. SameUsers BY <1>2, NobodyChanges, CountedIsSame
    <2>2. /\ Go(h, f) /\ UNCHANGED <<settings, mailed, presented>>
          /\ f.token = 0 /\ ~Link(f)
      BY <1>2, IdleFields DEF LoggingIn, histories, Link, LogInStages
    <2> QED BY <2>1, <2>2, TokenlessFollows, OnwardIsQuiet
  <1> QED BY <1>1, <1>2, RefuseIsQuiet

LEMMA VerifyEmailIsQuiet ==
  ASSUME TypeInv, NEW h \in Slots, VerifyEmail(h)
  PROVE Quiet
  <1> DEFINE f == At(req[h], "confirm")
  <1>1. /\ Refuse(h) \/ Read(h, f)
        /\ req[h].st = "verify" /\ f.st = "confirm" /\ Keeps(f, req[h])
    BY VerifyEmailIs
  <1> HIDE DEF f
  <1>2. Follows(f, req[h]) BY <1>1 DEF Follows, Keeps, Pending, OnItsWay, Link
  <1> QED BY <1>1, <1>2, ReadIsQuiet, RefuseIsQuiet

LEMMA CheckResetIsQuiet ==
  ASSUME TypeInv, NEW h \in Slots, CheckResetToken(h)
  PROVE Quiet
  <1>1. Refuse(h) \/ \E f : Read(h, f) /\ f.st \in WriteStages /\ f.token = 0
    BY CheckResetIs
  <1>2. ASSUME NEW f, Read(h, f), f.st \in WriteStages, f.token = 0 PROVE Quiet
    <2>1. Follows(f, req[h]) BY <1>2, TokenlessFollows DEF Link, WriteStages
    <2> QED BY <1>2, <2>1, ReadIsQuiet
  <1> QED BY <1>1, <1>2, RefuseIsQuiet

LEMMA ResetMailsAreNoLinks ==
  ASSUME NEW sent, NEW new, \A m \in new : m.what = "reset"
  PROVE Links(sent \cup new) = Links(sent)
  BY DEF Links

LEMMA FindResetIsQuiet ==
  ASSUME TypeInv, NEW h \in Slots, FindResetToken(h)
  PROVE Quiet
  <1> DEFINE valid == {u \in Known : users[u].email = req[h].email /\ users[u].rtoken # 0 /\ users[u].rexpires > now}
             new == {ResetMail(u, users[u].rtoken) : u \in valid}
             f == At(req[h], "setReset")
  <1>1. /\ req[h].st = "findReset"
        /\ \/ Read(h, f)
           \/ mailed' = mailed \cup new /\ Go(h, Idle) /\ UNCHANGED <<settings, users, presented>>
    BY DEF FindResetToken, Finish, At
  <1>2. CASE Read(h, f)
    <2>1. req[h] \in ReqType /\ f.st = "setReset" /\ Keeps(f, req[h])
      BY <1>1, ReqTypes, AtType, StagesAre
    <2> HIDE DEF f
    <2>2. Follows(f, req[h]) BY <2>1 DEF Follows, Pending, OnItsWay, Link
    <2> QED BY <1>2, <2>2, ReadIsQuiet
  <1>3. CASE mailed' = mailed \cup new /\ Go(h, Idle) /\ UNCHANGED <<settings, users, presented>>
    <2>1. \A m \in new : m.what = "reset" BY DEF ResetMail
    <2> HIDE DEF new
    <2>2. Links(mailed') = Links(mailed) BY <1>3, <2>1, ResetMailsAreNoLinks
    <2>3. Follows(Idle, req[h]) BY IdleFields, TokenlessFollows DEF Link
    <2> QED BY <1>3, <2>2, <2>3, NobodyChanges, OnwardIsQuiet
  <1> QED BY <1>1, <1>2, <1>3

LEMMA SetResetIsQuiet ==
  ASSUME TypeInv, NEW h \in Slots, SetPasswordResetToken(h)
  PROVE Quiet
  <1>1. Refuse(h) \/ \E u, w : Resets(h, u, w) BY SetResetIs
  <1>2. ASSUME NEW u, NEW w, Resets(h, u, w) PROVE Quiet
    <2>1. SameUsers BY <1>2, CountedIsSame DEF Resets
    <2>2. Go(h, Idle) /\ UNCHANGED <<settings, presented>> BY <1>2 DEF Resets
    <2>3. PICK m : m.what = "reset" /\ mailed' = mailed \cup {m} BY <1>2 DEF Resets
    <2>4. Links(mailed') = Links(mailed)
      <3> DEFINE new == {m}
      <3>1. \A x \in new : x.what = "reset" BY <2>3
      <3>2. mailed' = mailed \cup new BY <2>3
      <3> HIDE DEF new
      <3> QED BY <3>1, <3>2, ResetMailsAreNoLinks
    <2>5. Follows(Idle, req[h]) BY IdleFields, TokenlessFollows DEF Link
    <2> QED BY <2>1, <2>2, <2>4, <2>5, OnwardIsQuiet
  <1> QED BY <1>1, <1>2, RefuseIsQuiet

LEMMA NobodyMoves ==
  ASSUME UNCHANGED <<settings, users, req, mailed, presented>>
  PROVE Quiet
  BY NobodyChanges DEF Quiet, Follows

\* A token made now belongs to nobody yet.
LEMMA TokensAreOld ==
  ASSUME TypeInv
  PROVE /\ issued \in Nat
        /\ \A u \in KnownIn(users) : users[u].vtoken \in Nat /\ users[u].vtoken <= issued
        /\ \A m \in Links(mailed) : m.token \in Nat /\ m.token <= issued /\ m.token # 0
        /\ \A g \in Slots : Pending(req[g]) \/ OnItsWay(req[g]) =>
             req[g].token \in Nat /\ req[g].token <= issued
  <1>1. issued \in Nat BY DEF TypeInv, Stored
  <1>2. ASSUME NEW u \in KnownIn(users) PROVE users[u].vtoken \in Nat /\ users[u].vtoken <= issued
    <2>1. users[u] \in RowType BY RowTypes
    <2>2. Covers(issued, users[u]) BY DEF TypeInv, Stored
    <2> QED BY <2>1, <2>2 DEF RowType, Covers
  <1>3. ASSUME NEW m \in Links(mailed) PROVE m.token \in Nat /\ m.token <= issued /\ m.token # 0
    <2>1. m \in mailed /\ m.what = "verify" BY DEF Links
    <2>2. m.token \in 1..issued BY <2>1, MailTypes
    <2> QED BY <1>1, <2>2
  <1>4. ASSUME NEW g \in Slots, Pending(req[g]) \/ OnItsWay(req[g])
        PROVE req[g].token \in Nat /\ req[g].token <= issued
    <2>1. req[g].st # "checkReset" BY <1>4 DEF Pending, OnItsWay
    <2>2. req[g] \in ReqType /\ Sound(req[g], KnownIn(users), issued, settings.offers) BY ReqTypes
    <2>3. req[g].token <= issued BY <2>1, <2>2 DEF Sound
    <2> QED BY <2>2, <2>3 DEF ReqType
  <1> QED BY <1>1, <1>2, <1>3, <1>4

LEMMA FreshPends ==
  ASSUME TypeInv, TokenInv, NEW h \in Slots, NEW f, Go(h, f), Pending(f), f.token = issued + 1,
         UNCHANGED <<settings, users, mailed, presented>>
  PROVE TokenInv'
  <1>1. req' = [req EXCEPT ![h] = f] /\ req \in [Slots -> ReqType] BY DEF Go, TypeInv, Reqs
  <1>2. ~OnItsWay(f) /\ ~Link(f) BY DEF Pending, OnItsWay, Link
  <1>3. /\ Unused(f.token, users, Links(mailed))
        /\ \A g \in Slots : Pending(req[g]) \/ OnItsWay(req[g]) => req[g].token # f.token
    <2> DEFINE fresh == f.token
    <2>1. issued \in Nat /\ \A n \in Nat : n <= issued => n # fresh BY TokensAreOld
    <2> HIDE DEF fresh
    <2>2. \A u \in KnownIn(users) : users[u].vtoken # fresh BY <2>1, TokensAreOld
    <2>3. \A m \in Links(mailed) : m.token # fresh BY <2>1, TokensAreOld
    <2>4. \A g \in Slots : Pending(req[g]) \/ OnItsWay(req[g]) => req[g].token # fresh
      BY <2>1, TokensAreOld
    <2> QED BY <2>2, <2>3, <2>4 DEF Unused, fresh
  <1>4. req'[h] = f /\ \A g \in Slots : g # h => req'[g] = req[g] BY <1>1
  <1>5. PendingIsUnused'
    <2> SUFFICES ASSUME NEW k \in Slots, Pending(req'[k])
                 PROVE /\ Unused(req'[k].token, users', Links(mailed'))
                       /\ \A g \in Slots : g # k /\ (Pending(req'[g]) \/ OnItsWay(req'[g])) =>
                            req'[g].token # req'[k].token
      BY DEF PendingIsUnused
    <2>1. CASE k = h BY <1>3, <1>4, <2>1
    <2>2. CASE k # h
      <3>1. req'[k] = req[k] /\ Pending(req[k]) BY <1>4, <2>2
      <3>2. /\ Unused(req[k].token, users, Links(mailed)) /\ req[k].token # f.token
            /\ \A g \in Slots : g # k /\ (Pending(req[g]) \/ OnItsWay(req[g])) => req[g].token # req[k].token
        BY <1>3, <3>1 DEF TokenInv, PendingIsUnused
      <3> QED BY <1>4, <3>1, <3>2
    <2> QED BY <2>1, <2>2
  <1>6. WayIsAddressed' BY <1>2, <1>4 DEF TokenInv, WayIsAddressed
  <1>7. LinksWereMailed' BY <1>2, <1>4 DEF TokenInv, LinksWereMailed
  <1>8. Distinct(users') BY DEF TokenInv
  <1>9. MailIsAddressed' /\ Verified' BY DEF TokenInv, MailIsAddressed, Verified, Swaps
  <1> QED BY <1>5, <1>6, <1>7, <1>8, <1>9 DEF TokenInv

\* Whoever asks for another mail may be sent the token the user has.
LEMMA HeldTokenGoesOut ==
  ASSUME TypeInv, TokenInv, NEW h \in Slots, NEW f, Go(h, f), OnItsWay(f),
         NEW u \in KnownIn(users), f.token = users[u].vtoken, f.name = users[u].name,
         f.email = users[u].email,
         UNCHANGED <<settings, users, mailed, presented>>
  PROVE TokenInv'
  <1>1. req' = [req EXCEPT ![h] = f] /\ req \in [Slots -> ReqType] BY DEF Go, TypeInv, Reqs
  <1>2. ~Pending(f) /\ ~Link(f) BY DEF Pending, OnItsWay, Link
  <1>4. req'[h] = f /\ \A g \in Slots : g # h => req'[g] = req[g] BY <1>1
  <1>5. PendingIsUnused'
    <2> SUFFICES ASSUME NEW k \in Slots, Pending(req'[k])
                 PROVE /\ Unused(req'[k].token, users', Links(mailed'))
                       /\ \A g \in Slots : g # k /\ (Pending(req'[g]) \/ OnItsWay(req'[g])) =>
                            req'[g].token # req'[k].token
      BY DEF PendingIsUnused
    <2>1. k # h /\ req'[k] = req[k] /\ Pending(req[k]) BY <1>2, <1>4
    <2>2. /\ Unused(req[k].token, users, Links(mailed))
          /\ \A g \in Slots : g # k /\ (Pending(req[g]) \/ OnItsWay(req[g])) => req[g].token # req[k].token
      BY <2>1 DEF TokenInv, PendingIsUnused
    <2>3. req[k].token # f.token BY <2>2 DEF Unused
    <2> QED BY <1>4, <2>1, <2>2, <2>3
  <1>6. WayIsAddressed'
    <2> SUFFICES ASSUME NEW k \in Slots, OnItsWay(req'[k]), NEW v \in KnownIn(users)
                 PROVE Addressed(req'[k], users[v], settings.offers)
      BY DEF WayIsAddressed
    <2>1. CASE k = h
      <3>1. users[v].vtoken = f.token => v = u BY DEF TokenInv, Distinct, OnItsWay
      <3> QED BY <1>4, <2>1, <3>1 DEF Addressed
    <2>2. CASE k # h BY <1>4, <2>2 DEF TokenInv, WayIsAddressed
    <2> QED BY <2>1, <2>2
  <1>7. LinksWereMailed' BY <1>2, <1>4 DEF TokenInv, LinksWereMailed
  <1>8. Distinct(users') BY DEF TokenInv
  <1>9. MailIsAddressed' /\ Verified' BY DEF TokenInv, MailIsAddressed, Verified, Swaps
  <1> QED BY <1>5, <1>6, <1>7, <1>8, <1>9 DEF TokenInv

\* One row is written and nothing else that tokens depend on.
Puts(u, w) ==
  /\ u \in Users /\ w \in RowType /\ ~Duplicate(u, w)
  /\ users' = [users EXCEPT ![u] = w]
  /\ UNCHANGED <<settings, mailed, presented>>

LEMMA PutsIs ==
  ASSUME TypeInv, NEW u, NEW w, Puts(u, w)
  PROVE /\ KnownIn(users') = KnownIn(users) \cup {u} /\ users'[u] = w
        /\ \A v \in KnownIn(users') : v # u => v \in KnownIn(users) /\ users'[v] = users[v]
        /\ \A v \in KnownIn(users) : v # u =>
             /\ w.name = users[v].name => w.name = None
             /\ w.email = users[v].email => w.email = None
  <1>1. /\ users \in [Users -> RowType \cup {None}] /\ None \notin RowType
    BY SettingsConstants DEF TypeInv, Stored
  <1>2. users' = [users EXCEPT ![u] = w] /\ u \in Users /\ w \in RowType /\ ~Duplicate(u, w)
    BY DEF Puts
  <1>3. KnownIn(users') = KnownIn(users) \cup {u} /\ users'[u] = w
    BY <1>1, <1>2 DEF KnownIn
  <1>4. \A v \in KnownIn(users') : v # u => v \in KnownIn(users) /\ users'[v] = users[v]
    BY <1>1, <1>2 DEF KnownIn
  <1>5. ASSUME NEW v \in KnownIn(users), v # u
        PROVE /\ w.name = users[v].name => w.name = None
              /\ w.email = users[v].email => w.email = None
    <2>1. v \in Others(u) BY <1>5, KnownIsKnown DEF Others
    <2> QED BY <1>2, <2>1 DEF Duplicate
  <1> QED BY <1>3, <1>4, <1>5

LEMMA PutsDistinct ==
  ASSUME TypeInv, TokenInv, NEW u, NEW w, Puts(u, w),
         \A v \in KnownIn(users) : v # u /\ users[v].vtoken = w.vtoken => w.vtoken = 0
  PROVE Distinct(users')
  <1>1. /\ KnownIn(users') = KnownIn(users) \cup {u} /\ users'[u] = w
        /\ \A v \in KnownIn(users') : v # u => v \in KnownIn(users) /\ users'[v] = users[v]
        /\ \A v \in KnownIn(users) : v # u =>
             /\ w.name = users[v].name => w.name = None
             /\ w.email = users[v].email => w.email = None
    BY PutsIs
  <1>2. Distinct(users) BY DEF TokenInv
  <1> DEFINE Apart(a, b) == /\ a.name = b.name => a.name = None
                            /\ a.email = b.email => a.email = None
                            /\ a.vtoken = b.vtoken => a.vtoken = 0
  <1>3. \A a, b \in KnownIn(users) : a # b => Apart(users[a], users[b]) BY <1>2 DEF Distinct
  <1>4. \A v \in KnownIn(users) : v # u => Apart(users[v], w) /\ Apart(w, users[v]) BY <1>1
  <1>5. ASSUME NEW a \in KnownIn(users'), NEW b \in KnownIn(users'), a # b
        PROVE Apart(users'[a], users'[b])
    <2>1. CASE a = u BY <1>1, <1>4, <1>5, <2>1
    <2>2. CASE b = u BY <1>1, <1>4, <1>5, <2>2
    <2>3. CASE a # u /\ b # u BY <1>1, <1>3, <1>5, <2>3
    <2> QED BY <2>1, <2>2, <2>3
  <1> QED BY <1>5 DEF Distinct

\* The row gets the pending token of the request that writes it.
TokenStored(h, u, w, f) ==
  /\ Puts(u, w) /\ Go(h, f)
  /\ Pending(req[h]) /\ w.vtoken = req[h].token /\ ~w.verified
  /\ ~Pending(f) /\ ~Link(f)
  /\ OnItsWay(f) => f.token = req[h].token /\ Addressed(f, w, settings.offers)

LEMMA TokenStoredKeeps ==
  ASSUME TypeInv, TokenInv, NEW h \in Slots, NEW u, NEW w, NEW f, TokenStored(h, u, w, f)
  PROVE TokenInv'
  <1> DEFINE t == req[h].token
  <1>0. Puts(u, w) BY DEF TokenStored
  <1>1. /\ KnownIn(users') = KnownIn(users) \cup {u} /\ users'[u] = w
        /\ \A v \in KnownIn(users') : v # u => v \in KnownIn(users) /\ users'[v] = users[v]
    BY <1>0, PutsIs
  <1>2. req' = [req EXCEPT ![h] = f] /\ req \in [Slots -> ReqType] BY DEF TokenStored, Go, TypeInv, Reqs
  <1>3. req'[h] = f /\ \A g \in Slots : g # h => req'[g] = req[g] BY <1>2
  <1>4. /\ Pending(req[h]) /\ w.vtoken = t /\ ~w.verified /\ ~Pending(f) /\ ~Link(f)
        /\ OnItsWay(f) => f.token = t /\ Addressed(f, w, settings.offers)
        /\ UNCHANGED <<settings, mailed, presented>>
    BY DEF TokenStored, Puts
  <1>5. /\ \A v \in KnownIn(users) : users[v].vtoken # t
        /\ \A m \in Links(mailed) : m.token # t
        /\ \A g \in Slots : g # h /\ (Pending(req[g]) \/ OnItsWay(req[g])) => req[g].token # t
    BY <1>4 DEF TokenInv, PendingIsUnused, Unused
  <1> HIDE DEF t
  <1>6. Distinct(users') BY <1>0, <1>4, <1>5, PutsDistinct
  <1>7. PendingIsUnused'
    <2> SUFFICES ASSUME NEW k \in Slots, Pending(req'[k])
                 PROVE /\ Unused(req'[k].token, users', Links(mailed'))
                       /\ \A g \in Slots : g # k /\ (Pending(req'[g]) \/ OnItsWay(req'[g])) =>
                            req'[g].token # req'[k].token
      BY DEF PendingIsUnused
    <2>1. k # h /\ req'[k] = req[k] /\ Pending(req[k]) BY <1>3, <1>4
    <2>2. /\ Unused(req[k].token, users, Links(mailed))
          /\ \A g \in Slots : g # k /\ (Pending(req[g]) \/ OnItsWay(req[g])) => req[g].token # req[k].token
      BY <2>1 DEF TokenInv, PendingIsUnused
    <2>3. req[k].token # t BY <1>5, <2>1
    <2>4. Unused(req[k].token, users', Links(mailed')) BY <1>1, <1>4, <2>2, <2>3 DEF Unused
    <2> QED BY <1>3, <1>4, <2>1, <2>2, <2>3, <2>4
  <1>8. WayIsAddressed'
    <2> SUFFICES ASSUME NEW k \in Slots, OnItsWay(req'[k]), NEW v \in KnownIn(users')
                 PROVE Addressed(req'[k], users'[v], settings.offers)
      BY <1>4 DEF WayIsAddressed
    <2>1. CASE k = h
      <3>1. OnItsWay(f) /\ f.token = t /\ Addressed(f, w, settings.offers) BY <1>3, <1>4, <2>1
      <3>2. CASE v = u BY <1>1, <1>3, <2>1, <3>1, <3>2
      <3>3. CASE v # u BY <1>1, <1>3, <1>5, <2>1, <3>1, <3>3 DEF Addressed
      <3> QED BY <3>2, <3>3
    <2>2. CASE k # h
      <3>1. OnItsWay(req[k]) /\ req'[k] = req[k] /\ req[k].token # t BY <1>3, <1>5, <2>2
      <3>2. CASE v = u BY <1>1, <1>4, <3>1, <3>2 DEF Addressed
      <3>3. CASE v # u BY <1>1, <3>1, <3>3 DEF TokenInv, WayIsAddressed
      <3> QED BY <3>2, <3>3
    <2> QED BY <2>1, <2>2
  <1>9. LinksWereMailed' BY <1>3, <1>4 DEF TokenInv, LinksWereMailed
  <1>10. MailIsAddressed' BY <1>1, <1>4, <1>5 DEF TokenInv, MailIsAddressed, Swaps
  <1>11. Verified' BY <1>1, <1>4 DEF TokenInv, Verified, Swaps
  <1> QED BY <1>6, <1>7, <1>8, <1>9, <1>10, <1>11 DEF TokenInv

\* The write of a request without a token: a new user, or one that keeps its token
\* and its address, and its name too unless names are changed.
TokenLeft(h, u, w, f) ==
  /\ Puts(u, w) /\ Go(h, f) /\ f.token = 0 /\ ~Link(f)
  /\ \/ w.vtoken = 0 /\ ~w.verified
     \/ /\ u \in KnownIn(users)
        /\ w.vtoken = users[u].vtoken /\ w.email = users[u].email /\ w.verified = users[u].verified
        /\ "setName" \notin settings.offers => w.name = users[u].name

LEMMA TokenLeftKeeps ==
  ASSUME TypeInv, TokenInv, NEW h \in Slots, NEW u, NEW w, NEW f, TokenLeft(h, u, w, f)
  PROVE TokenInv'
  <1>0. Puts(u, w) BY DEF TokenLeft
  <1>1. /\ KnownIn(users') = KnownIn(users) \cup {u} /\ users'[u] = w
        /\ \A v \in KnownIn(users') : v # u => v \in KnownIn(users) /\ users'[v] = users[v]
    BY <1>0, PutsIs
  <1>2. req' = [req EXCEPT ![h] = f] /\ req \in [Slots -> ReqType] BY DEF TokenLeft, Go, TypeInv, Reqs
  <1>3. /\ \A g \in Slots : g # h => req'[g] = req[g]
        /\ req'[h] = f /\ ~Pending(f) /\ ~OnItsWay(f) /\ ~Link(f)
    BY <1>2 DEF TokenLeft, Pending, OnItsWay
  <1>4. \/ w.vtoken = 0 /\ ~w.verified
        \/ /\ u \in KnownIn(users)
           /\ w.vtoken = users[u].vtoken /\ w.email = users[u].email /\ w.verified = users[u].verified
           /\ "setName" \notin settings.offers => w.name = users[u].name
    BY DEF TokenLeft
  <1>5. UNCHANGED <<settings, mailed, presented>> BY <1>0 DEF Puts
  <1>6. Distinct(users')
    <2>1. \A v \in KnownIn(users) : v # u /\ users[v].vtoken = w.vtoken => w.vtoken = 0
      BY <1>4 DEF TokenInv, Distinct
    <2> QED BY <1>0, <2>1, PutsDistinct
  <1>7. PendingIsUnused'
    <2> SUFFICES ASSUME NEW k \in Slots, Pending(req'[k])
                 PROVE /\ Unused(req'[k].token, users', Links(mailed'))
                       /\ \A g \in Slots : g # k /\ (Pending(req'[g]) \/ OnItsWay(req'[g])) =>
                            req'[g].token # req'[k].token
      BY DEF PendingIsUnused
    <2>1. k # h /\ req'[k] = req[k] /\ Pending(req[k]) BY <1>3
    <2>2. /\ Unused(req[k].token, users, Links(mailed))
          /\ \A g \in Slots : g # k /\ (Pending(req[g]) \/ OnItsWay(req[g])) => req[g].token # req[k].token
      BY <2>1 DEF TokenInv, PendingIsUnused
    <2>3. w.vtoken # req[k].token BY <1>4, <2>1, <2>2 DEF Unused, Pending
    <2>4. Unused(req[k].token, users', Links(mailed')) BY <1>1, <1>5, <2>2, <2>3 DEF Unused
    <2> QED BY <1>3, <2>1, <2>2, <2>4
  <1>8. WayIsAddressed'
    <2> SUFFICES ASSUME NEW k \in Slots, OnItsWay(req'[k]), NEW v \in KnownIn(users')
                 PROVE Addressed(req'[k], users'[v], settings.offers)
      BY <1>5 DEF WayIsAddressed
    <2>1. k # h /\ OnItsWay(req[k]) /\ req'[k] = req[k] /\ req[k].token # 0
      BY <1>3 DEF OnItsWay
    <2>2. \A x \in KnownIn(users) : Addressed(req[k], users[x], settings.offers)
      BY <2>1 DEF TokenInv, WayIsAddressed
    <2>3. CASE v = u BY <1>1, <1>4, <2>1, <2>2, <2>3 DEF Addressed
    <2>4. CASE v # u BY <1>1, <2>1, <2>2, <2>4
    <2> QED BY <2>3, <2>4
  <1>9. LinksWereMailed' BY <1>3, <1>5 DEF TokenInv, LinksWereMailed
  <1>10. MailIsAddressed'
    <2>1. \A m \in Links(mailed) : m.token # 0 BY TokensAreOld
    <2> QED BY <1>1, <1>4, <1>5, <2>1 DEF TokenInv, MailIsAddressed, Swaps
  <1>11. Verified' BY <1>1, <1>4, <1>5 DEF TokenInv, Verified, Swaps
  <1> QED BY <1>6, <1>7, <1>8, <1>9, <1>10, <1>11 DEF TokenInv

LEMMA ValidateEmailKeeps ==
  ASSUME TypeInv, TokenInv, NEW h \in Slots, ValidateEmail(h)
  PROVE TokenInv'
  <1>1. CASE Refuse(h) BY <1>1, RefuseIsQuiet, QuietKeeps
  <1>2. CASE ~Refuse(h)
    <2> DEFINE s == [NextStage(req[h]) EXCEPT !.token = issued + 1]
    <2>1. /\ req[h].st = "email" /\ Go(h, s) /\ UNCHANGED <<settings, users, mailed, presented>>
      BY <1>2 DEF ValidateEmail, histories
    <2>2. s.st \in {"past", "store"} /\ s.token = issued + 1 BY <2>1, ReqTypes, EmailIsSound
    <2>3. s.token # 0 BY <2>2, ReqTypes
    <2> HIDE DEF s
    <2> QED BY <2>1, <2>2, <2>3, FreshPends DEF Pending
  <1> QED BY <1>1, <1>2

LEMMA RegenerateKeeps ==
  ASSUME TypeInv, TokenInv, NEW h \in Slots, RegenerateToken(h)
  PROVE TokenInv'
  <1>1. \/ Refuse(h)
        \/ \E u \in Users :
             \/ Asks(h, u, "mail", users[u].vtoken) /\ users[u].vtoken # 0
             \/ Asks(h, u, "renew", issued + 1)
    BY RegenerateIs
  <1>2. ASSUME NEW u \in Users, Asks(h, u, "mail", users[u].vtoken), users[u].vtoken # 0
        PROVE TokenInv'
    <2> DEFINE f == Renewal(req[h], users[u], "mail", users[u].vtoken)
    <2>1. /\ u \in KnownIn(users) /\ Go(h, f) /\ UNCHANGED <<settings, users, mailed, presented>>
      BY <1>2 DEF Asks, histories
    <2>2. users[u] \in RowType /\ users[u].vtoken \in Nat BY <2>1, RowTypes DEF RowType
    <2>3. f.st = "mail" /\ f.token = users[u].vtoken /\ f.name = users[u].name /\ f.email = users[u].email
      <3> DEFINE row == users[u]
      <3>1. row \in RowType /\ row.vtoken \in Nat /\ req[h] \in ReqType BY <2>2, ReqTypes
      <3> HIDE DEF row
      <3>2. LET s == Renewal(req[h], row, "mail", row.vtoken)
            IN s.st = "mail" /\ s.token = row.vtoken /\ s.name = row.name /\ s.email = row.email
        BY <3>1, RenewalType
      <3> QED BY <3>2 DEF row
    <2> HIDE DEF f
    <2>4. OnItsWay(f) BY <1>2, <2>3 DEF OnItsWay
    <2> QED BY <2>1, <2>3, <2>4, HeldTokenGoesOut
  <1>3. ASSUME NEW u \in Users, Asks(h, u, "renew", issued + 1) PROVE TokenInv'
    <2> DEFINE f == Renewal(req[h], users[u], "renew", issued + 1)
    <2>1. /\ u \in KnownIn(users) /\ Go(h, f) /\ UNCHANGED <<settings, users, mailed, presented>>
      BY <1>3 DEF Asks, histories
    <2>2. users[u] \in RowType /\ issued + 1 \in Nat /\ issued + 1 # 0 BY <2>1, RowTypes, ReqTypes
    <2>3. f.st = "renew" /\ f.token = issued + 1 BY <2>2, ReqTypes, RenewalType
    <2> HIDE DEF f
    <2>4. Pending(f) BY <2>2, <2>3 DEF Pending
    <2> QED BY <2>1, <2>3, <2>4, FreshPends
  <1> QED BY <1>1, <1>2, <1>3, RefuseIsQuiet, QuietKeeps

\* How the request that has stored a row goes on.
GoesOn(f, r, u) ==
  \/ f = Idle
  \/ /\ f.st \in {"session", "clear", "mail"}
     /\ f.user = u /\ f.name = r.name /\ f.email = r.email /\ f.pw = r.pw /\ f.token = r.token
     /\ f.inst = r.inst /\ f.own = r.own
LEMMA StoresGoesOn ==
  ASSUME TypeInv, NEW h \in Slots, NEW u, NEW f, Stores(h, u, f)
  PROVE /\ GoesOn(f, req[h], u)
        /\ f.st = "session" => req[h].user = None
        /\ req[h].user # None => (f.st = "clear" <=> req[h].pw # None)
  <1> DEFINE r == req[h]
             o == Owned(r, u)
  <1>1. r \in ReqType /\ Sound(r, KnownIn(users), issued, settings.offers) /\ issued \in Nat BY ReqTypes
  <1>2. r.st = "store" /\ u \in Users BY DEF Stores
  <1>3. u # None /\ u \in {u} BY <1>2, AccountConstants
  <1>4. /\ o \in ReqType /\ o.user = u /\ o.name = r.name /\ o.email = r.email /\ o.token = r.token
        /\ o.pw = r.pw /\ o.own = r.own /\ o.inst = r.inst
    BY <1>1, <1>2, OwnedType
  <1>5. r.token <= issued /\ (r.token # 0 => r.email # None)
    BY <1>1, <1>2 DEF Sound, WriteStages
  <1>6. f = FollowUp(o, r.user = None) BY DEF Stores
  <1>7. (r.user = None) \in BOOLEAN OBVIOUS
  <1> HIDE DEF r, o
  <1>8. /\ f = Idle \/ (f.st \in {"session", "clear", "mail"} /\ Keeps(f, o))
        /\ f.st = "session" => r.user = None
        /\ r.user # None => (f.st = "clear" <=> o.pw # None)
    BY <1>1, <1>3, <1>4, <1>5, <1>6, <1>7, FollowUpIs
  <1> QED BY <1>4, <1>8 DEF GoesOn, Keeps, r

LEMMA StoresKeep ==
  ASSUME TypeInv, TokenInv, NEW h \in Slots, NEW u, NEW f, Stores(h, u, f)
  PROVE TokenInv'
  <1> DEFINE r == req[h]
             row == Before(h)
             w == Written(row, r)
  <1>1. /\ r.st = "store" /\ u \in Users /\ w \in RowType /\ Go(h, f)
        /\ r.user # None => u = r.user /\ u \in KnownIn(users) /\ row = users[u]
        /\ r.user = None => row = NewUser
        /\ Puts(u, w)
    BY DEF Stores, Puts, Before
  <1>2. Fields(w, row, r) BY StoresTypes
  <1>3. GoesOn(f, r, u) BY StoresGoesOn
  <1>4. r \in ReqType /\ Sound(r, KnownIn(users), issued, settings.offers) BY ReqTypes
  <1>5. /\ r.token # 0 <=> r.email # None
        /\ r.user # None /\ r.name # None => "setName" \in settings.offers
    BY <1>1, <1>4 DEF Sound, WriteStages
  <1>6. ~Pending(f) /\ ~Link(f) BY <1>3, IdleFields DEF GoesOn, Pending, Link
  <1>7. NewUser.vtoken = 0 /\ ~NewUser.verified BY DEF NewUser
  <1> HIDE DEF r, row, w
  <1>8. CASE r.token # 0
    <2>1. w.vtoken = r.token /\ ~w.verified /\ w.email = r.email BY <1>2, <1>5, <1>8 DEF Fields
    <2>2. Pending(r) BY <1>1, <1>8 DEF Pending
    <2>3. OnItsWay(f) => f.token = r.token /\ Addressed(f, w, settings.offers)
      BY <1>3, <1>5, <1>8, <2>1, IdleFields DEF GoesOn, OnItsWay, Addressed
    <2>4. TokenStored(h, u, w, f) BY <1>1, <1>6, <2>1, <2>2, <2>3 DEF TokenStored, r
    <2> QED BY <2>4, TokenStoredKeeps
  <1>9. CASE r.token = 0
    <2>1. f.token = 0 BY <1>3, <1>9, IdleFields DEF GoesOn
    <2>2. CASE r.user = None
      <3>1. w.vtoken = 0 /\ ~w.verified BY <1>1, <1>2, <1>7, <1>9, <2>2 DEF Fields
      <3>2. TokenLeft(h, u, w, f) BY <1>1, <1>6, <2>1, <3>1 DEF TokenLeft
      <3> QED BY <3>2, TokenLeftKeeps
    <2>3. CASE r.user # None
      <3>1. u \in KnownIn(users) /\ row = users[u] BY <1>1, <2>3
      <3>2. w.vtoken = users[u].vtoken /\ w.email = users[u].email BY <1>2, <1>5, <1>9, <3>1 DEF Fields
      <3>3. w.verified = users[u].verified
        <4>1. w.verified \in BOOLEAN /\ users[u].verified \in BOOLEAN
          BY <1>1, <3>1, RowTypes DEF RowType
        <4>2. w.verified <=> users[u].verified BY <1>2, <1>9, <3>1 DEF Fields
        <4> QED BY <4>1, <4>2
      <3>4. "setName" \notin settings.offers => w.name = users[u].name
        BY <1>2, <1>5, <2>3, <3>1 DEF Fields
      <3>5. TokenLeft(h, u, w, f) BY <1>1, <1>6, <2>1, <3>1, <3>2, <3>3, <3>4 DEF TokenLeft
      <3> QED BY <3>5, TokenLeftKeeps
    <2> QED BY <2>2, <2>3
  <1> QED BY <1>8, <1>9

LEMMA RenewsKeep ==
  ASSUME TypeInv, TokenInv, NEW h \in Slots, NEW u \in Users, Renews(h, u)
  PROVE TokenInv'
  <1> DEFINE r == req[h]
             w == Restored(users[u], r.row, r.token)
             f == At(r, "mail")
  <1>1. /\ w \in RowType /\ RestoredFields(w, users[u], r.row, r.token) /\ r.token # 0
        /\ r.name = r.row.name /\ r.email = r.row.email
    BY RenewsTypes
  <1>2. /\ r.st = "renew" /\ u \in KnownIn(users) /\ users[u].name = r.row.name
        /\ Puts(u, w) /\ Go(h, f)
    BY <1>1 DEF Renews, Puts, histories
  <1>3. f.st = "mail" /\ Keeps(f, r)
    BY ReqTypes, AtType, StagesAre
  <1> HIDE DEF r, w, f
  <1>4. Pending(r) /\ ~Pending(f) /\ ~Link(f) BY <1>1, <1>2, <1>3 DEF Pending, Link
  <1>5. w.vtoken = r.token /\ ~w.verified BY <1>1 DEF RestoredFields
  <1>6. f.token = r.token /\ Addressed(f, w, settings.offers)
    BY <1>1, <1>3 DEF Keeps, Addressed, RestoredFields
  <1>7. TokenStored(h, u, w, f) BY <1>2, <1>4, <1>5, <1>6 DEF TokenStored, r
  <1> QED BY <1>7, TokenStoredKeeps

LEMMA SendKeeps ==
  ASSUME TypeInv, TokenInv, NEW h \in Slots, SendVerificationEmail(h)
  PROVE TokenInv'
  <1> DEFINE r == req[h]
             found == {u \in Known : /\ r.name # None => users[u].name = r.name
                                     /\ r.email # None => users[u].email = r.email}
             to == IF r.name # None /\ r.email # None THEN {<<r.name, r.email>>}
                   ELSE {<<users[u].name, users[u].email>> : u \in found}
             new == {[what |-> "verify", token |-> r.token, name |-> t[1], email |-> t[2]] : t \in to}
  <1>1. /\ r.st = "mail" /\ mailed' = mailed \cup new /\ Go(h, Idle)
        /\ UNCHANGED <<settings, users, presented>>
    BY DEF SendVerificationEmail, Finish
  <1>2. r \in ReqType /\ Sound(r, KnownIn(users), issued, settings.offers) BY ReqTypes
  <1>3. /\ OnItsWay(r)
        /\ r.email = None => r.name # None /\ "askVerify" \in settings.offers
    BY <1>1, <1>2 DEF Sound, OnItsWay
  <1>4. \A u \in KnownIn(users) : Addressed(r, users[u], settings.offers)
    BY <1>3 DEF TokenInv, WayIsAddressed
  <1>5. \A m \in new : m.what = "verify" /\ m.token = r.token OBVIOUS
  <1>6. ASSUME NEW m \in new
        PROVE \/ m.email = r.email /\ r.email # None
              \/ /\ r.email = None
                 /\ \E u \in KnownIn(users) : users[u].name = r.name /\ m.email = users[u].email
    <2>1. PICK t \in to : m.email = t[2] OBVIOUS
    <2>2. CASE r.name # None /\ r.email # None BY <2>1, <2>2
    <2>3. CASE ~(r.name # None /\ r.email # None)
      <3>1. PICK u \in found : t = <<users[u].name, users[u].email>> BY <2>1, <2>3
      <3>2. m.email = users[u].email /\ u \in KnownIn(users) BY <2>1, <3>1, KnownIsKnown
      <3>3. CASE r.email # None BY <3>1, <3>2, <3>3
      <3>4. CASE r.email = None
        <4>1. users[u].name = r.name BY <1>3, <3>1, <3>4
        <4> QED BY <3>2, <3>4, <4>1
      <3> QED BY <3>3, <3>4
    <2> QED BY <2>2, <2>3
  <1> HIDE DEF new, r
  <1>7. req' = [req EXCEPT ![h] = Idle] /\ req \in [Slots -> ReqType] BY <1>1 DEF Go, TypeInv, Reqs
  <1>8. /\ \A g \in Slots : g # h => req'[g] = req[g]
        /\ req'[h] = Idle /\ ~Pending(Idle) /\ ~OnItsWay(Idle) /\ ~Link(Idle)
    BY <1>7, IdleFields DEF Pending, OnItsWay, Link
  <1>9. Links(mailed') = Links(mailed) \cup new BY <1>1, <1>5 DEF Links
  <1>10. Distinct(users') BY <1>1 DEF TokenInv
  <1>11. PendingIsUnused'
    <2> SUFFICES ASSUME NEW k \in Slots, Pending(req'[k])
                 PROVE /\ Unused(req'[k].token, users', Links(mailed'))
                       /\ \A g \in Slots : g # k /\ (Pending(req'[g]) \/ OnItsWay(req'[g])) =>
                            req'[g].token # req'[k].token
      BY DEF PendingIsUnused
    <2>1. k # h /\ req'[k] = req[k] /\ Pending(req[k]) BY <1>8
    <2>2. /\ Unused(req[k].token, users, Links(mailed))
          /\ \A g \in Slots : g # k /\ (Pending(req[g]) \/ OnItsWay(req[g])) => req[g].token # req[k].token
      BY <2>1 DEF TokenInv, PendingIsUnused
    <2>3. req[k].token # r.token BY <1>3, <2>1, <2>2 DEF r
    <2>4. Unused(req[k].token, users', Links(mailed'))
      BY <1>1, <1>5, <1>9, <2>2, <2>3 DEF Unused
    <2> QED BY <1>8, <2>1, <2>2, <2>4
  <1>12. WayIsAddressed' BY <1>1, <1>8 DEF TokenInv, WayIsAddressed
  <1>13. LinksWereMailed' BY <1>8, <1>9 DEF TokenInv, LinksWereMailed
  <1>14. MailIsAddressed'
    <2> SUFFICES ASSUME ~Swaps, NEW m \in Links(mailed'), NEW u \in KnownIn(users),
                        users[u].vtoken = m.token
                 PROVE users[u].email = m.email
      BY <1>1 DEF MailIsAddressed, Swaps
    <2>1. CASE m \in Links(mailed) BY <2>1 DEF TokenInv, MailIsAddressed
    <2>2. CASE m \in new
      <3>1. users[u].vtoken = r.token BY <1>5, <2>2
      <3>2. Addressed(r, users[u], settings.offers) BY <1>4
      <3>3. CASE m.email = r.email /\ r.email # None BY <3>1, <3>2, <3>3 DEF Addressed
      <3>4. CASE r.email = None
        <4>1. PICK v \in KnownIn(users) : users[v].name = r.name /\ m.email = users[v].email
          BY <1>6, <2>2, <3>4
        <4>2. "setName" \notin settings.offers BY <1>3, <3>4 DEF Swaps
        <4>3. users[u].name = r.name BY <3>1, <3>2, <3>4, <4>2 DEF Addressed
        <4>4. u = v BY <1>3, <3>4, <4>1, <4>3 DEF TokenInv, Distinct
        <4> QED BY <4>1, <4>4
      <3> QED BY <1>6, <2>2, <3>3, <3>4
    <2> QED BY <1>9, <2>1, <2>2
  <1>15. Verified' BY <1>1, <1>9 DEF TokenInv, Verified, Swaps
  <1> QED BY <1>10, <1>11, <1>12, <1>13, <1>14, <1>15 DEF TokenInv

LEMMA ConfirmKeeps ==
  ASSUME TypeInv, TokenInv, NEW h \in Slots, ConfirmEmail(h)
  PROVE TokenInv'
  <1> DEFINE r == req[h]
             new == [u \in Users |-> IF u \in KnownIn(users) /\ Confirmed(u, r)
                                     THEN ConfirmedRow(users[u]) ELSE users[u]]
  <1>1. /\ users' = new /\ Go(h, Idle) /\ presented' = presented \cup {r.token}
        /\ r.st = "confirm" /\ UNCHANGED <<settings, mailed>>
    BY KnownIsKnown DEF ConfirmEmail, Finish, ConfirmedRow
  <1>2. KnownIn(users') = KnownIn(users) BY ConfirmEmailTypes
  <1>3. ASSUME NEW u \in KnownIn(users)
        PROVE /\ users'[u].name = users[u].name /\ users'[u].email = users[u].email
              /\ users'[u].vtoken = users[u].vtoken \/ users'[u].vtoken = 0
              /\ users'[u].verified => users[u].verified \/ users[u].vtoken = r.token
    <2>1. u \in Users /\ users[u] \in RowType BY RowTypes
    <2>2. CASE Confirmed(u, r)
      <3>1. users'[u] = ConfirmedRow(users[u]) BY <1>1, <2>1, <2>2
      <3> QED BY <2>1, <2>2, <3>1, ConfirmedRowType DEF Confirmed
    <2>3. CASE ~Confirmed(u, r)
      <3>1. users'[u] = users[u] BY <1>1, <2>1, <2>3
      <3> QED BY <3>1
    <2> QED BY <2>2, <2>3
  <1>4. PICK m \in Links(mailed) : m.token = r.token BY <1>1 DEF TokenInv, LinksWereMailed, Link
  <1> HIDE DEF new, r
  <1>7. req' = [req EXCEPT ![h] = Idle] /\ req \in [Slots -> ReqType] BY <1>1 DEF Go, TypeInv, Reqs
  <1>8. /\ \A g \in Slots : g # h => req'[g] = req[g]
        /\ req'[h] = Idle /\ ~Pending(Idle) /\ ~OnItsWay(Idle) /\ ~Link(Idle)
    BY <1>7, IdleFields DEF Pending, OnItsWay, Link
  <1>10. Distinct(users') BY <1>2, <1>3 DEF TokenInv, Distinct
  <1>11. PendingIsUnused'
    <2> SUFFICES ASSUME NEW k \in Slots, Pending(req'[k])
                 PROVE /\ Unused(req'[k].token, users', Links(mailed'))
                       /\ \A g \in Slots : g # k /\ (Pending(req'[g]) \/ OnItsWay(req'[g])) =>
                            req'[g].token # req'[k].token
      BY DEF PendingIsUnused
    <2>1. k # h /\ req'[k] = req[k] /\ Pending(req[k]) BY <1>8
    <2>2. /\ Unused(req[k].token, users, Links(mailed)) /\ req[k].token # 0
          /\ \A g \in Slots : g # k /\ (Pending(req[g]) \/ OnItsWay(req[g])) => req[g].token # req[k].token
      BY <2>1 DEF TokenInv, PendingIsUnused, Pending
    <2>4. Unused(req[k].token, users', Links(mailed')) BY <1>1, <1>2, <1>3, <2>2 DEF Unused
    <2> QED BY <1>8, <2>1, <2>2, <2>4
  <1>12. WayIsAddressed'
    <2> SUFFICES ASSUME NEW k \in Slots, OnItsWay(req'[k]), NEW u \in KnownIn(users)
                 PROVE Addressed(req'[k], users'[u], settings.offers)
      BY <1>1, <1>2 DEF WayIsAddressed
    <2>1. req'[k] = req[k] /\ OnItsWay(req[k]) /\ req[k].token # 0 BY <1>8 DEF OnItsWay
    <2>2. Addressed(req[k], users[u], settings.offers) BY <2>1 DEF TokenInv, WayIsAddressed
    <2> QED BY <1>3, <2>1, <2>2 DEF Addressed
  <1>13. LinksWereMailed' BY <1>1, <1>8 DEF TokenInv, LinksWereMailed
  <1>14. MailIsAddressed'
    <2>1. \A x \in Links(mailed) : x.token # 0 BY TokensAreOld
    <2> QED BY <1>1, <1>2, <1>3, <2>1 DEF TokenInv, MailIsAddressed, Swaps
  <1>15. Verified'
    <2> SUFFICES ASSUME ~Swaps, NEW u \in KnownIn(users), users'[u].verified
                 PROVE \E x \in Links(mailed) : x.token \in presented' /\ x.email = users'[u].email
      BY <1>1, <1>2 DEF Verified, Swaps
    <2>1. CASE users[u].verified BY <1>1, <1>3, <2>1 DEF TokenInv, Verified
    <2>2. CASE users[u].vtoken = r.token
      <3>1. users[u].email = m.email BY <1>4, <2>2 DEF TokenInv, MailIsAddressed
      <3> QED BY <1>1, <1>3, <1>4, <3>1
    <2> QED BY <1>3, <2>1, <2>2
  <1> QED BY <1>10, <1>11, <1>12, <1>13, <1>14, <1>15 DEF TokenInv

LEMMA TokensStep ==
  ASSUME TypeInv, TokenInv, [Next]_vars
  PROVE TokenInv'
  <1>1. ASSUME NEW h \in Slots, Arrives(h) PROVE TokenInv' BY <1>1, ArrivesIsQuiet, QuietKeeps
  <1>2. ASSUME NEW h \in Slots, Writes(h) PROVE TokenInv'
    <2>1. CASE HandleAuthData(h) \/ ValidatePasswordHistory(h) \/ ValidateUserName(h) \/ CollectHistory(h)
               \/ ClearSessions(h) \/ DestroyDuplicatedSessions(h) \/ CreateSession(h) \/ DeleteSession(h)
      BY <2>1, HandleAuthDataIsQuiet, ChecksIsQuiet, CollectIsQuiet, SessionsIsQuiet, QuietKeeps
    <2>2. CASE RunDatabaseOperation(h) BY <2>2, StoreIs, StoresKeep, RefuseIsQuiet, QuietKeeps
    <2> QED BY <1>2, <2>1, <2>2, ValidateEmailKeeps, SendKeeps DEF Writes
  <1>3. ASSUME NEW h \in Slots, LogsIn(h) PROVE TokenInv' BY <1>3, LogsInIsQuiet, QuietKeeps
  <1>4. ASSUME NEW h \in Slots, UsesTokens(h) PROVE TokenInv'
    <2>1. CASE VerifyEmail(h) \/ FindResetToken(h) \/ SetPasswordResetToken(h) \/ CheckResetToken(h)
      BY <2>1, VerifyEmailIsQuiet, FindResetIsQuiet, SetResetIsQuiet, CheckResetIsQuiet, QuietKeeps
    <2>2. CASE RenewToken(h) BY <2>2, RenewIs, RenewsKeep, RefuseIsQuiet, QuietKeeps
    <2> QED BY <1>4, <2>1, <2>2, ConfirmKeeps, RegenerateKeeps DEF UsesTokens
  <1>5. ASSUME NEW h \in Slots, CallFails(h) PROVE TokenInv'
    BY <1>5, RefuseIsQuiet, QuietKeeps DEF CallFails
  <1>6. CASE StrayArrives \/ Tick \/ UNCHANGED vars
    <2>1. UNCHANGED <<settings, users, req, mailed, presented>>
      BY <1>6 DEF StrayArrives, Tick, vars, histories
    <2> QED BY <2>1, NobodyMoves, QuietKeeps
  <1> QED BY <1>1, <1>2, <1>3, <1>4, <1>5, <1>6 DEF Next

LEMMA TokensInit ==
  ASSUME Init
  PROVE TokenInv
  <1>1. LegalStart(users, sessions) BY Starts
  <1>2. mailed = {} /\ req = [h \in Slots |-> Idle] BY DEF Init
  <1>3. \A h \in Slots : ~Pending(req[h]) /\ ~OnItsWay(req[h]) /\ ~Link(req[h])
    BY <1>2, IdleFields DEF Pending, OnItsWay, Link
  <1>4. \A u \in KnownIn(users) : ~users[u].verified /\ users[u].vtoken = 0
    BY <1>1 DEF LegalStart, KnownIn
  <1>5. Distinct(users)
    <2>1. \A u, v \in KnownIn(users) : u # v =>
            /\ users[u].name # None /\ users[v].name # None => Lower[users[u].name] # Lower[users[v].name]
            /\ users[u].email = users[v].email => users[u].email = None
      BY <1>1 DEF LegalStart, KnownIn
    <2> QED BY <1>4, <2>1 DEF Distinct
  <1>6. Links(mailed) = {} BY <1>2 DEF Links
  <1> QED BY <1>3, <1>4, <1>5, <1>6
          DEF TokenInv, PendingIsUnused, WayIsAddressed, MailIsAddressed, LinksWereMailed, Verified

LEMMA TokensHold == Spec => [](TypeInv /\ TokenInv)
  <1>1. Init => TypeInv /\ TokenInv BY TypesInit, TokensInit
  <1>2. (TypeInv /\ TokenInv) /\ [Next]_vars => (TypeInv /\ TokenInv)' BY TypesStep, TokensStep
  <1> QED BY <1>1, <1>2, PTL DEF Spec

\* An address counts as verified only when a token that was mailed to it came back.
THEOREM VerificationIsSafe == Spec => []VerifiedIsMailed
  <1>1. ASSUME TokenInv PROVE VerifiedIsMailed
    <2>1. ~Swaps => \A u \in Known : users[u].verified =>
            \E m \in Links(mailed) : m.token \in presented /\ m.email = users[u].email
      BY <1>1, KnownIsKnown DEF TokenInv, Verified
    <2> QED BY <2>1 DEF VerifiedIsMailed, Swaps, Links
  <1> QED BY <1>1, TokensHold, PTL

-----------------------------------------------------------------------------
(***************************************************************************)
(* One at a time.  Where requests do not overlap, what one of them has     *)
(* read or checked still holds when it writes.                             *)
(***************************************************************************)
Single == settings.alone => \A g, h \in Slots : req[g] # Idle /\ req[h] # Idle => g = h
OthersIdle(h) == \A g \in Slots : g # h => req[g] = Idle

LEMMA WritesActs ==
  ASSUME TypeInv, NEW h \in Slots, Writes(h)
  PROVE req[h] # Idle /\ settings' = settings /\ \E f : Go(h, f)
  <1>1. CASE HandleAuthData(h) \/ ValidatePasswordHistory(h) \/ ValidateUserName(h)
    BY <1>1, IdleFields DEF HandleAuthData, ValidatePasswordHistory, ValidateUserName, Read, Refuse, Finish
  <1>2. CASE ValidateEmail(h) \/ CollectHistory(h)
    BY <1>2, IdleFields DEF ValidateEmail, CollectHistory, Read, Refuse, Finish
  <1>3. CASE RunDatabaseOperation(h)
    <2>1. req[h].st = "store" BY <1>3 DEF RunDatabaseOperation
    <2> QED BY <1>3, <2>1, StoreIs, IdleFields DEF Stores, Refuse, Finish
  <1>4. CASE ClearSessions(h) \/ SendVerificationEmail(h)
    BY <1>4, IdleFields DEF ClearSessions, SendVerificationEmail, Finish
  <1>5. CASE DestroyDuplicatedSessions(h) \/ CreateSession(h) \/ DeleteSession(h)
    BY <1>5, IdleFields DEF DestroyDuplicatedSessions, CreateSession, DeleteSession, Finish
  <1> QED BY <1>1, <1>2, <1>3, <1>4, <1>5 DEF Writes

LEMMA LogsInActs ==
  ASSUME TypeInv, NEW h \in Slots, LogsIn(h)
  PROVE req[h] # Idle /\ settings' = settings /\ \E f : Go(h, f)
  <1>1. req[h].st # "idle"
    BY DEF LogsIn, Authenticate, NotLocked, SetFailedLoginCount, IsFailedLoginCountSet,
           IncrementFailedLoginCount, SetLockoutExpiration, Admit
  <1> QED BY <1>1, IdleFields, LogsInIs DEF LoggingIn, Refuse, Finish

LEMMA UsesTokensActs ==
  ASSUME TypeInv, NEW h \in Slots, UsesTokens(h)
  PROVE req[h] # Idle /\ settings' = settings /\ \E f : Go(h, f)
  <1>1. req[h].st # "idle"
    BY DEF UsesTokens, VerifyEmail, ConfirmEmail, RegenerateToken, RenewToken,
           FindResetToken, SetPasswordResetToken, CheckResetToken
  <1>0. req[h] # Idle BY <1>1, IdleFields
  <1>2. CASE VerifyEmail(h) \/ ConfirmEmail(h) \/ FindResetToken(h)
    BY <1>0, <1>2 DEF VerifyEmail, ConfirmEmail, FindResetToken, Read, Refuse, Finish
  <1>3. CASE RegenerateToken(h) BY <1>0, <1>3, RegenerateIs DEF Asks, Refuse, Finish
  <1>4. CASE RenewToken(h) BY <1>0, <1>4, RenewIs DEF Renews, Refuse, Finish
  <1>5. CASE SetPasswordResetToken(h) BY <1>0, <1>5, SetResetIs DEF Resets, Refuse, Finish
  <1>6. CASE CheckResetToken(h) BY <1>0, <1>6, CheckResetIs DEF Read, Refuse, Finish
  <1> QED BY <1>2, <1>3, <1>4, <1>5, <1>6 DEF UsesTokens

LEMMA CallFailsActs ==
  ASSUME NEW h \in Slots, CallFails(h)
  PROVE req[h] # Idle /\ settings' = settings /\ (\E f : Go(h, f)) /\ ~settings.alone
  BY DEF CallFails, Refuse, Finish

LEMMA ArrivesAlone ==
  ASSUME TypeInv, NEW h \in Slots, Arrives(h)
  PROVE settings' = settings /\ (\E f : Go(h, f)) /\ (settings.alone => OthersIdle(h))
  <1>1. PICK r : Arrived(h, r) BY ArrivesBegins
  <1> QED BY <1>1 DEF Arrived, AtRest, OthersIdle

LEMMA OneStaysSingle ==
  ASSUME TypeInv, NEW h \in Slots, NEW f, Go(h, f), OthersIdle(h)
  PROVE \A g, k \in Slots : req'[g] # Idle /\ req'[k] # Idle => g = k
  <1>1. req' = [req EXCEPT ![h] = f] /\ req \in [Slots -> ReqType] BY DEF Go, TypeInv, Reqs
  <1>2. \A g \in Slots : g # h => req'[g] = Idle BY <1>1 DEF OthersIdle
  <1> QED BY <1>2

LEMMA SingleLeavesOthers ==
  ASSUME Single, settings.alone, NEW h \in Slots, req[h] # Idle
  PROVE OthersIdle(h)
  BY DEF Single, OthersIdle

LEMMA SingleStep ==
  ASSUME TypeInv, Single, [Next]_vars
  PROVE Single'
  <1>1. ASSUME NEW h \in Slots, Arrives(h) PROVE Single'
    BY <1>1, ArrivesAlone, OneStaysSingle DEF Single
  <1>2. ASSUME NEW h \in Slots, Writes(h) \/ LogsIn(h) \/ UsesTokens(h) \/ CallFails(h) PROVE Single'
    <2>1. req[h] # Idle /\ settings' = settings /\ \E f : Go(h, f)
      BY <1>2, WritesActs, LogsInActs, UsesTokensActs, CallFailsActs
    <2> QED BY <2>1, SingleLeavesOthers, OneStaysSingle DEF Single
  <1>3. CASE StrayArrives \/ Tick \/ UNCHANGED vars
    BY <1>3 DEF StrayArrives, Tick, vars, Single
  <1> QED BY <1>1, <1>2, <1>3 DEF Next

LEMMA SingleInit ==
  ASSUME Init
  PROVE Single
  BY DEF Init, Single

\* Identities differ in more than case, and a provider's id has one user.
Identities(rows) == \A u, v \in KnownIn(rows) : u # v =>
  /\ rows[u].name # None /\ rows[v].name # None => Lower[rows[u].name] # Lower[rows[v].name]
  /\ rows[u].auth = rows[v].auth => rows[u].auth = None
NameFree(r, rows) == r.name # None =>
  \A v \in KnownIn(rows) : v # r.user /\ rows[v].name # None => Lower[rows[v].name] # Lower[r.name]
AuthFree(r, rows) == r.auth # None =>
  \A v \in KnownIn(rows) : rows[v].auth = r.auth => v = r.user
\* What the request of the moment has found out about identities.
FoundFree(r, rows) ==
  /\ r.st \in {"email", "past", "store"} => NameFree(r, rows)
  /\ r.st \in {"policy", "name", "email", "past", "store"} => AuthFree(r, rows)
  /\ r.st = "renew" => \E v \in KnownIn(rows) : rows[v] = r.row
IdentityInv ==
  settings.alone => Identities(users) /\ \A h \in Slots : FoundFree(req[h], users)

SameIdentities ==
  /\ KnownIn(users') = KnownIn(users)
  /\ \A u \in KnownIn(users) : users'[u].name = users[u].name /\ users'[u].auth = users[u].auth

\* The request of the moment goes on as f.
GoesFree(h) ==
  \E f : Go(h, f) /\ FoundFree(f, users') /\ Identities(users')

LEMMA FreeKeeps ==
  ASSUME TypeInv, NEW h \in Slots, settings' = settings, settings.alone => OthersIdle(h),
         settings.alone => GoesFree(h)
  PROVE IdentityInv'
  <1> SUFFICES ASSUME settings.alone PROVE Identities(users') /\ \A g \in Slots : FoundFree(req'[g], users')
    BY DEF IdentityInv
  <1>1. PICK f : Go(h, f) /\ FoundFree(f, users') /\ Identities(users') BY DEF GoesFree
  <1>2. req' = [req EXCEPT ![h] = f] /\ req \in [Slots -> ReqType] BY <1>1 DEF Go, TypeInv, Reqs
  <1>3. \A g \in Slots : g # h => req'[g] = Idle BY <1>2 DEF OthersIdle
  <1>4. FoundFree(Idle, users') BY IdleFields DEF FoundFree
  <1> QED BY <1>1, <1>2, <1>3, <1>4

LEMMA SameIdentitiesKeep ==
  ASSUME Identities(users), SameIdentities
  PROVE Identities(users')
  BY DEF Identities, SameIdentities

LEMMA CountedSameIdentities ==
  ASSUME TypeInv, NEW u, NEW w, Counted(u, w)
  PROVE SameIdentities
  <1>1. KnownIn(users') = KnownIn(users) /\ u \in KnownIn(users) /\ u \in Users BY CountedKnown
  <1>2. users' = [users EXCEPT ![u] = w] /\ KeepsUser(w, users[u]) BY DEF Counted
  <1>3. users \in [Users -> RowType \cup {None}] /\ KnownIn(users) \subseteq Users
    BY DEF TypeInv, Stored, KnownIn
  <1>4. ASSUME NEW v \in KnownIn(users)
        PROVE users'[v].name = users[v].name /\ users'[v].auth = users[v].auth
    <2>1. CASE v = u BY <1>1, <1>2, <1>3, <2>1 DEF KeepsUser
    <2>2. CASE v # u BY <1>2, <1>3, <2>2
    <2> QED BY <2>1, <2>2
  <1> QED BY <1>1, <1>4 DEF SameIdentities

LEMMA ConfirmSameIdentities ==
  ASSUME TypeInv, NEW h \in Slots, ConfirmEmail(h)
  PROVE SameIdentities /\ Go(h, Idle)
  <1> DEFINE new == [u \in Users |-> IF u \in KnownIn(users) /\ Confirmed(u, req[h])
                                     THEN ConfirmedRow(users[u]) ELSE users[u]]
  <1>1. users' = new /\ Go(h, Idle) BY KnownIsKnown DEF ConfirmEmail, Finish, ConfirmedRow
  <1>2. ASSUME NEW u \in KnownIn(users)
        PROVE users'[u].name = users[u].name /\ users'[u].auth = users[u].auth
    <2>1. u \in Users /\ users[u] \in RowType BY RowTypes
    <2>2. users'[u] = IF Confirmed(u, req[h]) THEN ConfirmedRow(users[u]) ELSE users[u]
      BY <1>1, <2>1
    <2> QED BY <2>1, <2>2, ConfirmedRowType
  <1> QED BY <1>1, <1>2, ConfirmEmailTypes DEF SameIdentities

\* Stages in which nothing about identities is remembered.
Forgets(f) == f.st \notin {"policy", "name", "email", "past", "store", "renew"}

LEMMA ForgetsFree ==
  ASSUME Identities(users), SameIdentities, NEW h, NEW f, Go(h, f), Forgets(f)
  PROVE GoesFree(h)
  <1>1. FoundFree(f, users') BY DEF Forgets, FoundFree
  <1> QED BY <1>1, SameIdentitiesKeep DEF GoesFree

LEMMA RefusesFree ==
  ASSUME Identities(users), NEW h, Refuse(h)
  PROVE GoesFree(h)
  <1>1. Go(h, Idle) /\ Forgets(Idle) BY IdleFields DEF Refuse, Finish, Forgets
  <1>2. SameIdentities BY DEF Refuse, SameIdentities
  <1> QED BY <1>1, <1>2, ForgetsFree

LEMMA ReadsFree ==
  ASSUME Identities(users), NEW h, NEW f, Go(h, f), users' = users, FoundFree(f, users)
  PROVE GoesFree(h)
  BY DEF GoesFree

LEMMA ArrivesFree ==
  ASSUME TypeInv, Identities(users), NEW h \in Slots, Arrives(h)
  PROVE GoesFree(h)
  <1>1. PICK r : Arrived(h, r) BY ArrivesBegins
  <1>2. Go(h, r) /\ users' = users /\ Begun(r) BY <1>1 DEF Arrived
  <1>3. FoundFree(r, users)
    BY <1>2 DEF Begun, Unchecked, FoundFree, NameFree, AuthFree, WriteStages
  <1> QED BY <1>2, <1>3, ReadsFree

LEMMA ChecksFree ==
  ASSUME TypeInv, Identities(users), NEW h \in Slots, FoundFree(req[h], users),
         HandleAuthData(h) \/ ValidatePasswordHistory(h) \/ ValidateUserName(h)
  PROVE GoesFree(h)
  <1> DEFINE r == req[h]
             s == NextStage(r)
  <1>1. r \in ReqType BY ReqTypes
  <1>2. CASE Refuse(h) BY <1>2, RefusesFree
  <1>3. CASE HandleAuthData(h) /\ ~Refuse(h)
    <2>1. /\ r.st = "auth"
          /\ \/ {u \in KnownIn(users) : users[u].auth = r.auth} \subseteq {r.user} /\ Read(h, s)
             \/ \E u \in KnownIn(users) : Read(h, SignedIn(r, u, users[u].pw))
      BY <1>3, KnownIsKnown DEF HandleAuthData, SignedIn
    <2>2. CASE /\ {u \in KnownIn(users) : users[u].auth = r.auth} \subseteq {r.user}
               /\ Read(h, s)
      <3>1. Reaches(r, s, 2) /\ Keeps(s, r) BY <1>1, <2>1, NextFields
      <3>2. AuthFree(r, users) BY <2>2 DEF AuthFree
      <3> HIDE DEF s, r
      <3>3. FoundFree(s, users)
        BY <3>1, <3>2 DEF FoundFree, Reaches, NameFree, AuthFree, Keeps, WriteStages
      <3> QED BY <2>2, <3>3, ReadsFree DEF Read
    <2>3. ASSUME NEW u \in KnownIn(users), Read(h, SignedIn(r, u, users[u].pw)) PROVE GoesFree(h)
      <3>1. Forgets(SignedIn(r, u, users[u].pw)) BY <2>1, SignsIn DEF Forgets
      <3>2. SameIdentities BY <2>3 DEF Read, SameIdentities
      <3> QED BY <2>3, <3>1, <3>2, ForgetsFree DEF Read
    <2> QED BY <2>1, <2>2, <2>3
  <1>4. CASE ValidatePasswordHistory(h) /\ ~Refuse(h)
    <2>1. r.st = "policy" /\ Read(h, s) BY <1>4 DEF ValidatePasswordHistory
    <2>2. Reaches(r, s, 3) /\ Keeps(s, r) BY <1>1, <2>1, NextFields
    <2>3. AuthFree(r, users) BY <2>1 DEF FoundFree
    <2> HIDE DEF s, r
    <2>4. FoundFree(s, users)
      BY <2>2, <2>3 DEF FoundFree, Reaches, NameFree, AuthFree, Keeps, WriteStages
    <2> QED BY <2>1, <2>4, ReadsFree DEF Read
  <1>5. CASE ValidateUserName(h) /\ ~Refuse(h)
    <2>1. r.st = "name" /\ Read(h, s) /\ ~NameTaken(r) BY <1>5 DEF ValidateUserName
    <2>2. Reaches(r, s, 4) /\ Keeps(s, r) BY <1>1, <2>1, NextFields
    <2>3. AuthFree(r, users) BY <2>1 DEF FoundFree
    <2>4. NameFree(r, users) BY <2>1, KnownIsKnown DEF NameTaken, NameFree, Others
    <2> HIDE DEF s, r
    <2>5. FoundFree(s, users)
      BY <2>2, <2>3, <2>4 DEF FoundFree, Reaches, NameFree, AuthFree, Keeps, WriteStages
    <2> QED BY <2>1, <2>5, ReadsFree DEF Read
  <1> QED BY <1>2, <1>3, <1>4, <1>5

LEMMA EmailFree ==
  ASSUME TypeInv, Identities(users), NEW h \in Slots, FoundFree(req[h], users), ValidateEmail(h)
  PROVE GoesFree(h)
  <1>1. CASE Refuse(h) BY <1>1, RefusesFree
  <1>2. CASE ~Refuse(h)
    <2> DEFINE r == req[h]
               s == [NextStage(r) EXCEPT !.token = issued + 1]
    <2>1. r.st = "email" /\ Go(h, s) /\ users' = users BY <1>2 DEF ValidateEmail
    <2>2. /\ s.st \in {"past", "store"} /\ s.name = r.name /\ s.user = r.user
          /\ s.auth = r.auth
      <3>1. r \in ReqType /\ Sound(r, KnownIn(users), issued, settings.offers) /\ issued \in Nat BY ReqTypes
      <3>2. s.st \in {"past", "store"} /\ s.name = r.name /\ s.user = r.user
        BY <2>1, <3>1, EmailIsSound
      <3>3. Reaches(r, NextStage(r), 5) BY <2>1, <3>1, NextReaches
      <3>4. NextStage(r).auth = r.auth BY <3>1, <3>3 DEF Reaches, ReqType
      <3>5. s.auth = r.auth BY <3>3, <3>4 DEF Reaches, ReqType
      <3> QED BY <3>2, <3>5
    <2> HIDE DEF s, r
    <2>3. FoundFree(r, users) BY DEF r
    <2>4. FoundFree(s, users) BY <2>1, <2>2, <2>3 DEF FoundFree, NameFree, AuthFree
    <2> QED BY <2>1, <2>4, ReadsFree
  <1> QED BY <1>1, <1>2

LEMMA CollectFree ==
  ASSUME TypeInv, Identities(users), NEW h \in Slots, FoundFree(req[h], users), CollectHistory(h)
  PROVE GoesFree(h)
  <1> DEFINE r == req[h]
             s == WithPast(NextStage(r), KeptPasswords(users[r.user]))
  <1>1. /\ r.st = "past" /\ Read(h, s) /\ s.st = "store"
        /\ s.user = r.user /\ s.name = r.name /\ s.auth = r.auth
    BY CollectHistoryIs
  <1>2. FoundFree(r, users) OBVIOUS
  <1> HIDE DEF s, r
  <1>3. FoundFree(s, users) BY <1>1, <1>2 DEF FoundFree, NameFree, AuthFree
  <1> QED BY <1>1, <1>3, ReadsFree DEF Read

\* A row that may be written without anyone losing an identity.
LEMMA WritesFree ==
  ASSUME TypeInv, Identities(users), NEW u, NEW w, u \in Users, w \in RowType,
         users' = [users EXCEPT ![u] = w],
         \A v \in KnownIn(users) : v # u =>
           /\ users[v].name # None /\ w.name # None => Lower[users[v].name] # Lower[w.name]
           /\ users[v].auth = w.auth => w.auth = None
  PROVE Identities(users')
  <1>1. /\ users \in [Users -> RowType \cup {None}] /\ None \notin RowType
    BY SettingsConstants DEF TypeInv, Stored
  <1>2. /\ \A v \in KnownIn(users') : v # u => v \in KnownIn(users) /\ users'[v] = users[v]
        /\ users'[u] = w
    BY <1>1 DEF KnownIn
  <1> DEFINE Apart(a, b) == /\ a.name # None /\ b.name # None => Lower[a.name] # Lower[b.name]
                            /\ a.auth = b.auth => a.auth = None
  <1>3. \A a, b \in KnownIn(users) : a # b => Apart(users[a], users[b]) BY DEF Identities
  <1>4. \A v \in KnownIn(users) : v # u => Apart(users[v], w) /\ Apart(w, users[v]) OBVIOUS
  <1>5. ASSUME NEW a \in KnownIn(users'), NEW b \in KnownIn(users'), a # b
        PROVE Apart(users'[a], users'[b])
    <2>1. CASE a = u
      <3>1. b \in KnownIn(users) /\ b # u /\ users'[b] = users[b] BY <1>2, <1>5, <2>1
      <3>2. Apart(w, users[b]) BY <1>4, <3>1
      <3> QED BY <1>2, <2>1, <3>1, <3>2
    <2>2. CASE b = u
      <3>1. a \in KnownIn(users) /\ a # u /\ users'[a] = users[a] BY <1>2, <1>5, <2>2
      <3>2. Apart(users[a], w) BY <1>4, <3>1
      <3> QED BY <1>2, <2>2, <3>1, <3>2
    <2>3. CASE a # u /\ b # u
      <3>1. a \in KnownIn(users) /\ users'[a] = users[a] BY <1>2, <2>3
      <3>2. b \in KnownIn(users) /\ users'[b] = users[b] BY <1>2, <2>3
      <3>3. Apart(users[a], users[b]) BY <1>3, <1>5, <3>1, <3>2
      <3> QED BY <3>1, <3>2, <3>3
    <2> QED BY <2>1, <2>2, <2>3
  <1> QED BY <1>5 DEF Identities

LEMMA StoresFree ==
  ASSUME TypeInv, Identities(users), NEW h \in Slots, FoundFree(req[h], users),
         NEW u, NEW f, Stores(h, u, f)
  PROVE GoesFree(h)
  <1> DEFINE r == req[h]
             row == Before(h)
             w == Written(row, r)
  <1>1. /\ r.st = "store" /\ u \in Users /\ w \in RowType /\ Go(h, f)
        /\ users' = [users EXCEPT ![u] = w]
        /\ r.user # None => u = r.user /\ u \in KnownIn(users) /\ row = users[u]
        /\ r.user = None => row = NewUser /\ u \notin KnownIn(users)
    BY DEF Stores, Before
  <1>2. /\ w.name = (IF r.name = None THEN row.name ELSE r.name)
        /\ w.auth = (IF r.auth = None THEN row.auth ELSE r.auth)
    BY StoresTypes DEF Fields
  <1>3. NameFree(r, users) /\ AuthFree(r, users) BY <1>1 DEF FoundFree
  <1>4. r.user = None => row.name = None /\ row.auth = None BY <1>1 DEF NewUser
  <1>5. Forgets(f) BY StoresGoesOn, IdleFields DEF GoesOn, Forgets
  <1>6. None \notin KnownIn(users) BY RowTypes
  <1> HIDE DEF r, row, w
  <1>7. ASSUME NEW v \in KnownIn(users), v # u
        PROVE /\ users[v].name # None /\ w.name # None => Lower[users[v].name] # Lower[w.name]
              /\ users[v].auth = w.auth => w.auth = None
    <2>1. v # r.user BY <1>1, <1>6, <1>7
    <2>2. users[v].name # None /\ w.name # None => Lower[users[v].name] # Lower[w.name]
      <3>1. CASE r.name # None BY <1>2, <1>3, <2>1, <3>1 DEF NameFree
      <3>2. CASE r.name = None BY <1>1, <1>2, <1>4, <1>7, <3>2 DEF Identities
      <3> QED BY <3>1, <3>2
    <2>3. users[v].auth = w.auth => w.auth = None
      <3>1. CASE r.auth # None BY <1>2, <1>3, <2>1, <3>1 DEF AuthFree
      <3>2. CASE r.auth = None BY <1>1, <1>2, <1>4, <1>7, <3>2 DEF Identities
      <3> QED BY <3>1, <3>2
    <2> QED BY <2>2, <2>3
  <1>8. Identities(users') BY <1>1, <1>7, WritesFree
  <1>9. FoundFree(f, users') BY <1>5 DEF Forgets, FoundFree
  <1> QED BY <1>1, <1>8, <1>9 DEF GoesFree

LEMMA OthersWritesFree ==
  ASSUME TypeInv, Identities(users), NEW h \in Slots,
         ClearSessions(h) \/ SendVerificationEmail(h) \/ DestroyDuplicatedSessions(h)
           \/ CreateSession(h) \/ DeleteSession(h)
  PROVE GoesFree(h)
  <1>1. users' = users /\ SameIdentities
    BY DEF ClearSessions, SendVerificationEmail, DestroyDuplicatedSessions, CreateSession,
           DeleteSession, SameIdentities
  <1>2. Forgets(Idle) BY IdleFields DEF Forgets
  <1>3. CASE DeleteSession(h) \/ SendVerificationEmail(h)
    BY <1>1, <1>2, <1>3, ForgetsFree DEF DeleteSession, SendVerificationEmail, Finish
  <1>4. CASE ClearSessions(h)
    <2>1. \E f : Go(h, f) /\ (f = Idle \/ f.st \in {"session", "mail"})
      BY <1>4, ClearSessionsIs
    <2> QED BY <1>1, <1>2, <2>1, ForgetsFree DEF Forgets
  <1>5. CASE DestroyDuplicatedSessions(h)
    <2>1. \E f : Go(h, f) /\ f.st = "insert" BY <1>5, DestroyIs
    <2> QED BY <1>1, <2>1, ForgetsFree DEF Forgets
  <1>6. CASE CreateSession(h)
    <2>1. \E f : Go(h, f) /\ (f = Idle \/ f.st = "mail") BY <1>6, CreateSessionIs
    <2> QED BY <1>1, <1>2, <2>1, ForgetsFree DEF Forgets
  <1> QED BY <1>3, <1>4, <1>5, <1>6

LEMMA LogsInFree ==
  ASSUME TypeInv, Identities(users), NEW h \in Slots, LogsIn(h)
  PROVE GoesFree(h)
  <1>1. \/ Refuse(h)
        \/ \E f : LoggingIn(h, f) /\ (users' = users \/ \E u, w : Counted(u, w))
    BY LogsInIs
  <1>2. ASSUME NEW f, LoggingIn(h, f), users' = users \/ \E u, w : Counted(u, w) PROVE GoesFree(h)
    <2>1. SameIdentities
      <3>1. users' = users => SameIdentities BY DEF SameIdentities
      <3> QED BY <1>2, <3>1, CountedSameIdentities
    <2>2. Go(h, f) /\ Forgets(f) BY <1>2, IdleFields DEF LoggingIn, Forgets, LogInStages
    <2> QED BY <2>1, <2>2, ForgetsFree
  <1> QED BY <1>1, <1>2, RefusesFree

\* With the row of today written back, nobody's identity changes.
LEMMA RenewsFree ==
  ASSUME TypeInv, Identities(users), Distinct(users), NEW h \in Slots, FoundFree(req[h], users),
         NEW u \in Users, Renews(h, u)
  PROVE SameIdentities /\ Go(h, At(req[h], "mail")) /\ At(req[h], "mail").st = "mail"
        /\ users[u] = req[h].row
  <1> DEFINE r == req[h]
             w == Restored(users[u], r.row, r.token)
  <1>1. /\ w \in RowType /\ RestoredFields(w, users[u], r.row, r.token)
        /\ KnownIn(users') = KnownIn(users)
    BY RenewsTypes
  <1>2. /\ r.st = "renew" /\ u \in KnownIn(users) /\ users[u].name = r.row.name
        /\ ~Duplicate(u, w) /\ users' = [users EXCEPT ![u] = w] /\ Go(h, At(r, "mail"))
    BY DEF Renews
  <1>3. PICK v \in KnownIn(users) : users[v] = r.row BY <1>2 DEF FoundFree
  <1>4. r.row.name # None \/ r.row.email # None
    <2>1. Sound(r, KnownIn(users), issued, settings.offers) BY ReqTypes
    <2> QED BY <1>2, <2>1 DEF Sound
  <1>5. At(r, "mail").st = "mail" BY ReqTypes, AtType, StagesAre
  <1> HIDE DEF r, w
  <1>6. u = v
    <2>1. CASE r.row.name # None BY <1>2, <1>3, <2>1 DEF Distinct
    <2>2. CASE r.row.email # None
      <3>1. w.email = r.row.email BY <1>1, <2>2 DEF RestoredFields
      <3>2. v # u => v \in Others(u) BY <1>3, KnownIsKnown DEF Others
      <3> QED BY <1>2, <1>3, <2>2, <3>1, <3>2 DEF Duplicate
    <2> QED BY <1>4, <2>1, <2>2
  <1>7. w.name = users[u].name /\ w.auth = users[u].auth
    BY <1>1, <1>2, <1>3, <1>6 DEF RestoredFields
  <1>8. users \in [Users -> RowType \cup {None}] BY DEF TypeInv, Stored
  <1>9. SameIdentities BY <1>1, <1>2, <1>7, <1>8 DEF SameIdentities, KnownIn
  <1> QED BY <1>2, <1>3, <1>5, <1>6, <1>9 DEF r

LEMMA UsesTokensFree ==
  ASSUME TypeInv, Identities(users), Distinct(users), NEW h \in Slots, FoundFree(req[h], users),
         UsesTokens(h)
  PROVE GoesFree(h)
  <1>1. users' = users => SameIdentities BY DEF SameIdentities
  <1>2. Forgets(Idle) BY IdleFields DEF Forgets
  <1>3. CASE VerifyEmail(h)
    <2> DEFINE f == At(req[h], "confirm")
    <2>1. (Refuse(h) \/ Read(h, f)) /\ f.st = "confirm" BY <1>3, VerifyEmailIs
    <2> HIDE DEF f
    <2> QED BY <1>1, <2>1, RefusesFree, ForgetsFree DEF Read, Forgets
  <1>4. CASE ConfirmEmail(h) BY <1>2, <1>4, ConfirmSameIdentities, ForgetsFree
  <1>5. CASE RegenerateToken(h)
    <2>1. \/ Refuse(h)
          \/ \E u \in Users, st \in {"mail", "renew"}, t \in Nat : Asks(h, u, st, t)
      <3>1. ASSUME NEW u \in Users, Asks(h, u, "mail", users[u].vtoken)
            PROVE \E t \in Nat : Asks(h, u, "mail", t)
        <4>1. users[u].vtoken \in Nat BY <3>1, RowTypes DEF Asks, RowType
        <4> QED BY <3>1, <4>1
      <3>2. issued + 1 \in Nat BY ReqTypes
      <3> QED BY <1>5, <3>1, <3>2, RegenerateIs
    <2>2. ASSUME NEW u \in Users, NEW st \in {"mail", "renew"}, NEW t \in Nat, Asks(h, u, st, t)
          PROVE GoesFree(h)
      <3> DEFINE f == Renewal(req[h], users[u], st, t)
      <3>1. u \in KnownIn(users) /\ Go(h, f) /\ users' = users BY <2>2 DEF Asks
      <3>2. users[u] \in RowType /\ req[h] \in ReqType BY <3>1, RowTypes, ReqTypes
      <3>3. f.st = st /\ f.row = users[u] BY <3>2, RenewalType
      <3> HIDE DEF f
      <3>4. FoundFree(f, users) BY <3>1, <3>3 DEF FoundFree
      <3> QED BY <3>1, <3>4, ReadsFree
    <2> QED BY <2>1, <2>2, RefusesFree
  <1>6. CASE RenewToken(h)
    <2>1. ASSUME NEW u \in Users, Renews(h, u) PROVE GoesFree(h)
      <3> DEFINE f == At(req[h], "mail")
      <3>1. SameIdentities /\ Go(h, f) /\ f.st = "mail" BY <2>1, RenewsFree
      <3> HIDE DEF f
      <3> QED BY <3>1, ForgetsFree DEF Forgets
    <2> QED BY <1>6, <2>1, RenewIs, RefusesFree
  <1>7. CASE FindResetToken(h)
    <2> DEFINE f == At(req[h], "setReset")
    <2>1. users' = users /\ (Go(h, f) \/ Go(h, Idle))
      BY <1>7 DEF FindResetToken, Read, Finish, At
    <2>2. f.st = "setReset" BY ReqTypes, AtType, StagesAre
    <2> HIDE DEF f
    <2> QED BY <1>1, <1>2, <2>1, <2>2, ForgetsFree DEF Forgets
  <1>8. CASE SetPasswordResetToken(h)
    <2>1. ASSUME NEW u, NEW w, Resets(h, u, w) PROVE GoesFree(h)
      <3>1. SameIdentities /\ Go(h, Idle) BY <2>1, CountedSameIdentities DEF Resets
      <3> QED BY <1>2, <3>1, ForgetsFree
    <2> QED BY <1>8, <2>1, SetResetIs, RefusesFree
  <1>9. CASE CheckResetToken(h)
    <2>1. ASSUME NEW f, Read(h, f), f.st \in WriteStages, Unchecked(f) PROVE GoesFree(h)
      <3>1. FoundFree(f, users)
        BY <2>1 DEF Unchecked, FoundFree, NameFree, AuthFree, WriteStages
      <3> QED BY <2>1, <3>1, ReadsFree DEF Read
    <2> QED BY <1>9, <2>1, CheckResetIs, RefusesFree
  <1> QED BY <1>3, <1>4, <1>5, <1>6, <1>7, <1>8, <1>9 DEF UsesTokens

LEMMA IdentityStep ==
  ASSUME TypeInv, TokenInv, Single, IdentityInv, [Next]_vars
  PROVE IdentityInv'
  <1>1. settings.alone => Identities(users) /\ Distinct(users) /\ \A h \in Slots : FoundFree(req[h], users)
    BY DEF IdentityInv, TokenInv
  <1>2. ASSUME NEW h \in Slots, Arrives(h) PROVE IdentityInv'
    BY <1>1, <1>2, ArrivesAlone, ArrivesFree, FreeKeeps
  <1>3. ASSUME NEW h \in Slots, Writes(h) \/ LogsIn(h) \/ UsesTokens(h) PROVE IdentityInv'
    <2>1. req[h] # Idle /\ settings' = settings BY <1>3, WritesActs, LogsInActs, UsesTokensActs
    <2>2. settings.alone => OthersIdle(h) BY <2>1, SingleLeavesOthers
    <2>3. settings.alone /\ Writes(h) => GoesFree(h)
      BY <1>1, ChecksFree, EmailFree, CollectFree, StoreIs, StoresFree, RefusesFree, OthersWritesFree
      DEF Writes
    <2>4. settings.alone /\ (LogsIn(h) \/ UsesTokens(h)) => GoesFree(h)
      BY <1>1, LogsInFree, UsesTokensFree
    <2> QED BY <1>3, <2>1, <2>2, <2>3, <2>4, FreeKeeps
  <1>4. ASSUME NEW h \in Slots, CallFails(h) PROVE IdentityInv'
    BY <1>4, CallFailsActs DEF IdentityInv
  <1>5. CASE StrayArrives \/ Tick \/ UNCHANGED vars
    <2>1. UNCHANGED <<settings, users, req>> BY <1>5 DEF StrayArrives, Tick, vars
    <2> QED BY <2>1 DEF IdentityInv
  <1> QED BY <1>2, <1>3, <1>4, <1>5 DEF Next

LEMMA IdentityInit ==
  ASSUME Init
  PROVE IdentityInv
  <1>1. LegalStart(users, sessions) BY Starts
  <1>2. \A h \in Slots : req[h] = Idle BY DEF Init
  <1>3. Identities(users) BY <1>1 DEF LegalStart, Identities, KnownIn
  <1>4. FoundFree(Idle, users) BY IdleFields DEF FoundFree
  <1> QED BY <1>2, <1>3, <1>4 DEF IdentityInv

LEMMA IdentitiesHold == Spec => [](TypeInv /\ TokenInv /\ Single /\ IdentityInv)
  <1> DEFINE Inv == TypeInv /\ TokenInv /\ Single /\ IdentityInv
  <1>1. Init => Inv BY TypesInit, TokensInit, SingleInit, IdentityInit
  <1>2. Inv /\ [Next]_vars => Inv' BY TypesStep, TokensStep, SingleStep, IdentityStep
  <1> QED BY <1>1, <1>2, PTL DEF Spec

\* Every name, address and id of a provider belongs to one user: names and addresses
\* always, names that differ in case only and ids when requests are served one by one.
THEOREM IdentitiesAreSafe == Spec => []OneAccountPerIdentity
  <1>1. ASSUME TokenInv, IdentityInv PROVE OneAccountPerIdentity
    <2>1. Distinct(users) /\ (settings.alone => Identities(users)) BY <1>1 DEF TokenInv, IdentityInv
    <2> QED BY <2>1, KnownIsKnown DEF OneAccountPerIdentity, Distinct, Identities
  <1> QED BY <1>1, IdentitiesHold, PTL

-----------------------------------------------------------------------------
(***************************************************************************)
(* Lockout.  Whoever brings the counter to the threshold still has the     *)
(* lock to set, and finds the user by the name it was found with before.   *)
(***************************************************************************)
Steady == settings.alone \/ (~settings.fails /\ settings.offers \cap {"askVerify", "setName"} = {})
NameKept(r, rows) == r.st \in LogInStages => rows[r.user].name = r.row.name
Over(row) == row.failed # None /\ row.failed >= Threshold /\ row.locked = 0
Locking(r, u) == r.st = "lockout" /\ r.user = u
LockInv == Steady =>
  /\ \A h \in Slots : NameKept(req[h], users)
  /\ \A u \in KnownIn(users) : Over(users[u]) => \E h \in Slots : Locking(req[h], u)

SameNames == \A u \in KnownIn(users) : users'[u].name = users[u].name
NobodyOver == \A u \in KnownIn(users') : Over(users'[u]) => u \in KnownIn(users) /\ Over(users[u])

LEMMA OthersNamesKept ==
  ASSUME TypeInv, LockInv, Steady, NEW h \in Slots, NEW f, Go(h, f), SameNames \/ OthersIdle(h),
         NameKept(f, users')
  PROVE \A g \in Slots : NameKept(req'[g], users')
  <1>1. req' = [req EXCEPT ![h] = f] /\ req \in [Slots -> ReqType] BY DEF Go, TypeInv, Reqs
  <1>2. ASSUME NEW g \in Slots, g # h PROVE NameKept(req[g], users')
    <2>1. CASE SameNames
      <3>1. NameKept(req[g], users) BY DEF LockInv
      <3>2. req[g].st \in LogInStages => req[g].user \in KnownIn(users)
        BY ReqTypes DEF Sound
      <3> QED BY <2>1, <3>1, <3>2 DEF NameKept, SameNames
    <2>2. CASE OthersIdle(h)
      <3>1. req[g] = Idle BY <1>2, <2>2 DEF OthersIdle
      <3> QED BY <3>1, IdleFields DEF NameKept, LogInStages
    <2> QED BY <2>1, <2>2
  <1> QED BY <1>1, <1>2

\* Nobody gets past the threshold, and the request was not about to lock anyone.
LEMMA LockMoves ==
  ASSUME TypeInv, LockInv, Steady, NEW h \in Slots, NEW f, Go(h, f), settings' = settings,
         SameNames \/ OthersIdle(h), NameKept(f, users'), NobodyOver,
         \A u \in KnownIn(users') : Over(users'[u]) => ~Locking(req[h], u)
  PROVE LockInv'
  <1>1. req' = [req EXCEPT ![h] = f] /\ req \in [Slots -> ReqType] BY DEF Go, TypeInv, Reqs
  <1>2. \A g \in Slots : NameKept(req'[g], users') BY OthersNamesKept
  <1>3. ASSUME NEW u \in KnownIn(users'), Over(users'[u]) PROVE \E g \in Slots : Locking(req'[g], u)
    <2>1. PICK g \in Slots : Locking(req[g], u) BY <1>3 DEF LockInv, NobodyOver
    <2>2. g # h BY <1>3, <2>1
    <2> QED BY <1>1, <2>1, <2>2
  <1> QED BY <1>2, <1>3 DEF LockInv, Steady

LEMMA RowsStay ==
  ASSUME users' = users
  PROVE SameNames /\ NobodyOver
  BY DEF SameNames, NobodyOver

LEMMA LockReads ==
  ASSUME TypeInv, LockInv, Steady, NEW h \in Slots, NEW f, Go(h, f), UNCHANGED <<settings, users>>,
         NameKept(f, users), req[h].st # "lockout"
  PROVE LockInv'
  <1>1. NameKept(f, users') /\ \A u \in KnownIn(users') : ~Locking(req[h], u) BY DEF Locking
  <1> QED BY <1>1, RowsStay, LockMoves

LEMMA OutsideLogIn ==
  ASSUME NEW f, NEW rows, f.st \notin LogInStages
  PROVE NameKept(f, rows)
  BY DEF NameKept

LEMMA IdleNameKept ==
  ASSUME NEW rows
  PROVE NameKept(Idle, rows)
  BY IdleFields, OutsideLogIn DEF LogInStages

LEMMA LockRefuses ==
  ASSUME TypeInv, LockInv, Steady, NEW h \in Slots, Refuse(h), req[h].st # "lockout"
  PROVE LockInv'
  <1>1. Go(h, Idle) /\ UNCHANGED <<settings, users>> BY DEF Refuse, Finish
  <1> QED BY <1>1, IdleNameKept, LockReads

\* A counter, a lock or a date is written and the log-in goes on.
LEMMA CountedLock ==
  ASSUME TypeInv, NEW u, NEW w, Counted(u, w)
  PROVE /\ SameNames
        /\ u \in KnownIn(users) /\ KnownIn(users') = KnownIn(users)
        /\ users'[u] = w /\ \A v \in KnownIn(users) : v # u => users'[v] = users[v]
        /\ (Over(w) => Over(users[u])) => NobodyOver
  <1>1. KnownIn(users') = KnownIn(users) /\ u \in KnownIn(users) /\ u \in Users BY CountedKnown
  <1>2. users' = [users EXCEPT ![u] = w] /\ w.name = users[u].name BY DEF Counted, KeepsUser
  <1>3. users \in [Users -> RowType \cup {None}] /\ KnownIn(users) \subseteq Users
    BY DEF TypeInv, Stored, KnownIn
  <1>4. users'[u] = w /\ \A v \in KnownIn(users) : v # u => users'[v] = users[v]
    BY <1>1, <1>2, <1>3
  <1>5. SameNames BY <1>2, <1>4 DEF SameNames
  <1>6. (Over(w) => Over(users[u])) => NobodyOver BY <1>1, <1>4 DEF NobodyOver
  <1> QED BY <1>1, <1>4, <1>5, <1>6

LEMMA LockWrites ==
  ASSUME TypeInv, LockInv, Steady, NEW h \in Slots, NEW f, NEW w,
         LogsWrite(h, w, f), f = Idle \/ Keeps(f, req[h]), req[h].st \in LogInStages,
         Over(w) => Over(users[req[h].user]) /\ req[h].st # "lockout",
         req[h].st = "lockout" => ~Over(w)
  PROVE LockInv'
  <1> DEFINE r == req[h]
             u == r.user
  <1>1. /\ Go(h, f) /\ settings' = settings /\ Counted(u, w) BY DEF LogsWrite, LoggingIn
  <1>2. /\ SameNames /\ u \in KnownIn(users) /\ KnownIn(users') = KnownIn(users) /\ users'[u] = w
        /\ (Over(w) => Over(users[u])) => NobodyOver
    BY <1>1, CountedLock
  <1>3. NameKept(r, users) /\ r.st \in LogInStages BY DEF LockInv
  <1>4. NameKept(f, users')
    <2>1. CASE f = Idle BY <2>1, IdleNameKept
    <2>2. CASE Keeps(f, r) BY <1>2, <1>3, <2>2 DEF NameKept, Keeps, SameNames
    <2> QED BY <2>1, <2>2
  <1>5. \A v \in KnownIn(users') : Over(users'[v]) => ~Locking(r, v) BY <1>2 DEF Locking
  <1> HIDE DEF u
  <1> QED BY <1>1, <1>2, <1>4, <1>5, LockMoves DEF u

LEMMA LogInReadsLock ==
  ASSUME TypeInv, LockInv, Steady, NEW h \in Slots,
         Authenticate(h) \/ NotLocked(h) \/ IsFailedLoginCountSet(h)
  PROVE LockInv'
  <1> DEFINE r == req[h]
  <1>1. r \in ReqType BY ReqTypes
  <1>2. CASE Authenticate(h)
    <2>1. /\ r.st = "login"
          /\ Refuse(h) \/ \E u \in KnownIn(users) : Read(h, Found(r, u, users[u]))
      BY <1>2, AuthenticateIs
    <2>2. ASSUME NEW u \in KnownIn(users), Read(h, Found(r, u, users[u])) PROVE LockInv'
      <3> DEFINE f == Found(r, u, users[u])
      <3>1. u \in Users /\ users[u] \in RowType BY RowTypes
      <3>2. f.user = u /\ f.row = users[u] BY <1>1, <3>1, FoundType
      <3>3. Go(h, f) /\ UNCHANGED <<settings, users>> BY <2>2 DEF Read
      <3> HIDE DEF f
      <3>4. NameKept(f, users) BY <3>2 DEF NameKept
      <3> QED BY <2>1, <3>3, <3>4, LockReads
    <2> QED BY <2>1, <2>2, LockRefuses
  <1>3. CASE NotLocked(h) \/ IsFailedLoginCountSet(h)
    <2>1. /\ r.st \in {"lock", "isset"}
          /\ Refuse(h) \/ \E st \in {"reset", "isset", "count", "init"} : Read(h, At(r, st))
      <3>1. r.st \in {"lock", "isset"} BY <1>3 DEF NotLocked, IsFailedLoginCountSet
      <3> QED BY <1>3, <3>1, LogInReads
    <2>2. ASSUME NEW st \in {"reset", "isset", "count", "init"}, Read(h, At(r, st)) PROVE LockInv'
      <3> DEFINE f == At(r, st)
      <3>1. Keeps(f, r)
        <4>1. st \in AllStages BY StagesAre DEF LogInStages
        <4> QED BY <1>1, <4>1, AtType
      <3>2. Go(h, f) /\ UNCHANGED <<settings, users>> BY <2>2 DEF Read
      <3>3. NameKept(r, users) /\ r.st \in LogInStages BY <2>1 DEF LockInv, LogInStages
      <3> HIDE DEF f, r
      <3>4. NameKept(f, users) BY <3>1, <3>3 DEF NameKept, Keeps
      <3> QED BY <2>1, <3>2, <3>4, LockReads DEF r
    <2> QED BY <2>1, <2>2, LockRefuses
  <1> QED BY <1>2, <1>3

LEMMA CountsLock ==
  ASSUME TypeInv, LockInv, Steady, NEW h \in Slots, SetFailedLoginCount(h) \/ Admit(h)
  PROVE LockInv'
  <1> DEFINE r == req[h]
             u == r.user
  <1>1. r \in ReqType /\ Sound(r, KnownIn(users), issued, settings.offers) BY ReqTypes
  <1>2. \A st \in {"enter", "count", "session"} : Keeps(At(r, st), r)
    <2>1. {"enter", "count", "session"} \subseteq AllStages BY StagesAre DEF LogInStages
    <2> QED BY <1>1, <2>1, AtType
  <1>3. r.st \in {"reset", "init", "enter"}
    BY DEF SetFailedLoginCount, Admit
  <1>4. r.st \in LogInStages /\ u \in KnownIn(users) BY <1>1, <1>3 DEF Sound, LogInStages
  <1>5. users[u] \in RowType BY <1>4, RowTypes
  <1>6. CASE SetFailedLoginCount(h)
    <2> DEFINE w == WithFailed(users[u], 0)
               f == At(r, IF r.st = "reset" THEN "enter" ELSE "count")
    <2>1. Refuse(h) \/ LogsWrite(h, w, f) BY <1>6, SetFailedLoginCountIs
    <2>2. w.failed = 0 BY <1>5, CountersType
    <2>3. ~Over(w) BY <2>2, AccountConstants DEF Over
    <2>4. Keeps(f, r) BY <1>2
    <2> HIDE DEF w, f
    <2> QED BY <1>3, <1>4, <2>1, <2>3, <2>4, LockRefuses, LockWrites
  <1>7. CASE Admit(h)
    <2>1. \/ Refuse(h)
          \/ \E f \in {At(r, "session"), Idle} :
               Read(h, f) \/ \E t \in Nat : LogsWrite(h, WithDate(users[u], t), f)
      BY <1>7, AdmitIs
    <2>2. ASSUME NEW f, f = Idle \/ Keeps(f, r), Read(h, f) PROVE LockInv'
      <3>1. Go(h, f) /\ UNCHANGED <<settings, users>> BY <2>2 DEF Read
      <3>2. NameKept(r, users) BY DEF LockInv
      <3>3. NameKept(f, users) BY <1>4, <2>2, <3>2, IdleNameKept DEF NameKept, Keeps
      <3> QED BY <1>3, <3>1, <3>3, LockReads
    <2>3. ASSUME NEW f, f = Idle \/ Keeps(f, r), NEW t \in Nat, LogsWrite(h, WithDate(users[u], t), f)
          PROVE LockInv'
      <3> DEFINE w == WithDate(users[u], t)
      <3>1. w.failed = users[u].failed /\ w.locked = users[u].locked BY <1>5, CountersType
      <3> HIDE DEF w
      <3>2. Over(w) => Over(users[u]) BY <3>1 DEF Over
      <3>3. LogsWrite(h, w, f) BY <2>3 DEF w
      <3> QED BY <1>3, <1>4, <2>3, <3>2, <3>3, LockWrites
    <2>4. \A f \in {At(r, "session"), Idle} : f = Idle \/ Keeps(f, r) BY <1>2
    <2>5. Refuse(h) => LockInv' BY <1>3, LockRefuses
    <2> QED BY <2>1, <2>2, <2>3, <2>4, <2>5
  <1> QED BY <1>6, <1>7

\* The step that may bring the counter to the threshold.
LEMMA IncrementLock ==
  ASSUME TypeInv, LockInv, Steady, NEW h \in Slots, IncrementFailedLoginCount(h)
  PROVE LockInv'
  <1> DEFINE r == req[h]
             u == r.user
             f == At(r, "lockout")
  <1>1. /\ r.st = "count"
        /\ Refuse(h) \/ \E n \in Nat : LogsWrite(h, WithFailed(users[u], n), f)
    BY IncrementIs
  <1>2. f.st = "lockout" /\ Keeps(f, r)
    <2>1. "lockout" \in AllStages BY StagesAre DEF LogInStages
    <2> QED BY <2>1, ReqTypes, AtType
  <1>3. NameKept(r, users) BY DEF LockInv
  <1>4. ASSUME NEW w, LogsWrite(h, w, f) PROVE LockInv'
    <2>1. /\ Go(h, f) /\ settings' = settings /\ Counted(u, w) BY <1>4 DEF LogsWrite, LoggingIn
    <2>2. /\ SameNames /\ u \in KnownIn(users) /\ KnownIn(users') = KnownIn(users)
          /\ \A v \in KnownIn(users) : v # u => users'[v] = users[v]
      BY <2>1, CountedLock
    <2>3. req' = [req EXCEPT ![h] = f] /\ req \in [Slots -> ReqType] BY <2>1 DEF Go, TypeInv, Reqs
    <2> HIDE DEF f, r
    <2>4. NameKept(f, users')
      BY <1>1, <1>2, <1>3, <2>2 DEF NameKept, Keeps, SameNames, LogInStages
    <2>5. \A g \in Slots : NameKept(req'[g], users') BY <2>1, <2>2, <2>4, OthersNamesKept
    <2>6. ASSUME NEW v \in KnownIn(users'), Over(users'[v]) PROVE \E g \in Slots : Locking(req'[g], v)
      <3>1. CASE v = u
        <4>1. Locking(f, u) BY <1>2 DEF Locking, Keeps
        <4> QED BY <2>3, <3>1, <4>1
      <3>2. CASE v # u
        <4>1. Over(users[v]) /\ v \in KnownIn(users) BY <2>2, <2>6, <3>2
        <4>2. PICK g \in Slots : Locking(req[g], v) BY <4>1 DEF LockInv
        <4>3. g # h BY <1>1, <4>2 DEF Locking, r
        <4> QED BY <2>3, <4>2, <4>3
      <3> QED BY <3>1, <3>2
    <2> QED BY <2>1, <2>5, <2>6 DEF LockInv, Steady
  <1> HIDE DEF f
  <1> QED BY <1>1, <1>4, LockRefuses

\* The lock is set unless the counter is below the threshold by now.
LEMMA SetLockoutLock ==
  ASSUME TypeInv, LockInv, Steady, NEW h \in Slots, SetLockoutExpiration(h)
  PROVE LockInv'
  <1> DEFINE r == req[h]
             u == r.user
  <1>1. /\ r.st = "lockout"
        /\ \/ Refuse(h) /\ \A v \in Account(r) : ~PastThreshold(users[v].failed)
           \/ \E t \in Nat \ {0} : LogsWrite(h, WithLock(users[u], t), Idle)
    BY SetLockoutIs
  <1>2. r.st \in LogInStages BY <1>1 DEF LogInStages
  <1>3. u \in KnownIn(users) BY <1>2, ReqTypes DEF Sound
  <1>4. CASE Refuse(h) /\ \A v \in Account(r) : ~PastThreshold(users[v].failed)
    <2>1. Account(r) = {u} BY <1>2 DEF LockInv, NameKept, Account
    <2>2. ~Over(users[u]) BY <1>4, <2>1 DEF PastThreshold, Over
    <2>3. Go(h, Idle) /\ UNCHANGED <<settings, users>> BY <1>4 DEF Refuse, Finish
    <2>4. SameNames /\ NobodyOver BY <2>3, RowsStay
    <2>5. \A v \in KnownIn(users') : Over(users'[v]) => ~Locking(r, v) BY <2>2, <2>3 DEF Locking
    <2>6. NameKept(Idle, users') BY IdleNameKept
    <2> QED BY <2>3, <2>4, <2>5, <2>6, LockMoves
  <1>5. ASSUME NEW t \in Nat \ {0}, LogsWrite(h, WithLock(users[u], t), Idle) PROVE LockInv'
    <2> DEFINE w == WithLock(users[u], t)
    <2>1. users[u] \in RowType BY <1>3, RowTypes
    <2>2. w.locked = t BY <2>1, CountersType
    <2> HIDE DEF w
    <2>3. ~Over(w) BY <2>2 DEF Over
    <2>4. LogsWrite(h, w, Idle) BY <1>5 DEF w
    <2> QED BY <1>2, <2>3, <2>4, LockWrites
  <1> QED BY <1>1, <1>4, <1>5

LEMMA WritesOutside ==
  ASSUME TypeInv, NEW h \in Slots, Writes(h)
  PROVE /\ req[h].st # "lockout"
        /\ \/ \E u, f : Stores(h, u, f)
           \/ users' = users /\ \E f : Go(h, f) /\ f.st \notin LogInStages
  <1> DEFINE r == req[h]
  <1>0. r \in ReqType /\ Idle.st \notin LogInStages BY ReqTypes, IdleFields DEF LogInStages
  <1>1. Refuse(h) => users' = users /\ \E f : Go(h, f) /\ f.st \notin LogInStages
    BY <1>0 DEF Refuse, Finish
  <1>2. ASSUME r.st \in {"auth", "policy", "name"}, Read(h, NextStage(r))
        PROVE users' = users /\ \E f : Go(h, f) /\ f.st \notin LogInStages
    <2>1. NextStage(r).st \in WriteStages BY <1>0, <1>2, NextFields
    <2> QED BY <1>2, <2>1 DEF Read, WriteStages, LogInStages
  <1>3. CASE HandleAuthData(h)
    <2>1. r.st = "auth" /\ (\/ Read(h, NextStage(r))
                            \/ \E u \in KnownIn(users) : Read(h, SignedIn(r, u, users[u].pw))
                            \/ Refuse(h))
      BY <1>3, KnownIsKnown DEF HandleAuthData, SignedIn
    <2>2. \A u \in KnownIn(users) : SignedIn(r, u, users[u].pw).st = "session" BY <2>1, SignsIn
    <2> QED BY <1>1, <1>2, <2>1, <2>2 DEF Read, LogInStages
  <1>4. CASE ValidatePasswordHistory(h) \/ ValidateUserName(h)
    <2>1. r.st \in {"policy", "name"} /\ (Refuse(h) \/ Read(h, NextStage(r)))
      BY <1>4 DEF ValidatePasswordHistory, ValidateUserName
    <2> QED BY <1>1, <1>2, <2>1
  <1>5. CASE ValidateEmail(h)
    <2>1. /\ r.st = "email"
          /\ Refuse(h) \/ (users' = users /\ Go(h, [NextStage(r) EXCEPT !.token = issued + 1]))
      BY <1>5 DEF ValidateEmail
    <2>2. [NextStage(r) EXCEPT !.token = issued + 1].st \in {"past", "store"}
      BY <2>1, ReqTypes, EmailIsSound
    <2> QED BY <1>1, <2>1, <2>2 DEF LogInStages
  <1>6. CASE CollectHistory(h)
    <2>1. r.st = "past" /\ \E f : Read(h, f) /\ f.st = "store" BY <1>6, CollectHistoryIs
    <2> QED BY <2>1 DEF Read, LogInStages
  <1>7. CASE RunDatabaseOperation(h)
    <2>1. r.st = "store" BY <1>7 DEF RunDatabaseOperation
    <2> QED BY <1>1, <1>7, <2>1, StoreIs
  <1>8. CASE SendVerificationEmail(h) \/ DeleteSession(h)
    BY <1>0, <1>8 DEF SendVerificationEmail, DeleteSession, Finish
  <1>9. CASE ClearSessions(h)
    <2>1. \E f : Go(h, f) /\ (f = Idle \/ f.st \in {"session", "mail"}) BY <1>9, ClearSessionsIs
    <2> QED BY <1>0, <1>9, <2>1 DEF ClearSessions, LogInStages
  <1>10. CASE DestroyDuplicatedSessions(h)
    <2>1. \E f : Go(h, f) /\ f.st = "insert" BY <1>10, DestroyIs
    <2> QED BY <1>10, <2>1 DEF DestroyDuplicatedSessions, LogInStages
  <1>11. CASE CreateSession(h)
    <2>1. \E f : Go(h, f) /\ (f = Idle \/ f.st = "mail") BY <1>11, CreateSessionIs
    <2> QED BY <1>0, <1>11, <2>1 DEF CreateSession, LogInStages
  <1> QED BY <1>3, <1>4, <1>5, <1>6, <1>7, <1>8, <1>9, <1>10, <1>11 DEF Writes

\* The write of a request leaves counters and locks, and names unless they are changed.
LEMMA StoresLock ==
  ASSUME TypeInv, LockInv, Steady, NEW h \in Slots, settings.alone => OthersIdle(h),
         NEW u, NEW f, Stores(h, u, f)
  PROVE LockInv'
  <1> DEFINE r == req[h]
             row == Before(h)
             w == Written(row, r)
  <1>1. /\ r.st = "store" /\ u \in Users /\ w \in RowType /\ Go(h, f)
        /\ settings' = settings /\ users' = [users EXCEPT ![u] = w]
        /\ r.user # None => u \in KnownIn(users) /\ row = users[u]
        /\ r.user = None => row = NewUser /\ u \notin KnownIn(users)
    BY DEF Stores, Before
  <1>2. /\ w.name = (IF r.name = None THEN row.name ELSE r.name)
        /\ w.failed = row.failed /\ w.locked = row.locked
        /\ KnownIn(users') = KnownIn(users) \cup {u}
    BY StoresTypes DEF Fields
  <1>3. f.st \notin LogInStages BY StoresGoesOn, IdleFields DEF GoesOn, LogInStages
  <1>4. users \in [Users -> RowType \cup {None}] BY DEF TypeInv, Stored
  <1>5. r.user # None /\ r.name # None => "setName" \in settings.offers
    <2>1. Sound(r, KnownIn(users), issued, settings.offers) BY ReqTypes
    <2> QED BY <1>1, <2>1 DEF Sound, WriteStages
  <1>6. NewUser.failed = None BY DEF NewUser
  <1> HIDE DEF r, row, w
  <1>7. NobodyOver
    <2> SUFFICES ASSUME NEW v \in KnownIn(users'), Over(users'[v])
                 PROVE v \in KnownIn(users) /\ Over(users[v])
      BY DEF NobodyOver
    <2>1. CASE v # u BY <1>1, <1>2, <1>4, <2>1 DEF KnownIn
    <2>2. CASE v = u
      <3>1. Over(w) BY <1>1, <1>4, <2>2
      <3> QED BY <1>1, <1>2, <1>6, <2>2, <3>1 DEF Over
    <2> QED BY <2>1, <2>2
  <1>8. SameNames \/ OthersIdle(h)
    <2>1. CASE settings.alone BY <2>1
    <2>2. CASE ~settings.alone
      <3>1. "setName" \notin settings.offers BY <2>2 DEF Steady
      <3>2. ASSUME NEW v \in KnownIn(users) PROVE users'[v].name = users[v].name
        <4>1. v \in Users BY DEF KnownIn
        <4>2. CASE v # u BY <1>1, <1>4, <4>1, <4>2
        <4>3. CASE v = u
          <5>1. w.name = users[u].name BY <1>1, <1>2, <1>5, <3>1, <4>3
          <5> QED BY <1>1, <1>4, <4>3, <5>1
        <4> QED BY <4>2, <4>3
      <3> QED BY <3>2 DEF SameNames
    <2> QED BY <2>1, <2>2
  <1>9. NameKept(f, users') BY <1>3, OutsideLogIn
  <1>10. \A v \in KnownIn(users') : ~Locking(r, v) BY <1>1 DEF Locking
  <1> QED BY <1>1, <1>7, <1>8, <1>9, <1>10, LockMoves DEF r

LEMMA ConfirmLock ==
  ASSUME TypeInv, NEW h \in Slots, ConfirmEmail(h)
  PROVE SameNames /\ NobodyOver
  <1> DEFINE new == [u \in Users |-> IF u \in KnownIn(users) /\ Confirmed(u, req[h])
                                     THEN ConfirmedRow(users[u]) ELSE users[u]]
  <1>1. users' = new BY KnownIsKnown DEF ConfirmEmail, ConfirmedRow
  <1>2. KnownIn(users') = KnownIn(users) BY ConfirmEmailTypes
  <1>3. ASSUME NEW u \in KnownIn(users)
        PROVE /\ users'[u].name = users[u].name
              /\ users'[u].failed = users[u].failed /\ users'[u].locked = users[u].locked
    <2>1. u \in Users /\ users[u] \in RowType BY RowTypes
    <2>2. users'[u] = IF Confirmed(u, req[h]) THEN ConfirmedRow(users[u]) ELSE users[u]
      BY <1>1, <2>1
    <2> QED BY <2>1, <2>2, ConfirmedRowType
  <1> QED BY <1>2, <1>3 DEF SameNames, NobodyOver, Over

\* A user written back as it is today has today's counter and lock.
LEMMA RenewsLock ==
  ASSUME TypeInv, NEW h \in Slots, NEW u \in Users, Renews(h, u), users[u] = req[h].row
  PROVE NobodyOver
  <1> DEFINE r == req[h]
             w == Restored(users[u], r.row, r.token)
  <1>1. /\ RestoredFields(w, users[u], r.row, r.token) /\ KnownIn(users') = KnownIn(users)
    BY RenewsTypes
  <1>2. u \in KnownIn(users) /\ users' = [users EXCEPT ![u] = w] BY DEF Renews
  <1>3. users \in [Users -> RowType \cup {None}] BY DEF TypeInv, Stored
  <1>4. users[u] = r.row OBVIOUS
  <1> HIDE DEF r, w
  <1>5. w.failed = users[u].failed /\ w.locked = users[u].locked
    BY <1>1, <1>4 DEF RestoredFields
  <1>6. ASSUME NEW v \in KnownIn(users), Over(users'[v]) PROVE Over(users[v])
    <2>1. v \in Users BY DEF KnownIn
    <2>2. CASE v = u
      <3>1. users'[v] = w BY <1>2, <1>3, <2>1, <2>2
      <3> QED BY <1>5, <1>6, <2>2, <3>1 DEF Over
    <2>3. CASE v # u BY <1>2, <1>3, <1>6, <2>1, <2>3
    <2> QED BY <2>2, <2>3
  <1> QED BY <1>1, <1>6 DEF NobodyOver

LEMMA UsesTokensLock ==
  ASSUME TypeInv, TokenInv, IdentityInv, LockInv, Steady, NEW h \in Slots,
         settings.alone => OthersIdle(h), UsesTokens(h)
  PROVE LockInv'
  <1>0. settings' = settings /\ req[h].st # "lockout"
    BY UsesTokensActs DEF UsesTokens, VerifyEmail, ConfirmEmail, RegenerateToken, RenewToken,
                          FindResetToken, SetPasswordResetToken, CheckResetToken
  <1>1. ASSUME NEW f, Go(h, f), f.st \notin LogInStages, SameNames \/ OthersIdle(h), NobodyOver
        PROVE LockInv'
    <2>1. NameKept(f, users') BY <1>1, OutsideLogIn
    <2>2. \A u \in KnownIn(users') : ~Locking(req[h], u) BY <1>0 DEF Locking
    <2> QED BY <1>0, <1>1, <2>1, <2>2, LockMoves
  <1>2. Idle.st \notin LogInStages BY IdleFields DEF LogInStages
  <1>3. Refuse(h) => LockInv' BY <1>0, LockRefuses
  <1>4. CASE VerifyEmail(h)
    <2> DEFINE f == At(req[h], "confirm")
    <2>1. (Refuse(h) \/ Read(h, f)) /\ f.st = "confirm" BY <1>4, VerifyEmailIs
    <2> HIDE DEF f
    <2> QED BY <1>1, <1>3, <2>1, RowsStay DEF Read, LogInStages
  <1>5. CASE ConfirmEmail(h)
    <2>1. Go(h, Idle) BY <1>5 DEF ConfirmEmail, Finish
    <2> QED BY <1>1, <1>2, <1>5, <2>1, ConfirmLock
  <1>6. CASE RegenerateToken(h)
    <2>1. ASSUME NEW u \in Users, NEW st \in {"mail", "renew"}, NEW t, t \in Nat, Asks(h, u, st, t)
          PROVE LockInv'
      <3> DEFINE f == Renewal(req[h], users[u], st, t)
      <3>1. u \in KnownIn(users) /\ Go(h, f) /\ users' = users BY <2>1 DEF Asks
      <3>2. users[u] \in RowType /\ req[h] \in ReqType BY <3>1, RowTypes, ReqTypes
      <3>3. f.st = st BY <2>1, <3>2, RenewalType
      <3> HIDE DEF f
      <3> QED BY <1>1, <3>1, <3>3, RowsStay DEF LogInStages
    <2>2. ASSUME NEW u \in Users, Asks(h, u, "mail", users[u].vtoken) PROVE LockInv'
      <3>1. users[u].vtoken \in Nat BY <2>2, RowTypes DEF Asks, RowType
      <3> QED BY <2>1, <2>2, <3>1
    <2>3. issued + 1 \in Nat BY ReqTypes
    <2> QED BY <1>3, <1>6, <2>1, <2>2, <2>3, RegenerateIs
  <1>7. CASE RenewToken(h)
    <2>1. ASSUME NEW u \in Users, Renews(h, u) PROVE LockInv'
      <3> DEFINE f == At(req[h], "mail")
      <3>1. "askVerify" \in settings.offers
        <4>1. Sound(req[h], KnownIn(users), issued, settings.offers) BY ReqTypes
        <4> QED BY <2>1, <4>1 DEF Sound, Renews
      <3>2. settings.alone BY <3>1 DEF Steady
      <3>3. Go(h, f) /\ f.st = "mail" /\ users[u] = req[h].row
        BY <2>1, <3>2, RenewsFree DEF IdentityInv, TokenInv
      <3> HIDE DEF f
      <3>4. NobodyOver BY <2>1, <3>3, RenewsLock
      <3> QED BY <1>1, <3>2, <3>3, <3>4 DEF LogInStages
    <2> QED BY <1>3, <1>7, <2>1, RenewIs
  <1>8. CASE FindResetToken(h)
    <2> DEFINE f == At(req[h], "setReset")
    <2>1. users' = users /\ (Go(h, f) \/ Go(h, Idle))
      BY <1>8 DEF FindResetToken, Read, Finish, At
    <2>2. f.st = "setReset" BY ReqTypes, AtType, StagesAre
    <2> HIDE DEF f
    <2> QED BY <1>1, <1>2, <2>1, <2>2, RowsStay DEF LogInStages
  <1>9. CASE SetPasswordResetToken(h)
    <2>1. ASSUME NEW u, NEW w, Resets(h, u, w) PROVE LockInv'
      <3>1. Counted(u, w) /\ Go(h, Idle) /\ w.failed = users[u].failed /\ w.locked = users[u].locked
        BY <2>1 DEF Resets
      <3>2. SameNames /\ NobodyOver BY <3>1, CountedLock DEF Over
      <3> QED BY <1>1, <1>2, <3>1, <3>2
    <2> QED BY <1>3, <1>9, <2>1, SetResetIs
  <1>10. CASE CheckResetToken(h)
    <2>1. Refuse(h) \/ \E f : Read(h, f) /\ f.st \in WriteStages BY <1>10, CheckResetIs
    <2>2. ASSUME NEW f, Read(h, f), f.st \in WriteStages PROVE LockInv'
      BY <1>1, <2>2, RowsStay DEF Read, WriteStages, LogInStages
    <2> QED BY <1>3, <2>1, <2>2
  <1> QED BY <1>4, <1>5, <1>6, <1>7, <1>8, <1>9, <1>10 DEF UsesTokens

LEMMA LockStep ==
  ASSUME TypeInv, TokenInv, Single, IdentityInv, LockInv, [Next]_vars
  PROVE LockInv'
  <1>0. settings' = settings => (Steady' <=> Steady) BY DEF Steady
  <1>1. ASSUME NEW h \in Slots, Arrives(h) PROVE LockInv'
    <2>1. PICK r : Arrived(h, r) BY <1>1, ArrivesBegins
    <2>2. /\ req[h] = Idle /\ Go(h, r) /\ UNCHANGED <<settings, users>>
          /\ r.st \notin LogInStages
      BY <2>1 DEF Arrived, Begun, WriteStages, LogInStages
    <2>3. NameKept(r, users) BY <2>2, OutsideLogIn
    <2>4. req[h].st # "lockout" BY <2>2, IdleFields
    <2> QED BY <1>0, <2>2, <2>3, <2>4, LockReads DEF LockInv
  <1>2. ASSUME NEW h \in Slots, Writes(h) \/ LogsIn(h) \/ UsesTokens(h) PROVE LockInv'
    <2>1. req[h] # Idle /\ settings' = settings BY <1>2, WritesActs, LogsInActs, UsesTokensActs
    <2>2. settings.alone => OthersIdle(h) BY <2>1, SingleLeavesOthers
    <2>3. CASE ~Steady BY <1>0, <2>1, <2>3 DEF LockInv
    <2>4. CASE Steady /\ Writes(h)
      <3>1. /\ req[h].st # "lockout"
            /\ \/ \E u, f : Stores(h, u, f)
               \/ users' = users /\ \E f : Go(h, f) /\ f.st \notin LogInStages
        BY <2>4, WritesOutside
      <3>2. ASSUME NEW f, users' = users, Go(h, f), f.st \notin LogInStages PROVE LockInv'
        BY <2>1, <2>4, <3>1, <3>2, OutsideLogIn, LockReads
      <3> QED BY <2>2, <2>4, <3>1, <3>2, StoresLock
    <2>5. CASE Steady /\ LogsIn(h)
      BY <2>5, LogInReadsLock, CountsLock, IncrementLock, SetLockoutLock DEF LogsIn
    <2>6. CASE Steady /\ UsesTokens(h) BY <2>2, <2>6, UsesTokensLock
    <2> QED BY <1>2, <2>3, <2>4, <2>5, <2>6
  <1>3. ASSUME NEW h \in Slots, CallFails(h) PROVE LockInv'
    <2>1. ~Steady /\ settings' = settings BY <1>3, CallFailsActs DEF CallFails, Steady
    <2> QED BY <1>0, <2>1 DEF LockInv
  <1>4. CASE StrayArrives \/ Tick \/ UNCHANGED vars
    <2>1. UNCHANGED <<settings, users, req>> BY <1>4 DEF StrayArrives, Tick, vars
    <2> QED BY <2>1 DEF LockInv, Steady
  <1> QED BY <1>1, <1>2, <1>3, <1>4 DEF Next

LEMMA LockInit ==
  ASSUME Init
  PROVE LockInv
  <1>1. LegalStart(users, sessions) BY Starts
  <1>2. \A h \in Slots : req[h] = Idle BY DEF Init
  <1>3. \A u \in KnownIn(users) : ~Over(users[u])
    <2> SUFFICES ASSUME NEW u \in KnownIn(users) PROVE ~Over(users[u]) OBVIOUS
    <2>1. /\ users[u] \in RowType
          /\ users[u].failed # None /\ users[u].failed >= Threshold => users[u].locked > 0
      BY <1>1, SettingsConstants DEF LegalStart, KnownIn
    <2>2. users[u].locked \in Nat BY <2>1 DEF RowType
    <2> QED BY <2>1, <2>2 DEF Over
  <1> QED BY <1>2, <1>3, IdleNameKept DEF LockInv

LEMMA LocksHold == Spec => [](TypeInv /\ TokenInv /\ Single /\ IdentityInv /\ LockInv)
  <1> DEFINE Inv == TypeInv /\ TokenInv /\ Single /\ IdentityInv /\ LockInv
  <1>1. Init => Inv BY TypesInit, TokensInit, SingleInit, IdentityInit, LockInit
  <1>2. Inv /\ [Next]_vars => Inv'
    BY TypesStep, TokensStep, SingleStep, IdentityStep, LockStep
  <1> QED BY <1>1, <1>2, PTL DEF Spec

\* Once the last of the log-ins at a user is over, an account whose counter is at the
\* threshold is locked, however increments, resets and lookups have interleaved.
THEOREM LockoutIsSafe == Spec => []ThresholdLocks
  <1>1. ASSUME TypeInv, LockInv PROVE ThresholdLocks
    <2> SUFFICES ASSUME Steady, NEW u \in KnownIn(users), users[u].failed # None,
                        users[u].failed >= Threshold, \A h \in Slots : req[h].user # u
                 PROVE users[u].locked > 0
      BY KnownIsKnown DEF ThresholdLocks, Steady
    <2>1. ~Over(users[u]) BY <1>1 DEF LockInv, Locking
    <2>2. users[u].locked \in Nat BY <1>1, RowTypes DEF RowType
    <2>3. users[u].locked # 0 BY <2>1 DEF Over
    <2> QED BY <2>2, <2>3
  <1> QED BY <1>1, LocksHold, PTL

-----------------------------------------------------------------------------
(***************************************************************************)
(* Sessions, one request at a time.  The request of the moment explains    *)
(* whatever is out of order, or one of the deletions under way does.       *)
(***************************************************************************)
Agrees(r, rows, open) == \A s \in open :
  s.pw = rows[s.user].pw \/ (r.st = "clear" /\ r.user = s.user)
Knows(r, rows) ==
  /\ r.st \in {"clear", "session", "insert"} => r.pw = rows[r.user].pw
  /\ r.st \in LogInStages => r.row.pw = rows[r.user].pw
  /\ r.st \in {"reset", "enter"} => r.pw = r.row.pw
Numbered(open) == \A s, t \in open : s.token = t.token => s = t
Replaced(open, away) == \A s, t \in open :
  s.user = t.user /\ s.inst = t.inst /\ s.inst # None =>
    s = t \/ \E d \in away : d.user = s.user /\ d.inst = s.inst
MakesRoom(r, open, away) == r.st = "insert" =>
  /\ \A s \in open : s.token # r.session
  /\ r.inst # None =>
       \/ \E d \in away : d.user = r.user /\ d.inst = r.inst /\ d.keep = r.session
       \/ \A s \in open : ~(s.user = r.user /\ s.inst = r.inst)
InOrder(r, rows, open, away) ==
  /\ Agrees(r, rows, open) /\ Knows(r, rows)
  /\ Numbered(open) /\ Replaced(open, away) /\ MakesRoom(r, open, away)
SessionInv == settings.alone =>
  /\ AtRest => InOrder(Idle, users, sessions, strays)
  /\ \A h \in Slots : req[h] # Idle => InOrder(req[h], users, sessions, strays)

SamePasswords == \A u \in KnownIn(users) : users'[u].pw = users[u].pw
KeepsOrder(h) == \E f : Go(h, f) /\ InOrder(f, users', sessions', strays')

LEMMA OrderKeeps ==
  ASSUME TypeInv, NEW h \in Slots, settings' = settings, settings.alone => OthersIdle(h) /\ KeepsOrder(h)
  PROVE SessionInv'
  <1> SUFFICES ASSUME settings.alone
               PROVE /\ (\A g \in Slots : req'[g] = Idle) => InOrder(Idle, users', sessions', strays')
                     /\ \A g \in Slots : req'[g] # Idle => InOrder(req'[g], users', sessions', strays')
    BY DEF SessionInv, AtRest
  <1>1. PICK f : Go(h, f) /\ InOrder(f, users', sessions', strays') BY DEF KeepsOrder
  <1>2. req' = [req EXCEPT ![h] = f] /\ req \in [Slots -> ReqType] BY <1>1 DEF Go, TypeInv, Reqs
  <1>3. req'[h] = f /\ \A g \in Slots : g # h => req'[g] = Idle BY <1>2 DEF OthersIdle
  <1> QED BY <1>1, <1>3

\* A step that leaves sessions and passwords where they are.
LEMMA OrderMoves ==
  ASSUME TypeInv, NEW r, InOrder(r, users, sessions, strays), r.st # "clear", NEW f,
         UNCHANGED <<sessions, strays>>, SamePasswords, f.st # "insert", Knows(f, users')
  PROVE InOrder(f, users', sessions', strays')
  <1>1. Agrees(f, users', sessions')
    <2>1. \A s \in sessions : s.user \in KnownIn(users) BY SessionTypes
    <2> QED BY <2>1 DEF InOrder, Agrees, SamePasswords
  <1>2. Numbered(sessions') /\ Replaced(sessions', strays') BY DEF InOrder
  <1>3. MakesRoom(f, sessions', strays') BY DEF MakesRoom
  <1> QED BY <1>1, <1>2, <1>3 DEF InOrder

LEMMA PasswordsStay ==
  ASSUME users' = users
  PROVE SamePasswords
  BY DEF SamePasswords

\* Stages in which a request neither logs in nor has a session to make.
Elsewhere(f) == f.st \notin LogInStages \cup {"clear", "session", "insert"}
LEMMA ElsewhereKnows ==
  ASSUME NEW f, NEW rows, Elsewhere(f)
  PROVE Knows(f, rows) /\ f.st # "insert"
  BY DEF Elsewhere, Knows, LogInStages

LEMMA IdleElsewhere == Elsewhere(Idle)
  BY IdleFields DEF Elsewhere, LogInStages

LEMMA OrderRefuses ==
  ASSUME TypeInv, NEW h \in Slots, InOrder(req[h], users, sessions, strays), req[h].st # "clear", Refuse(h)
  PROVE KeepsOrder(h)
  <1>1. Go(h, Idle) /\ UNCHANGED <<users, sessions, strays>> BY DEF Refuse, Finish
  <1>2. SamePasswords /\ Knows(Idle, users') /\ Idle.st # "insert"
    BY <1>1, PasswordsStay, IdleElsewhere, ElsewhereKnows
  <1>3. InOrder(Idle, users', sessions', strays') BY <1>1, <1>2, OrderMoves
  <1> QED BY <1>1, <1>3 DEF KeepsOrder

LEMMA OrderReads ==
  ASSUME TypeInv, NEW h \in Slots, InOrder(req[h], users, sessions, strays), req[h].st # "clear",
         NEW f, Go(h, f), UNCHANGED <<sessions, strays>>, SamePasswords,
         f.st # "insert", Knows(f, users')
  PROVE KeepsOrder(h)
  <1>1. InOrder(f, users', sessions', strays') BY OrderMoves
  <1> QED BY <1>1 DEF KeepsOrder

LEMMA ArrivesOrder ==
  ASSUME TypeInv, SessionInv, settings.alone, NEW h \in Slots, Arrives(h)
  PROVE KeepsOrder(h)
  <1>1. PICK r : Arrived(h, r) BY ArrivesBegins
  <1>2. /\ Go(h, r) /\ UNCHANGED <<users, sessions, strays>> /\ Begun(r) /\ AtRest /\ req[h] = Idle
    BY <1>1 DEF Arrived
  <1>3. InOrder(req[h], users, sessions, strays) /\ req[h].st # "clear"
    BY <1>2, IdleFields DEF SessionInv
  <1>4. r.st # "insert" /\ Knows(r, users')
    BY <1>2 DEF Begun, Knows, WriteStages, LogInStages
  <1> QED BY <1>2, <1>3, <1>4, PasswordsStay, OrderReads

LEMMA StagesOrder ==
  ASSUME TypeInv, NEW h \in Slots, InOrder(req[h], users, sessions, strays),
         HandleAuthData(h) \/ ValidatePasswordHistory(h) \/ ValidateUserName(h) \/ ValidateEmail(h)
           \/ CollectHistory(h) \/ SendVerificationEmail(h)
  PROVE KeepsOrder(h)
  <1> DEFINE r == req[h]
  <1>0. r \in ReqType BY ReqTypes
  <1>1. r.st # "clear" /\ UNCHANGED <<users, sessions, strays>>
    BY DEF HandleAuthData, ValidatePasswordHistory, ValidateUserName, ValidateEmail, CollectHistory,
           SendVerificationEmail, Read, Refuse
  <1>2. ASSUME NEW f, Go(h, f), Elsewhere(f) PROVE KeepsOrder(h)
    BY <1>1, <1>2, PasswordsStay, ElsewhereKnows, OrderReads
  <1>3. \A f : f.st \in WriteStages => Elsewhere(f) BY DEF WriteStages, LogInStages, Elsewhere
  <1>4. Refuse(h) => KeepsOrder(h) BY <1>1, OrderRefuses
  <1>5. ASSUME r.st \in {"auth", "policy", "name"}, Read(h, NextStage(r)) PROVE KeepsOrder(h)
    <2>1. Elsewhere(NextStage(r)) BY <1>0, <1>3, <1>5, NextFields
    <2> QED BY <1>2, <1>5, <2>1 DEF Read
  <1>6. CASE HandleAuthData(h)
    <2>1. r.st = "auth" /\ (\/ Read(h, NextStage(r))
                            \/ \E u \in KnownIn(users) : Read(h, SignedIn(r, u, users[u].pw))
                            \/ Refuse(h))
      BY <1>6, KnownIsKnown DEF HandleAuthData, SignedIn
    <2>2. ASSUME NEW u \in KnownIn(users), Read(h, SignedIn(r, u, users[u].pw)) PROVE KeepsOrder(h)
      <3> DEFINE f == SignedIn(r, u, users[u].pw)
      <3>1. f.st = "session" /\ f.user = u /\ f.pw = users[u].pw BY <2>1, SignsIn
      <3>2. Go(h, f) BY <2>2 DEF Read
      <3> HIDE DEF f
      <3>3. Knows(f, users') BY <1>1, <3>1 DEF Knows, LogInStages
      <3> QED BY <1>1, <3>1, <3>2, <3>3, PasswordsStay, OrderReads
    <2> QED BY <1>4, <1>5, <2>1, <2>2
  <1>7. CASE ValidatePasswordHistory(h) \/ ValidateUserName(h)
    <2>1. r.st \in {"policy", "name"} /\ (Refuse(h) \/ Read(h, NextStage(r)))
      BY <1>7 DEF ValidatePasswordHistory, ValidateUserName
    <2> QED BY <1>4, <1>5, <2>1
  <1>8. CASE ValidateEmail(h)
    <2> DEFINE f == [NextStage(r) EXCEPT !.token = issued + 1]
    <2>1. r.st = "email" /\ (Refuse(h) \/ Go(h, f)) BY <1>8 DEF ValidateEmail
    <2>2. f.st \in {"past", "store"} BY <2>1, ReqTypes, EmailIsSound
    <2> HIDE DEF f
    <2>3. Elsewhere(f) BY <1>3, <2>2 DEF WriteStages
    <2> QED BY <1>2, <1>4, <2>1, <2>3
  <1>9. CASE CollectHistory(h)
    <2>1. \E f : Read(h, f) /\ f.st = "store" BY <1>9, CollectHistoryIs
    <2> QED BY <1>2, <1>3, <2>1 DEF Read, WriteStages
  <1>10. CASE SendVerificationEmail(h)
    <2>1. Go(h, Idle) BY <1>10 DEF SendVerificationEmail, Finish
    <2> QED BY <1>2, <2>1, IdleElsewhere
  <1> QED BY <1>6, <1>7, <1>8, <1>9, <1>10

\* A write that changes the password leaves its user's sessions to be cleared.
LEMMA StoresOrder ==
  ASSUME TypeInv, NEW h \in Slots, InOrder(req[h], users, sessions, strays),
         NEW u, NEW f, Stores(h, u, f)
  PROVE KeepsOrder(h)
  <1> DEFINE r == req[h]
             row == Before(h)
             w == Written(row, r)
  <1>1. /\ r.st = "store" /\ u \in Users /\ Go(h, f)
        /\ UNCHANGED <<sessions, strays>> /\ users' = [users EXCEPT ![u] = w]
        /\ r.user # None => u \in KnownIn(users) /\ row = users[u]
        /\ r.user = None => row = NewUser /\ u \notin KnownIn(users)
    BY DEF Stores, Before
  <1>2. w.pw = (IF r.pw = None THEN row.pw ELSE r.pw) BY StoresTypes DEF Fields
  <1>3. /\ GoesOn(f, r, u) /\ (f.st = "session" => r.user = None)
        /\ r.user # None => (f.st = "clear" <=> r.pw # None)
    BY StoresGoesOn
  <1>4. users \in [Users -> RowType \cup {None}] BY DEF TypeInv, Stored
  <1>5. NewUser.pw = None BY DEF NewUser
  <1>6. Agrees(r, users, sessions) /\ Numbered(sessions) /\ Replaced(sessions, strays) BY DEF InOrder
  <1> HIDE DEF r, row, w
  <1>7. users'[u] = w /\ \A v \in Users : v # u => users'[v] = users[v] BY <1>1, <1>4
  <1>8. Agrees(f, users', sessions')
    <2> SUFFICES ASSUME NEW s \in sessions
                 PROVE s.pw = users'[s.user].pw \/ (f.st = "clear" /\ f.user = s.user)
      BY <1>1 DEF Agrees
    <2>1. s.user \in KnownIn(users) /\ s.user \in Users BY SessionTypes
    <2>2. s.pw = users[s.user].pw BY <1>1, <1>6 DEF Agrees
    <2>3. CASE s.user # u BY <1>7, <2>1, <2>2, <2>3
    <2>4. CASE s.user = u
      <3>1. r.user # None /\ row = users[u] BY <1>1, <2>1, <2>4
      <3>2. CASE r.pw = None BY <1>2, <1>7, <2>2, <2>4, <3>1, <3>2
      <3>3. CASE r.pw # None
        <4>1. f.st = "clear" BY <1>3, <3>1, <3>3
        <4> QED BY <1>3, <2>4, <4>1, IdleFields DEF GoesOn
      <3> QED BY <3>2, <3>3
    <2> QED BY <2>3, <2>4
  <1>9. Knows(f, users')
    <2>1. CASE f = Idle BY <2>1, IdleElsewhere, ElsewhereKnows
    <2>2. CASE f # Idle
      <3>1. f.user = u /\ f.pw = r.pw /\ f.st \in {"session", "clear", "mail"} BY <1>3, <2>2 DEF GoesOn
      <3>2. f.st \in {"session", "clear"} => r.pw = w.pw BY <1>1, <1>2, <1>3, <1>5
      <3> QED BY <1>7, <3>1, <3>2 DEF Knows, LogInStages
    <2> QED BY <2>1, <2>2
  <1>10. f.st # "insert" BY <1>3, IdleFields DEF GoesOn
  <1>11. InOrder(f, users', sessions', strays')
    BY <1>1, <1>6, <1>8, <1>9, <1>10 DEF InOrder, MakesRoom
  <1> QED BY <1>1, <1>11 DEF KeepsOrder

LEMMA ClearOrder ==
  ASSUME TypeInv, NEW h \in Slots, InOrder(req[h], users, sessions, strays), ClearSessions(h)
  PROVE KeepsOrder(h)
  <1> DEFINE r == req[h]
  <1>1. /\ r.st = "clear" /\ sessions' = {s \in sessions : s.user # r.user}
        /\ UNCHANGED <<users, strays>>
    BY DEF ClearSessions
  <1>2. PICK f : Go(h, f) /\ (f = Idle \/ (f.st \in {"session", "mail"} /\ Keeps(f, r)))
    BY ClearSessionsIs
  <1>3. InOrder(r, users, sessions, strays) OBVIOUS
  <1> HIDE DEF r
  <1>4. Agrees(f, users', sessions') BY <1>1, <1>3 DEF InOrder, Agrees
  <1>5. Knows(f, users')
    <2>1. CASE f = Idle BY <2>1, IdleElsewhere, ElsewhereKnows
    <2>2. CASE f # Idle BY <1>1, <1>2, <1>3, <2>2 DEF InOrder, Knows, Keeps, LogInStages
    <2> QED BY <2>1, <2>2
  <1>6. Numbered(sessions') /\ Replaced(sessions', strays')
    BY <1>1, <1>3 DEF InOrder, Numbered, Replaced
  <1>7. f.st # "insert" BY <1>2, IdleFields
  <1>8. InOrder(f, users', sessions', strays') BY <1>4, <1>5, <1>6, <1>7 DEF InOrder, MakesRoom
  <1> QED BY <1>2, <1>8 DEF KeepsOrder

LEMMA DestroyOrder ==
  ASSUME TypeInv, NEW h \in Slots, InOrder(req[h], users, sessions, strays), DestroyDuplicatedSessions(h)
  PROVE KeepsOrder(h)
  <1> DEFINE r == req[h]
             d == [user |-> r.user, inst |-> r.inst, keep |-> issued + 1]
  <1>1. /\ r.st = "session" /\ UNCHANGED <<users, sessions>>
        /\ strays' = IF r.inst = None THEN strays ELSE strays \cup {d}
    BY DEF DestroyDuplicatedSessions
  <1>2. PICK f : /\ Go(h, f) /\ f.st = "insert" /\ f.session = issued + 1
                 /\ f.user = r.user /\ f.pw = r.pw /\ f.inst = r.inst
    BY DestroyIs
  <1>3. InOrder(r, users, sessions, strays) OBVIOUS
  <1>4. d.user = r.user /\ d.inst = r.inst /\ d.keep = issued + 1 OBVIOUS
  <1>5. \A s \in sessions : s.token # issued + 1
    <2>1. issued \in Nat /\ \A n \in 1..issued : n # issued + 1 BY ReqTypes
    <2> QED BY <2>1, SessionTypes
  <1> HIDE DEF r, d
  <1>6. Agrees(f, users', sessions') BY <1>1, <1>2, <1>3 DEF InOrder, Agrees
  <1>7. Knows(f, users') BY <1>1, <1>2, <1>3 DEF InOrder, Knows, LogInStages
  <1>8. Numbered(sessions') BY <1>1, <1>3 DEF InOrder
  <1>9. Replaced(sessions', strays') BY <1>1, <1>3 DEF InOrder, Replaced
  <1>10. MakesRoom(f, sessions', strays')
    <2>1. \A s \in sessions' : s.token # f.session BY <1>1, <1>2, <1>5
    <2>2. f.inst # None => d \in strays' BY <1>1, <1>2
    <2> QED BY <1>2, <1>4, <2>1, <2>2 DEF MakesRoom
  <1> QED BY <1>2, <1>6, <1>7, <1>8, <1>9, <1>10 DEF KeepsOrder, InOrder

LEMMA CreateOrder ==
  ASSUME TypeInv, NEW h \in Slots, InOrder(req[h], users, sessions, strays), CreateSession(h)
  PROVE KeepsOrder(h)
  <1> DEFINE r == req[h]
             new == SessionFor(r)
             f == SendMail(r)
  <1>1. /\ r.st = "insert" /\ sessions' = sessions \cup {new} /\ UNCHANGED <<users, strays>>
    BY DEF CreateSession
  <1>2. Go(h, f) /\ (f = Idle \/ f.st = "mail") BY CreateSessionIs
  <1>3. InOrder(r, users, sessions, strays) OBVIOUS
  <1>4. new.token = r.session /\ new.user = r.user /\ new.inst = r.inst /\ new.pw = r.pw
    BY DEF SessionFor
  <1> HIDE DEF r, new, f
  <1>5. Elsewhere(f) BY <1>2, IdleElsewhere DEF Elsewhere, LogInStages
  <1>6. new.pw = users[new.user].pw BY <1>1, <1>3, <1>4 DEF InOrder, Knows
  <1>7. Agrees(f, users', sessions') BY <1>1, <1>3, <1>6 DEF InOrder, Agrees
  <1>8. \A s \in sessions : s.token # new.token BY <1>1, <1>3, <1>4 DEF InOrder, MakesRoom
  <1>9. Numbered(sessions') BY <1>1, <1>3, <1>8 DEF InOrder, Numbered
  <1>10. \A s \in sessions : s.user = new.user /\ s.inst = new.inst /\ new.inst # None =>
           \E d \in strays : d.user = new.user /\ d.inst = new.inst
    BY <1>1, <1>3, <1>4 DEF InOrder, MakesRoom
  <1>11. Replaced(sessions', strays')
    <2> SUFFICES ASSUME NEW s \in sessions', NEW t \in sessions', s # t,
                        s.user = t.user, s.inst = t.inst, s.inst # None
                 PROVE \E d \in strays : d.user = s.user /\ d.inst = s.inst
      BY <1>1 DEF Replaced
    <2>1. CASE s = new BY <1>1, <1>10, <2>1
    <2>2. CASE t = new BY <1>1, <1>10, <2>2
    <2>3. CASE s # new /\ t # new BY <1>1, <1>3, <2>3 DEF InOrder, Replaced
    <2> QED BY <2>1, <2>2, <2>3
  <1>12. Knows(f, users') /\ f.st # "insert" BY <1>5, ElsewhereKnows
  <1> QED BY <1>2, <1>7, <1>9, <1>11, <1>12 DEF KeepsOrder, InOrder, MakesRoom

LEMMA DeleteOrder ==
  ASSUME TypeInv, NEW h \in Slots, InOrder(req[h], users, sessions, strays), DeleteSession(h)
  PROVE KeepsOrder(h)
  <1> DEFINE r == req[h]
  <1>1. /\ r.st = "delete" /\ sessions' = {s \in sessions : s.token # r.session}
        /\ UNCHANGED <<users, strays>> /\ Go(h, Idle)
    BY DEF DeleteSession, Finish
  <1>2. InOrder(r, users, sessions, strays) OBVIOUS
  <1> HIDE DEF r
  <1>3. Agrees(Idle, users', sessions') BY <1>1, <1>2 DEF InOrder, Agrees
  <1>4. Knows(Idle, users') /\ Idle.st # "insert" BY IdleElsewhere, ElsewhereKnows
  <1>5. Numbered(sessions') /\ Replaced(sessions', strays')
    BY <1>1, <1>2 DEF InOrder, Numbered, Replaced
  <1> QED BY <1>1, <1>3, <1>4, <1>5 DEF KeepsOrder, InOrder, MakesRoom

\* A deletion that arrives takes the sessions it was sent for and spares the one
\* it was told to keep: whatever it explained is in order now.
LEMMA StrayOrder ==
  ASSUME NEW r, InOrder(r, users, sessions, strays), StrayArrives
  PROVE InOrder(r, users', sessions', strays')
  <1>1. PICK d \in strays :
          /\ strays' = strays \ {d}
          /\ sessions' = {s \in sessions : ~(s.user = d.user /\ s.inst = d.inst /\ s.token # d.keep)}
          /\ users' = users
    BY DEF StrayArrives
  <1>2. \A s \in sessions' : s \in sessions /\ (s.user = d.user /\ s.inst = d.inst => s.token = d.keep)
    BY <1>1
  <1>3. Agrees(r, users', sessions') /\ Knows(r, users') BY <1>1, <1>2 DEF InOrder, Agrees
  <1>4. Numbered(sessions') BY <1>2 DEF InOrder, Numbered
  <1>5. Replaced(sessions', strays')
    <2> SUFFICES ASSUME NEW s \in sessions', NEW t \in sessions', s # t,
                        s.user = t.user, s.inst = t.inst, s.inst # None
                 PROVE \E e \in strays' : e.user = s.user /\ e.inst = s.inst
      BY DEF Replaced
    <2>1. PICK e \in strays : e.user = s.user /\ e.inst = s.inst
      BY <1>2 DEF InOrder, Replaced
    <2>2. e # d
      <3> SUFFICES ASSUME e = d PROVE FALSE OBVIOUS
      <3>1. s.token = d.keep /\ t.token = d.keep BY <1>2, <2>1
      <3> QED BY <1>2, <3>1 DEF InOrder, Numbered
    <2> QED BY <1>1, <2>1, <2>2
  <1>6. MakesRoom(r, sessions', strays')
    <2> SUFFICES ASSUME r.st = "insert"
                 PROVE /\ \A s \in sessions' : s.token # r.session
                       /\ r.inst # None =>
                            \/ \E e \in strays' : e.user = r.user /\ e.inst = r.inst /\ e.keep = r.session
                            \/ \A s \in sessions' : ~(s.user = r.user /\ s.inst = r.inst)
      BY DEF MakesRoom
    <2>1. \A s \in sessions' : s.token # r.session BY <1>2 DEF InOrder, MakesRoom
    <2>2. ASSUME r.inst # None
          PROVE \/ \E e \in strays' : e.user = r.user /\ e.inst = r.inst /\ e.keep = r.session
                \/ \A s \in sessions' : ~(s.user = r.user /\ s.inst = r.inst)
      <3>1. CASE \A s \in sessions : ~(s.user = r.user /\ s.inst = r.inst) BY <1>2, <3>1
      <3>2. CASE \E e \in strays : e.user = r.user /\ e.inst = r.inst /\ e.keep = r.session
        <4>1. PICK e \in strays : e.user = r.user /\ e.inst = r.inst /\ e.keep = r.session BY <3>2
        <4>2. CASE e = d BY <1>2, <2>1, <4>1, <4>2
        <4>3. CASE e # d BY <1>1, <4>1, <4>3
        <4> QED BY <4>2, <4>3
      <3> QED BY <2>2, <3>1, <3>2 DEF InOrder, MakesRoom
    <2> QED BY <2>1, <2>2
  <1> QED BY <1>3, <1>4, <1>5, <1>6 DEF InOrder

LEMMA CountedPasswords ==
  ASSUME TypeInv, NEW u, NEW w, Counted(u, w)
  PROVE SamePasswords
  <1>1. /\ users'[u] = w /\ \A v \in KnownIn(users) : v # u => users'[v] = users[v]
    BY CountedLock
  <1>2. w.pw = users[u].pw BY DEF Counted, KeepsUser
  <1> QED BY <1>1, <1>2 DEF SamePasswords

\* A log-in goes on with the password it has compared.
LoginGoes(h, st) ==
  /\ Go(h, At(req[h], st)) /\ UNCHANGED <<sessions, strays>> /\ SamePasswords
  /\ req[h].st \in LogInStages /\ st \in LogInStages \cup {"session"}
  /\ st = "reset" => PasswordMatches(req[h])
  /\ st = "enter" => req[h].st = "reset"
  /\ st = "session" => req[h].st = "enter"

LEMMA LoginGoesOrder ==
  ASSUME TypeInv, NEW h \in Slots, InOrder(req[h], users, sessions, strays), NEW st, LoginGoes(h, st)
  PROVE KeepsOrder(h)
  <1> DEFINE r == req[h]
             f == At(r, st)
  <1>1. /\ Go(h, f) /\ UNCHANGED <<sessions, strays>> /\ SamePasswords
        /\ r.st \in LogInStages /\ st \in LogInStages \cup {"session"}
        /\ st = "reset" => PasswordMatches(r)
        /\ st = "enter" => r.st = "reset"
        /\ st = "session" => r.st = "enter"
    BY DEF LoginGoes
  <1>2. f.st = st /\ Keeps(f, r) /\ r.user \in KnownIn(users) BY <1>1, LogInStep
  <1>3. Knows(r, users) BY DEF InOrder
  <1> HIDE DEF f, r
  <1>4. users'[r.user].pw = users[r.user].pw BY <1>1, <1>2 DEF SamePasswords
  <1>5. f.user = r.user /\ f.pw = r.pw /\ f.row = r.row BY <1>2 DEF Keeps
  <1>6. r.row.pw = users[r.user].pw BY <1>1, <1>3 DEF Knows
  <1>7. st \in {"reset", "enter", "session"} => r.pw = r.row.pw
    BY <1>1, <1>3 DEF Knows, PasswordMatches
  <1>8. st \notin {"clear", "insert"} /\ r.st # "clear" BY <1>1 DEF LogInStages
  <1>9. Knows(f, users') BY <1>2, <1>4, <1>5, <1>6, <1>7, <1>8 DEF Knows
  <1> QED BY <1>1, <1>2, <1>8, <1>9, OrderReads DEF r

LEMMA LogsInOrder ==
  ASSUME TypeInv, NEW h \in Slots, InOrder(req[h], users, sessions, strays), LogsIn(h)
  PROVE KeepsOrder(h)
  <1> DEFINE r == req[h]
             u == r.user
  <1>1. r \in ReqType /\ r.st # "clear"
    BY ReqTypes DEF LogsIn, Authenticate, NotLocked, SetFailedLoginCount, IsFailedLoginCountSet,
                    IncrementFailedLoginCount, SetLockoutExpiration, Admit
  <1>2. Refuse(h) => KeepsOrder(h) BY <1>1, OrderRefuses
  <1>3. ASSUME Go(h, Idle), UNCHANGED <<sessions, strays>>, SamePasswords PROVE KeepsOrder(h)
    BY <1>1, <1>3, IdleElsewhere, ElsewhereKnows, OrderReads
  <1>4. ASSUME NEW w, NEW f, LogsWrite(h, w, f)
        PROVE Go(h, f) /\ UNCHANGED <<sessions, strays>> /\ SamePasswords
    BY <1>4, CountedPasswords DEF LogsWrite, LoggingIn
  <1>5. ASSUME NEW f, Read(h, f)
        PROVE Go(h, f) /\ UNCHANGED <<sessions, strays>> /\ SamePasswords
    BY <1>5, PasswordsStay DEF Read
  <1>6. CASE Authenticate(h)
    <2>1. Refuse(h) \/ \E v \in KnownIn(users) : Read(h, Found(r, v, users[v])) BY <1>6, AuthenticateIs
    <2>2. ASSUME NEW v \in KnownIn(users), Read(h, Found(r, v, users[v])) PROVE KeepsOrder(h)
      <3> DEFINE f == Found(r, v, users[v])
      <3>1. v \in Users /\ users[v] \in RowType BY RowTypes
      <3>2. f.st = "lock" /\ f.user = v /\ f.row = users[v] BY <1>1, <3>1, FoundType
      <3>3. Go(h, f) /\ UNCHANGED <<users, sessions, strays>> BY <2>2 DEF Read
      <3> HIDE DEF f
      <3>4. Knows(f, users') BY <3>2, <3>3 DEF Knows
      <3> QED BY <1>1, <3>2, <3>3, <3>4, PasswordsStay, OrderReads
    <2> QED BY <1>2, <2>1, <2>2
  <1>7. CASE NotLocked(h) \/ IsFailedLoginCountSet(h)
    <2>1. \/ Refuse(h)
          \/ \E st \in {"reset", "isset", "count", "init"} :
               /\ Read(h, At(r, st)) /\ (st = "reset" => PasswordMatches(r))
               /\ r.st \in {"lock", "isset"}
      BY <1>7, LogInReads
    <2>2. ASSUME NEW st \in {"reset", "isset", "count", "init"}, Read(h, At(r, st)),
                 st = "reset" => PasswordMatches(r), r.st \in {"lock", "isset"}
          PROVE LoginGoes(h, st)
      BY <1>5, <2>2 DEF LoginGoes, LogInStages
    <2> QED BY <1>2, <2>1, <2>2, LoginGoesOrder
  <1>8. CASE SetFailedLoginCount(h)
    <2> DEFINE st == IF r.st = "reset" THEN "enter" ELSE "count"
    <2>1. r.st \in {"reset", "init"} /\ (Refuse(h) \/ \E w : LogsWrite(h, w, At(r, st)))
      BY <1>8, SetFailedLoginCountIs
    <2>2. ASSUME NEW w, LogsWrite(h, w, At(r, st)) PROVE LoginGoes(h, st)
      BY <1>4, <2>1, <2>2 DEF LoginGoes, LogInStages
    <2> HIDE DEF st
    <2> QED BY <1>2, <2>1, <2>2, LoginGoesOrder
  <1>9. CASE IncrementFailedLoginCount(h)
    <2>1. r.st = "count" /\ (Refuse(h) \/ \E w : LogsWrite(h, w, At(r, "lockout")))
      BY <1>9, IncrementIs
    <2>2. ASSUME NEW w, LogsWrite(h, w, At(r, "lockout")) PROVE LoginGoes(h, "lockout")
      BY <1>4, <2>1, <2>2 DEF LoginGoes, LogInStages
    <2> QED BY <1>2, <2>1, <2>2, LoginGoesOrder
  <1>10. CASE SetLockoutExpiration(h)
    <2>1. Refuse(h) \/ \E w : LogsWrite(h, w, Idle) BY <1>10, SetLockoutIs
    <2> QED BY <1>2, <1>3, <1>4, <2>1
  <1>11. CASE Admit(h)
    <2>1. /\ r.st = "enter"
          /\ \/ Refuse(h)
             \/ \E f \in {At(r, "session"), Idle} : Read(h, f) \/ \E w : LogsWrite(h, w, f)
      BY <1>11, AdmitIs
    <2>2. ASSUME Read(h, At(r, "session")) \/ \E w : LogsWrite(h, w, At(r, "session"))
          PROVE LoginGoes(h, "session")
      BY <1>4, <1>5, <2>1, <2>2 DEF LoginGoes, LogInStages
    <2>3. ASSUME Read(h, Idle) \/ \E w : LogsWrite(h, w, Idle) PROVE KeepsOrder(h)
      BY <1>3, <1>4, <1>5, <2>3
    <2> QED BY <1>2, <2>1, <2>2, <2>3, LoginGoesOrder
  <1> QED BY <1>6, <1>7, <1>8, <1>9, <1>10, <1>11 DEF LogsIn

LEMMA ConfirmPasswords ==
  ASSUME TypeInv, NEW h \in Slots, ConfirmEmail(h)
  PROVE SamePasswords
  <1> DEFINE new == [u \in Users |-> IF u \in KnownIn(users) /\ Confirmed(u, req[h])
                                     THEN ConfirmedRow(users[u]) ELSE users[u]]
  <1>1. users' = new BY KnownIsKnown DEF ConfirmEmail, ConfirmedRow
  <1>2. ASSUME NEW u \in KnownIn(users) PROVE users'[u].pw = users[u].pw
    <2>1. u \in Users /\ users[u] \in RowType BY RowTypes
    <2>2. users'[u] = IF Confirmed(u, req[h]) THEN ConfirmedRow(users[u]) ELSE users[u]
      BY <1>1, <2>1
    <2> QED BY <2>1, <2>2, ConfirmedRowType
  <1> QED BY <1>2 DEF SamePasswords

LEMMA RenewsPasswords ==
  ASSUME TypeInv, NEW h \in Slots, NEW u \in Users, Renews(h, u)
  PROVE SamePasswords
  <1> DEFINE w == Restored(users[u], req[h].row, req[h].token)
  <1>1. w.pw = users[u].pw BY RenewsTypes DEF RestoredFields
  <1>2. users' = [users EXCEPT ![u] = w] BY DEF Renews
  <1>3. users \in [Users -> RowType \cup {None}] BY DEF TypeInv, Stored
  <1> HIDE DEF w
  <1> QED BY <1>1, <1>2, <1>3 DEF SamePasswords, KnownIn

LEMMA UsesTokensOrder ==
  ASSUME TypeInv, NEW h \in Slots, InOrder(req[h], users, sessions, strays), UsesTokens(h)
  PROVE KeepsOrder(h)
  <1>1. req[h].st # "clear" /\ UNCHANGED <<sessions, strays>>
    BY DEF UsesTokens, VerifyEmail, ConfirmEmail, RegenerateToken, RenewToken,
           FindResetToken, SetPasswordResetToken, CheckResetToken, Read, Refuse, WriteUser
  <1>2. ASSUME NEW f, Go(h, f), Elsewhere(f), SamePasswords PROVE KeepsOrder(h)
    BY <1>1, <1>2, ElsewhereKnows, OrderReads
  <1>3. Refuse(h) => KeepsOrder(h) BY <1>1, OrderRefuses
  <1>4. CASE VerifyEmail(h)
    <2> DEFINE f == At(req[h], "confirm")
    <2>1. (Refuse(h) \/ Read(h, f)) /\ f.st = "confirm" BY <1>4, VerifyEmailIs
    <2> HIDE DEF f
    <2> QED BY <1>2, <1>3, <2>1, PasswordsStay DEF Read, Elsewhere, LogInStages
  <1>5. CASE ConfirmEmail(h)
    <2>1. Go(h, Idle) BY <1>5 DEF ConfirmEmail, Finish
    <2> QED BY <1>2, <1>5, <2>1, IdleElsewhere, ConfirmPasswords
  <1>6. CASE RegenerateToken(h)
    <2>1. ASSUME NEW u \in Users, NEW st \in {"mail", "renew"}, NEW t, t \in Nat, Asks(h, u, st, t)
          PROVE KeepsOrder(h)
      <3> DEFINE f == Renewal(req[h], users[u], st, t)
      <3>1. u \in KnownIn(users) /\ Go(h, f) /\ users' = users BY <2>1 DEF Asks
      <3>2. users[u] \in RowType /\ req[h] \in ReqType BY <3>1, RowTypes, ReqTypes
      <3>3. f.st = st BY <2>1, <3>2, RenewalType
      <3> HIDE DEF f
      <3> QED BY <1>2, <3>1, <3>3, PasswordsStay DEF Elsewhere, LogInStages
    <2>2. ASSUME NEW u \in Users, Asks(h, u, "mail", users[u].vtoken) PROVE KeepsOrder(h)
      <3>1. users[u].vtoken \in Nat BY <2>2, RowTypes DEF Asks, RowType
      <3> QED BY <2>1, <2>2, <3>1
    <2>3. issued + 1 \in Nat BY ReqTypes
    <2> QED BY <1>3, <1>6, <2>1, <2>2, <2>3, RegenerateIs
  <1>7. CASE RenewToken(h)
    <2>1. ASSUME NEW u \in Users, Renews(h, u) PROVE KeepsOrder(h)
      <3> DEFINE f == At(req[h], "mail")
      <3>1. Go(h, f) BY <2>1 DEF Renews
      <3>2. f.st = "mail" BY ReqTypes, AtType, StagesAre
      <3> HIDE DEF f
      <3> QED BY <1>2, <2>1, <3>1, <3>2, RenewsPasswords DEF Elsewhere, LogInStages
    <2> QED BY <1>3, <1>7, <2>1, RenewIs
  <1>8. CASE FindResetToken(h)
    <2> DEFINE f == At(req[h], "setReset")
    <2>1. users' = users /\ (Go(h, f) \/ Go(h, Idle))
      BY <1>8 DEF FindResetToken, Read, Finish, At
    <2>2. f.st = "setReset" BY ReqTypes, AtType, StagesAre
    <2> HIDE DEF f
    <2> QED BY <1>2, <2>1, <2>2, PasswordsStay, IdleElsewhere DEF Elsewhere, LogInStages
  <1>9. CASE SetPasswordResetToken(h)
    <2>1. ASSUME NEW u, NEW w, Resets(h, u, w) PROVE KeepsOrder(h)
      <3>1. Counted(u, w) /\ Go(h, Idle) BY <2>1 DEF Resets
      <3> QED BY <1>2, <3>1, CountedPasswords, IdleElsewhere
    <2> QED BY <1>3, <1>9, <2>1, SetResetIs
  <1>10. CASE CheckResetToken(h)
    <2>1. Refuse(h) \/ \E f : Read(h, f) /\ f.st \in WriteStages BY <1>10, CheckResetIs
    <2>2. ASSUME NEW f, Read(h, f), f.st \in WriteStages PROVE KeepsOrder(h)
      BY <1>2, <2>2, PasswordsStay DEF Read, Elsewhere, WriteStages, LogInStages
    <2> QED BY <1>3, <2>1, <2>2
  <1> QED BY <1>4, <1>5, <1>6, <1>7, <1>8, <1>9, <1>10 DEF UsesTokens

LEMMA SessionStep ==
  ASSUME TypeInv, TokenInv, Single, SessionInv, [Next]_vars
  PROVE SessionInv'
  <1>1. ASSUME NEW h \in Slots, Arrives(h) PROVE SessionInv'
    BY <1>1, ArrivesAlone, ArrivesOrder, OrderKeeps
  <1>2. ASSUME NEW h \in Slots, Writes(h) \/ LogsIn(h) \/ UsesTokens(h) PROVE SessionInv'
    <2>1. req[h] # Idle /\ settings' = settings BY <1>2, WritesActs, LogsInActs, UsesTokensActs
    <2>2. settings.alone => OthersIdle(h) BY <2>1, SingleLeavesOthers
    <2>3. settings.alone => InOrder(req[h], users, sessions, strays) BY <2>1 DEF SessionInv
    <2>4. ASSUME InOrder(req[h], users, sessions, strays), RunDatabaseOperation(h) PROVE KeepsOrder(h)
      <3>1. req[h].st # "clear" BY <2>4 DEF RunDatabaseOperation
      <3> QED BY <2>4, <3>1, StoreIs, StoresOrder, OrderRefuses
    <2>5. settings.alone /\ Writes(h) => KeepsOrder(h)
      BY <2>3, <2>4, StagesOrder, ClearOrder, DestroyOrder, CreateOrder, DeleteOrder DEF Writes
    <2>6. settings.alone /\ (LogsIn(h) \/ UsesTokens(h)) => KeepsOrder(h)
      BY <2>3, LogsInOrder, UsesTokensOrder
    <2> QED BY <1>2, <2>1, <2>2, <2>5, <2>6, OrderKeeps
  <1>3. ASSUME NEW h \in Slots, CallFails(h) PROVE SessionInv'
    BY <1>3, CallFailsActs DEF SessionInv
  <1>4. CASE StrayArrives
    <2>1. UNCHANGED <<settings, req>> BY <1>4 DEF StrayArrives
    <2>2. \A r : InOrder(r, users, sessions, strays) => InOrder(r, users', sessions', strays')
      BY <1>4, StrayOrder
    <2> QED BY <2>1, <2>2 DEF SessionInv, AtRest
  <1>5. CASE Tick \/ UNCHANGED vars
    <2>1. UNCHANGED <<settings, req, users, sessions, strays>> BY <1>5 DEF Tick, vars
    <2> QED BY <2>1 DEF SessionInv, AtRest
  <1> QED BY <1>1, <1>2, <1>3, <1>4, <1>5 DEF Next

LEMMA SessionInit ==
  ASSUME Init
  PROVE SessionInv
  <1>1. LegalStart(users, sessions) BY Starts
  <1>2. \A h \in Slots : req[h] = Idle BY DEF Init
  <1>3. Agrees(Idle, users, sessions) BY <1>1 DEF LegalStart, Agrees
  <1>4. Knows(Idle, users) /\ Idle.st # "insert" BY IdleElsewhere, ElsewhereKnows
  <1>5. Numbered(sessions) /\ Replaced(sessions, strays) BY <1>1 DEF LegalStart, Numbered, Replaced
  <1> QED BY <1>2, <1>3, <1>4, <1>5 DEF SessionInv, InOrder, MakesRoom

LEMMA OrderHolds == Spec => [](TypeInv /\ TokenInv /\ Single /\ SessionInv)
  <1> DEFINE Inv == TypeInv /\ TokenInv /\ Single /\ SessionInv
  <1>1. Init => Inv BY TypesInit, TokensInit, SingleInit, SessionInit
  <1>2. Inv /\ [Next]_vars => Inv' BY TypesStep, TokensStep, SingleStep, SessionStep
  <1> QED BY <1>1, <1>2, PTL DEF Spec

\* Requests served one by one leave only sessions whose owner knew today's password,
\* and one for each installation, once the deletions nobody waits for have arrived.
THEOREM SessionsAreSafe == Spec => []SessionsInOrder
  <1>1. ASSUME SessionInv PROVE SessionsInOrder
    <2> SUFFICES ASSUME settings.alone, AtRest, strays = {}
                 PROVE /\ \A s \in sessions : s.pw = users[s.user].pw
                       /\ \A s, t \in sessions : s.user = t.user /\ s.inst = t.inst /\ s.inst # None => s = t
      BY DEF SessionsInOrder
    <2>1. InOrder(Idle, users, sessions, strays) BY <1>1 DEF SessionInv
    <2> QED BY <2>1, IdleElsewhere DEF InOrder, Agrees, Replaced, Elsewhere
  <1> QED BY <1>1, OrderHolds, PTL

-----------------------------------------------------------------------------
(***************************************************************************)
(* Passwords, one request at a time.  The end of the history of a user is  *)
(* what the user wore before, and no longer than the check looks at; a     *)
(* request that has passed the check changes to a password not worn lately.*)
(***************************************************************************)
Fresh(p, w) == \A i \in 1..Len(w) : Len(w) + 1 - i <= History => w[i] # p
Distant(w) == \A i, j \in 1..Len(w) : i < j /\ j - i <= History => w[i] # w[j]
Remembers(past, pw, w) ==
  /\ Len(past) <= History
  /\ Len(w) >= 2 /\ History >= 2 => Len(past) <= History - 1
  /\ Len(w) >= 1 => w[Len(w)] = pw
  /\ \A k \in 1..(Len(w) - 1) : k <= History - 1 =>
       k <= Len(past) /\ w[Len(w) - k] = past[Len(past) + 1 - k]
Worn(rows, ws) ==
  /\ ws \in [Users -> Seq(Passwords \cup {None})]
  /\ \A u \in Users : Distant(ws[u])
  /\ \A u \in Users \ KnownIn(rows) : ws[u] = <<>>
  /\ \A u \in KnownIn(rows) : Remembers(rows[u].past, rows[u].pw, ws[u])
Chosen(r, rows, ws) == r.st \in WriteStages =>
  /\ r.st = "past" => Changing(r)
  /\ r.past = IF r.st = "store" /\ Changing(r) THEN KeptPasswords(rows[r.user]) ELSE <<>>
  /\ r.st \in {"name", "email", "past", "store"} /\ Changing(r) => Fresh(r.pw, ws[r.user])
PastInv == settings.alone => Worn(users, worn) /\ \A h \in Slots : Chosen(req[h], users, worn)

LEMMA Appended ==
  ASSUME NEW S, NEW w \in Seq(S), NEW p \in S
  PROVE /\ Append(w, p) \in Seq(S) /\ Len(Append(w, p)) = Len(w) + 1 /\ Len(w) \in Nat
        /\ \A i \in 1..Len(w) : Append(w, p)[i] = w[i]
        /\ Append(w, p)[Len(w) + 1] = p
  OBVIOUS

LEMMA FreshIsDistant ==
  ASSUME NEW S, NEW w \in Seq(S), NEW p \in S, Distant(w), Fresh(p, w)
  PROVE Distant(Append(w, p))
  <1> DEFINE v == Append(w, p)
  <1>1. /\ Len(v) = Len(w) + 1 /\ Len(w) \in Nat
        /\ \A i \in 1..Len(w) : v[i] = w[i]
        /\ v[Len(w) + 1] = p
    BY Appended
  <1> HIDE DEF v
  <1>2. History \in Nat BY AccountConstants
  <1> SUFFICES ASSUME NEW i \in 1..Len(v), NEW j \in 1..Len(v), i < j, j - i <= History
               PROVE v[i] # v[j]
    BY DEF Distant, v
  <1>3. i \in 1..Len(w) /\ v[i] = w[i] BY <1>1
  <1>4. CASE j = Len(w) + 1
    <2>1. Len(w) + 1 - i <= History BY <1>4
    <2> QED BY <1>1, <1>3, <1>4, <2>1 DEF Fresh
  <1>5. CASE j # Len(w) + 1
    <2>1. j \in 1..Len(w) BY <1>1, <1>5
    <2> QED BY <1>1, <1>3, <2>1 DEF Distant
  <1> QED BY <1>4, <1>5

\* The passwords that the check looks at are all that were worn lately.
Compared(row) == Take(row.past, History - 1) \o <<row.pw>>

LEMMA ComparedIs ==
  ASSUME NEW row \in RowType, History >= 1
  PROVE LET L == IF History - 1 <= Len(row.past) THEN History - 1 ELSE Len(row.past)
            old == Compared(row)
        IN /\ DOMAIN old = 1..(L + 1) /\ old[L + 1] = row.pw
           /\ \A i \in 1..L : old[i] = row.past[i]
  <1> DEFINE S == Passwords \cup {None}
             s == row.past
             pw == row.pw
             L == IF History - 1 <= Len(s) THEN History - 1 ELSE Len(s)
             t == Take(s, History - 1)
  <1>1. s \in Seq(S) /\ pw \in S BY DEF RowType
  <1>2. History - 1 \in Nat BY AccountConstants
  <1>3. t \in Seq(S) /\ Len(t) = L /\ \A i \in 1..L : t[i] = s[i]
    <2> HIDE DEF S, s
    <2> QED BY <1>1, <1>2, TakeIs
  <1>4. L \in Nat BY <1>1, <1>2
  <1> HIDE DEF S, s, pw, t, L
  <1> DEFINE old == t \o <<pw>>
  <1>5. <<pw>> \in Seq(S) /\ Len(<<pw>>) = 1 /\ <<pw>>[1] = pw BY <1>1
  <1>6. DOMAIN old = 1..(L + 1) /\ old[L + 1] = pw /\ \A i \in 1..L : old[i] = t[i]
    BY <1>3, <1>4, <1>5
  <1>7. Compared(row) = old BY DEF Compared, t, s, pw
  <1> HIDE DEF old
  <1> QED BY <1>3, <1>6, <1>7 DEF L, s, pw

LEMMA CheckedIsFresh ==
  ASSUME NEW row \in RowType, NEW w \in Seq(Passwords \cup {None}), NEW p,
         Remembers(row.past, row.pw, w), History >= 1,
         \A i \in DOMAIN Compared(row) : Compared(row)[i] # p
  PROVE Fresh(p, w)
  <1> DEFINE L == IF History - 1 <= Len(row.past) THEN History - 1 ELSE Len(row.past)
             old == Compared(row)
             past == row.past
             pw == row.pw
             n == Len(w)
             m == Len(past)
  <1>1. /\ DOMAIN old = 1..(L + 1) /\ old[L + 1] = pw
        /\ \A i \in 1..L : old[i] = past[i]
    BY ComparedIs
  <1>2. n \in Nat /\ m \in Nat /\ History \in Nat BY AccountConstants DEF RowType
  <1>3. L \in Nat /\ (L = History - 1 \/ L = m) /\ L <= m BY <1>2
  <1>4. /\ n >= 2 /\ History >= 2 => m <= History - 1
        /\ n >= 1 => w[n] = pw
        /\ \A k \in 1..(n - 1) : k <= History - 1 => k <= m /\ w[n - k] = past[m + 1 - k]
    BY DEF Remembers
  <1>5. \A i \in 1..(L + 1) : old[i] # p BY <1>1
  <1>6. History - 1 >= m => L = m BY <1>2
  <1> HIDE DEF L, old, past, pw, n, m
  <1> SUFFICES ASSUME NEW i \in 1..n, n + 1 - i <= History PROVE w[i] # p
    BY DEF Fresh, n
  <1>7. CASE i = n
    <2>1. L + 1 \in 1..(L + 1) /\ n >= 1 BY <1>2, <1>3
    <2> QED BY <1>1, <1>4, <1>5, <1>7, <2>1
  <1>8. CASE i # n
    <2> DEFINE k == n - i
    <2>1. k \in 1..(n - 1) /\ k <= History - 1 /\ n - k = i /\ n >= 2 /\ History >= 2
      BY <1>2, <1>8
    <2>2. k <= m /\ w[i] = past[m + 1 - k] BY <1>4, <2>1
    <2>3. L = m BY <1>2, <1>4, <1>6, <2>1
    <2> HIDE DEF k
    <2>4. m + 1 - k \in 1..L BY <1>2, <2>1, <2>2, <2>3
    <2>5. m + 1 - k \in 1..(L + 1) BY <1>3, <2>4
    <2> QED BY <1>1, <1>5, <2>2, <2>4, <2>5
  <1> QED BY <1>7, <1>8

\* With the new password goes a history that ends as the old one did, and in it
\* the password that was worn until now.
LEMMA KeptRemembers ==
  ASSUME NEW row \in RowType, NEW w \in Seq(Passwords \cup {None}), NEW p \in Passwords \cup {None},
         Remembers(row.past, row.pw, w), History >= 1
  PROVE Remembers(KeptPasswords(row), p, Append(w, p))
  <1> DEFINE past == row.past
             pw == row.pw
             m == Len(past)
             n == Len(w)
             c == Kept(m)
             L == IF History <= m THEN History ELSE m
             new == KeptPasswords(row)
             v == Append(w, p)
  <1>1. n \in Nat /\ m \in Nat /\ History \in Nat BY AccountConstants DEF RowType
  <1>2. /\ m <= History
        /\ n >= 2 /\ History >= 2 => m <= History - 1
        /\ n >= 1 => w[n] = pw
        /\ \A k \in 1..(n - 1) : k <= History - 1 => k <= m /\ w[n - k] = past[m + 1 - k]
    BY DEF Remembers
  <1>3. Len(new) = c + 1 /\ new[c + 1] = pw /\ \A i \in 1..c : new[i] = past[L - c + i]
    BY KeptIs
  <1>4. Len(v) = n + 1 /\ v[n + 1] = p /\ \A i \in 1..n : v[i] = w[i]
    BY Appended
  <1> HIDE DEF past, pw, n, new, v
  <1>5. L = m
    <2> HIDE DEF m
    <2> QED BY <1>1, <1>2
  <1> HIDE DEF L
  <1>6. /\ c \in Nat /\ c <= m
        /\ History >= 2 => c <= History - 2
        /\ History <= 2 => c = 0
        /\ m <= History - 2 => c = m
        /\ m >= History - 2 /\ History >= 2 => c = History - 2
    <2> HIDE DEF m
    <2> QED BY <1>1, KeptBounds
  <1> HIDE DEF c, m
  <1>7. Len(new) <= History BY <1>1, <1>3, <1>6
  <1>8. History >= 2 => Len(new) <= History - 1 BY <1>1, <1>3, <1>6
  <1>9. v[Len(v)] = p BY <1>4
  <1>10. ASSUME NEW k \in 1..(Len(v) - 1), k <= History - 1
         PROVE k <= Len(new) /\ v[Len(v) - k] = new[Len(new) + 1 - k]
    <2>1. k \in 1..n /\ Len(v) - k = n + 1 - k /\ n + 1 - k \in 1..n BY <1>1, <1>4
    <2>2. v[Len(v) - k] = w[n + 1 - k] BY <1>4, <2>1
    <2>3. CASE k = 1
      <3>1. Len(new) + 1 - k = c + 1 /\ n + 1 - k = n /\ k <= Len(new) BY <1>1, <1>3, <1>6, <2>3
      <3>2. n >= 1 BY <1>1, <2>1
      <3> QED BY <1>2, <1>3, <2>2, <3>1, <3>2
    <2>4. CASE k # 1
      <3> DEFINE l == k - 1
      <3>1. l \in 1..(n - 1) /\ l <= History - 2 /\ l <= History - 1 /\ n - l = n + 1 - k
        BY <1>1, <1>10, <2>1, <2>4
      <3>2. l <= m /\ w[n + 1 - k] = past[m + 1 - l] BY <1>2, <3>1
      <3>3. l <= c BY <1>1, <1>6, <3>1, <3>2
      <3>4. k = l + 1 BY <2>1
      <3> HIDE DEF l
      <3>5. /\ k <= Len(new) /\ Len(new) + 1 - k = c + 1 - l /\ c + 1 - l \in 1..c
            /\ L - c + (c + 1 - l) = m + 1 - l
        BY <1>1, <1>3, <1>5, <1>6, <3>1, <3>3, <3>4
      <3>6. new[c + 1 - l] = past[m + 1 - l] BY <1>3, <3>5
      <3> QED BY <2>2, <3>2, <3>5, <3>6
    <2> QED BY <2>3, <2>4
  <1> QED BY <1>7, <1>8, <1>9, <1>10 DEF Remembers, new, v

\* Steps at which nobody's password or history changes.
SamePasts ==
  /\ KnownIn(users') = KnownIn(users) /\ worn' = worn
  /\ \A u \in KnownIn(users) : users'[u].pw = users[u].pw /\ users'[u].past = users[u].past
GoesWorn(h) == \E f : Go(h, f) /\ Chosen(f, users', worn') /\ Worn(users', worn')

LEMMA WornStays ==
  ASSUME Worn(users, worn), SamePasts
  PROVE Worn(users', worn')
  BY DEF Worn, SamePasts

LEMMA SameIsSame ==
  ASSUME users' = users, worn' = worn
  PROVE SamePasts
  BY DEF SamePasts

LEMMA PastKeeps ==
  ASSUME TypeInv, NEW h \in Slots, settings' = settings, settings.alone => OthersIdle(h),
         settings.alone => GoesWorn(h)
  PROVE PastInv'
  <1> SUFFICES ASSUME settings.alone PROVE Worn(users', worn') /\ \A g \in Slots : Chosen(req'[g], users', worn')
    BY DEF PastInv
  <1>1. PICK f : Go(h, f) /\ Chosen(f, users', worn') /\ Worn(users', worn') BY DEF GoesWorn
  <1>2. req' = [req EXCEPT ![h] = f] /\ req \in [Slots -> ReqType] BY <1>1 DEF Go, TypeInv, Reqs
  <1>3. \A g \in Slots : g # h => req'[g] = Idle BY <1>2 DEF OthersIdle
  <1>4. Chosen(Idle, users', worn') BY IdleFields DEF Chosen, WriteStages
  <1> QED BY <1>1, <1>2, <1>3, <1>4

\* A request that leaves the stages of a write has no password to answer for.
LEMMA LeavesWorn ==
  ASSUME Worn(users, worn), SamePasts, NEW h, NEW f, Go(h, f), f.st \notin WriteStages
  PROVE GoesWorn(h)
  <1>1. Chosen(f, users', worn') BY DEF Chosen
  <1> QED BY <1>1, WornStays DEF GoesWorn

LEMMA RefusesWorn ==
  ASSUME Worn(users, worn), NEW h, Refuse(h)
  PROVE GoesWorn(h)
  <1>1. Go(h, Idle) /\ users' = users /\ worn' = worn BY DEF Refuse, Finish, histories
  <1>2. Idle.st \notin WriteStages BY IdleFields DEF WriteStages
  <1> QED BY <1>1, <1>2, SameIsSame, LeavesWorn

LEMMA ReadsWorn ==
  ASSUME Worn(users, worn), NEW h, NEW f, Go(h, f), users' = users, worn' = worn,
         Chosen(f, users, worn)
  PROVE GoesWorn(h)
  <1>1. Chosen(f, users', worn') /\ Worn(users', worn') OBVIOUS
  <1> QED BY <1>1 DEF GoesWorn

LEMMA ArrivesWorn ==
  ASSUME TypeInv, Worn(users, worn), NEW h \in Slots, Arrives(h)
  PROVE GoesWorn(h)
  <1>1. PICK r : Arrived(h, r) BY ArrivesBegins
  <1>2. Go(h, r) /\ users' = users /\ worn' = worn /\ Begun(r) BY <1>1 DEF Arrived, histories
  <1>3. Chosen(r, users, worn) BY <1>2 DEF Begun, Unchecked, Chosen, WriteStages
  <1> QED BY <1>2, <1>3, ReadsWorn

\* The stages of a write up to the last check.
LEMMA ChecksWorn ==
  ASSUME TypeInv, Worn(users, worn), NEW h \in Slots, Chosen(req[h], users, worn),
         HandleAuthData(h) \/ ValidatePasswordHistory(h) \/ ValidateUserName(h)
  PROVE GoesWorn(h)
  <1> DEFINE r == req[h]
             s == NextStage(r)
  <1>1. r \in ReqType BY ReqTypes
  <1>2. CASE Refuse(h) BY <1>2, RefusesWorn
  <1>3. ASSUME Read(h, s), Chosen(s, users, worn) PROVE GoesWorn(h)
    <2> HIDE DEF s, r
    <2>1. Go(h, s) /\ users' = users /\ worn' = worn BY <1>3 DEF Read, histories
    <2> QED BY <1>3, <2>1, ReadsWorn
  <1>4. Chosen(r, users, worn) OBVIOUS
  <1>5. r.st \in {"auth", "policy", "name"} => Keeps(s, r) /\ r.past = <<>>
    BY <1>1, <1>4, NextFields DEF Chosen, WriteStages
  <1>6. CASE HandleAuthData(h) /\ ~Refuse(h)
    <2>1. /\ r.st = "auth"
          /\ Read(h, s) \/ \E u \in KnownIn(users) : Read(h, SignedIn(r, u, users[u].pw))
      BY <1>6, KnownIsKnown DEF HandleAuthData, SignedIn
    <2>2. ASSUME Read(h, s) PROVE GoesWorn(h)
      <3>1. Reaches(r, s, 2) /\ Keeps(s, r) /\ r.past = <<>> BY <1>1, <1>5, <2>1, NextFields
      <3>2. Chosen(s, users, worn)
        <4> HIDE DEF s, r
        <4>1. Changing(s) <=> Changing(r) BY <3>1 DEF Keeps, Changing
        <4>2. s.past = <<>> BY <3>1 DEF Keeps
        <4> QED BY <3>1, <4>1, <4>2 DEF Reaches, Chosen, WriteStages
      <3> QED BY <1>3, <2>2, <3>2
    <2>3. ASSUME NEW u \in KnownIn(users), Read(h, SignedIn(r, u, users[u].pw)) PROVE GoesWorn(h)
      <3> DEFINE f == SignedIn(r, u, users[u].pw)
      <3>1. f.st \notin WriteStages BY <2>1, SignsIn DEF WriteStages
      <3>2. Go(h, f) /\ users' = users /\ worn' = worn BY <2>3 DEF Read, histories
      <3> HIDE DEF f
      <3> QED BY <3>1, <3>2, SameIsSame, LeavesWorn
    <2> QED BY <2>1, <2>2, <2>3
  <1>7. CASE ValidatePasswordHistory(h) /\ ~Refuse(h)
    <2>1. /\ r.st = "policy" /\ Read(h, s)
          /\ \A i \in DOMAIN Compared(users[r.user]) : Compared(users[r.user])[i] # r.pw
      BY <1>7 DEF ValidatePasswordHistory, Compared
    <2>2. Reaches(r, s, 3) /\ Keeps(s, r) /\ r.past = <<>> BY <1>1, <1>5, <2>1, NextFields
    <2>3. ASSUME Changing(r) PROVE Fresh(r.pw, worn[r.user])
      <3>1. r.user \in KnownIn(users) /\ History >= 1
        BY <2>3, ReqTypes, AccountConstants DEF Changing
      <3> DEFINE row == users[r.user]
                 w == worn[r.user]
      <3>2. row \in RowType /\ r.user \in Users BY <3>1, RowTypes
      <3>3. w \in Seq(Passwords \cup {None}) /\ Remembers(row.past, row.pw, w) BY <3>1, <3>2 DEF Worn
      <3>4. \A i \in DOMAIN Compared(row) : Compared(row)[i] # r.pw BY <2>1
      <3> HIDE DEF row, w
      <3>5. Fresh(r.pw, w) BY <3>1, <3>2, <3>3, <3>4, CheckedIsFresh
      <3> QED BY <3>5 DEF w
    <2>4. Chosen(s, users, worn)
      <3> HIDE DEF s, r
      <3>1. Changing(s) <=> Changing(r) BY <2>2 DEF Keeps, Changing
      <3>2. s.past = <<>> /\ s.pw = r.pw /\ s.user = r.user BY <2>2 DEF Keeps
      <3>3. s.st = "store" => ~Changing(s) BY <2>2, <3>1 DEF Reaches
      <3>4. s.st = "past" => Changing(s) BY <2>2, <3>1 DEF Reaches
      <3>5. Changing(s) => Fresh(s.pw, worn[s.user]) BY <2>3, <3>1, <3>2
      <3> QED BY <3>2, <3>3, <3>4, <3>5 DEF Chosen
    <2> QED BY <1>3, <2>1, <2>4
  <1>8. CASE ValidateUserName(h) /\ ~Refuse(h)
    <2>1. r.st = "name" /\ Read(h, s) BY <1>8 DEF ValidateUserName
    <2>2. Reaches(r, s, 4) /\ Keeps(s, r) /\ r.past = <<>> BY <1>1, <1>5, <2>1, NextFields
    <2>3. Chosen(s, users, worn)
      <3> HIDE DEF s, r
      <3>1. Changing(s) <=> Changing(r) BY <2>2 DEF Keeps, Changing
      <3>2. s.past = <<>> /\ s.pw = r.pw /\ s.user = r.user BY <2>2 DEF Keeps
      <3>3. s.st = "store" => ~Changing(s) BY <2>2, <3>1 DEF Reaches
      <3>4. s.st = "past" => Changing(s) BY <2>2, <3>1 DEF Reaches
      <3>5. Changing(s) => Fresh(s.pw, worn[s.user]) BY <1>4, <2>1, <3>1, <3>2 DEF Chosen, WriteStages
      <3> QED BY <3>2, <3>3, <3>4, <3>5 DEF Chosen
    <2> QED BY <1>3, <2>1, <2>3
  <1> QED BY <1>2, <1>6, <1>7, <1>8

LEMMA EmailWorn ==
  ASSUME TypeInv, Worn(users, worn), NEW h \in Slots, Chosen(req[h], users, worn), ValidateEmail(h)
  PROVE GoesWorn(h)
  <1>1. CASE Refuse(h) BY <1>1, RefusesWorn
  <1>2. CASE ~Refuse(h)
    <2> DEFINE r == req[h]
               t == NextStage(r)
               s == [t EXCEPT !.token = issued + 1]
    <2>1. r.st = "email" /\ Go(h, s) /\ users' = users /\ worn' = worn
      BY <1>2 DEF ValidateEmail, histories
    <2>2. r \in ReqType BY ReqTypes
    <2>3. Reaches(r, t, 5) BY <2>1, <2>2, NextReaches
    <2>4. Chosen(r, users, worn) OBVIOUS
    <2> HIDE DEF r, t
    <2>5. t.user = r.user /\ t.pw = r.pw /\ t.past = r.past /\ t \in ReqType /\ t.st \in WriteStages
      BY <2>2, <2>3 DEF Reaches, ReqType
    <2>6. s.user = r.user /\ s.pw = r.pw /\ s.past = r.past /\ s.st = t.st
      BY <2>5 DEF ReqType
    <2> HIDE DEF s
    <2>7. Changing(s) <=> Changing(r) BY <2>6 DEF Changing
    <2>8. s.past = <<>> /\ (Changing(s) => Fresh(s.pw, worn[s.user]))
      BY <2>1, <2>4, <2>6, <2>7 DEF Chosen, WriteStages
    <2>9. (s.st = "store" => ~Changing(s)) /\ (s.st = "past" => Changing(s))
      BY <2>3, <2>6, <2>7 DEF Reaches
    <2>10. Chosen(s, users, worn) BY <2>8, <2>9 DEF Chosen
    <2> QED BY <2>1, <2>10, ReadsWorn
  <1> QED BY <1>1, <1>2

LEMMA CollectWorn ==
  ASSUME TypeInv, Worn(users, worn), NEW h \in Slots, Chosen(req[h], users, worn), CollectHistory(h)
  PROVE GoesWorn(h)
  <1> DEFINE r == req[h]
             p == KeptPasswords(users[r.user])
             s == WithPast(NextStage(r), p)
  <1>1. /\ r.st = "past" /\ Read(h, s) /\ s.st = "store"
        /\ s.user = r.user /\ s.pw = r.pw /\ s.past = p
    BY CollectHistoryIs
  <1>2. Go(h, s) /\ users' = users /\ worn' = worn BY <1>1 DEF Read, histories
  <1>3. Chosen(r, users, worn) OBVIOUS
  <1>4. p = KeptPasswords(users[r.user]) OBVIOUS
  <1> HIDE DEF r, p, s
  <1>5. Changing(r) /\ Fresh(r.pw, worn[r.user]) BY <1>1, <1>3 DEF Chosen, WriteStages
  <1>6. Changing(s) BY <1>1, <1>5 DEF Changing
  <1>7. Chosen(s, users, worn) BY <1>1, <1>4, <1>5, <1>6 DEF Chosen
  <1> QED BY <1>2, <1>7, ReadsWorn

\* A write that chooses a password appends it to what its user wore.
LEMMA StoresWorn ==
  ASSUME TypeInv, Worn(users, worn), NEW h \in Slots, Chosen(req[h], users, worn),
         NEW u, NEW f, Stores(h, u, f)
  PROVE GoesWorn(h)
  <1> DEFINE r == req[h]
             row == Before(h)
             w == Written(row, r)
             was == worn[u]
             new == IF r.pw = None THEN was ELSE Append(was, r.pw)
             S == Passwords \cup {None}
  <1>1. /\ r.st = "store" /\ u \in Users /\ w \in RowType /\ Go(h, f)
        /\ users' = [users EXCEPT ![u] = w]
        /\ worn' = IF r.pw = None THEN worn ELSE [worn EXCEPT ![u] = Append(@, r.pw)]
        /\ r.user # None => u = r.user /\ u \in KnownIn(users) /\ row = users[u]
        /\ r.user = None => row = NewUser /\ u \notin KnownIn(users)
    BY DEF Stores, Before
  <1>2. /\ w.pw = (IF r.pw = None THEN row.pw ELSE r.pw)
        /\ w.past = (IF r.past = <<>> THEN row.past ELSE r.past)
    BY StoresTypes DEF Fields
  <1>3. /\ r.past = IF Changing(r) THEN KeptPasswords(users[r.user]) ELSE <<>>
        /\ Changing(r) => Fresh(r.pw, worn[r.user])
    BY <1>1 DEF Chosen, WriteStages
  <1>4. /\ users \in [Users -> RowType \cup {None}] /\ None \notin RowType
        /\ worn \in [Users -> Seq(S)] /\ was \in Seq(S)
    BY <1>1, SettingsConstants DEF TypeInv, Stored, Worn
  <1>5. r.pw \in S BY ReqTypes DEF ReqType
  <1>6. NewUser.past = <<>> /\ NewUser.pw = None BY DEF NewUser
  <1>7. r.user # None => row \in RowType /\ Remembers(row.past, row.pw, was)
    BY <1>1, RowTypes DEF Worn
  <1>8. Distant(was) /\ (r.user = None => was = <<>>) BY <1>1 DEF Worn
  <1>9. f.st \notin WriteStages BY StoresGoesOn, IdleFields DEF GoesOn, WriteStages
  <1>10. History \in Nat BY AccountConstants
  <1>11. worn' = [worn EXCEPT ![u] = new] BY <1>1, <1>4
  <1>12. Changing(r) => r.past = KeptPasswords(row) /\ Fresh(r.pw, was) /\ r.user # None /\ History >= 1
                        /\ r.pw # None
    BY <1>1, <1>3, <1>10 DEF Changing
  <1>13. ~Changing(r) => r.past = <<>> /\ (r.user = None \/ r.pw = None \/ History = 0)
    BY <1>3, <1>10 DEF Changing
  <1> HIDE DEF r, row, w, was, S
  <1>14. new \in Seq(S) BY <1>4, <1>5
  <1>15. Distant(new) /\ Remembers(w.past, w.pw, new)
    <2>1. CASE Changing(r)
      <3>1. new = Append(was, r.pw) /\ w.pw = r.pw BY <1>2, <1>12, <2>1
      <3>2. Distant(new) BY <1>4, <1>5, <1>8, <1>12, <2>1, <3>1, FreshIsDistant
      <3>3. Remembers(KeptPasswords(row), r.pw, new)
        BY <1>4, <1>5, <1>7, <1>12, <2>1, <3>1, KeptRemembers DEF S
      <3>4. w.past = KeptPasswords(row) BY <1>2, <1>7, <1>12, <2>1, KeptIs
      <3> QED BY <3>1, <3>2, <3>3, <3>4
    <2>2. CASE ~Changing(r) /\ r.pw = None
      <3>1. new = was /\ w.pw = row.pw /\ w.past = row.past BY <1>2, <1>13, <2>2
      <3>2. CASE r.user # None BY <1>7, <1>8, <3>1, <3>2
      <3>3. CASE r.user = None
        <4>1. w.past = <<>> /\ new = <<>> BY <1>1, <1>6, <1>8, <3>1, <3>3
        <4>2. Len(new) = 0 /\ Len(w.past) = 0 BY <4>1
        <4> QED BY <1>8, <1>10, <3>1, <4>2 DEF Remembers
      <3> QED BY <3>2, <3>3
    <2>3. CASE ~Changing(r) /\ r.pw # None /\ r.user = None
      <3>1. new = Append(was, r.pw) /\ w.pw = r.pw /\ was = <<>> BY <1>2, <1>8, <2>3
      <3>2. w.past = <<>> BY <1>1, <1>2, <1>6, <1>13, <2>3
      <3>3. Len(new) = 1 /\ new[1] = r.pw /\ Len(w.past) = 0 BY <1>5, <3>1, <3>2
      <3> HIDE DEF new
      <3>4. Distant(new) BY <3>3 DEF Distant
      <3>5. Remembers(w.past, w.pw, new) BY <1>10, <3>1, <3>3 DEF Remembers
      <3> QED BY <3>4, <3>5
    <2>4. CASE ~Changing(r) /\ r.pw # None /\ r.user # None
      <3>1. History = 0 BY <1>13, <2>4
      <3>2. new = Append(was, r.pw) /\ w.pw = r.pw /\ w.past = row.past BY <1>2, <1>13, <2>4
      <3>3. Len(new) = Len(was) + 1 /\ new[Len(new)] = r.pw /\ Len(new) \in Nat
        BY <1>4, <1>5, <3>2, Appended
      <3> HIDE DEF new
      <3>4. Distant(new) BY <3>1, <3>3 DEF Distant
      <3>5. Len(w.past) <= History BY <1>7, <2>4, <3>2 DEF Remembers
      <3>6. \A k \in 1..(Len(new) - 1) : ~(k <= History - 1) BY <3>1, <3>3
      <3>7. Remembers(w.past, w.pw, new) BY <3>1, <3>2, <3>3, <3>5, <3>6 DEF Remembers
      <3> QED BY <3>4, <3>7
    <2> QED BY <2>1, <2>2, <2>3, <2>4
  <1> HIDE DEF new
  <1>16. /\ users'[u] = w /\ worn'[u] = new /\ worn' \in [Users -> Seq(S)]
         /\ \A v \in Users : v # u => users'[v] = users[v] /\ worn'[v] = worn[v]
    BY <1>1, <1>4, <1>11, <1>14
  <1>17. u \in KnownIn(users') /\ \A v \in Users : v # u => (v \in KnownIn(users') <=> v \in KnownIn(users))
    BY <1>1, <1>4, <1>16 DEF KnownIn
  <1>18. Worn(users', worn')
    <2>1. \A v \in Users : Distant(worn'[v]) BY <1>15, <1>16 DEF Worn
    <2>2. \A v \in Users \ KnownIn(users') : worn'[v] = <<>> BY <1>16, <1>17 DEF Worn
    <2>3. \A v \in KnownIn(users') : Remembers(users'[v].past, users'[v].pw, worn'[v])
      <3> SUFFICES ASSUME NEW v \in KnownIn(users') PROVE Remembers(users'[v].past, users'[v].pw, worn'[v])
        OBVIOUS
      <3>1. v \in Users BY DEF KnownIn
      <3>2. CASE v = u BY <1>15, <1>16, <3>2
      <3>3. CASE v # u
        <4>1. v \in KnownIn(users) /\ users'[v] = users[v] /\ worn'[v] = worn[v]
          BY <1>16, <1>17, <3>1, <3>3
        <4> QED BY <4>1 DEF Worn
      <3> QED BY <3>2, <3>3
    <2> QED BY <1>16, <2>1, <2>2, <2>3 DEF Worn, S
  <1>19. Chosen(f, users', worn') BY <1>9 DEF Chosen
  <1> QED BY <1>1, <1>18, <1>19 DEF GoesWorn

LEMMA OthersWritesWorn ==
  ASSUME TypeInv, Worn(users, worn), NEW h \in Slots,
         ClearSessions(h) \/ SendVerificationEmail(h) \/ DestroyDuplicatedSessions(h)
           \/ CreateSession(h) \/ DeleteSession(h)
  PROVE GoesWorn(h)
  <1>1. SamePasts
    <2>1. users' = users /\ worn' = worn
      BY DEF ClearSessions, SendVerificationEmail, DestroyDuplicatedSessions, CreateSession,
             DeleteSession, histories
    <2> QED BY <2>1, SameIsSame
  <1>2. Idle.st \notin WriteStages BY IdleFields DEF WriteStages
  <1>3. CASE DeleteSession(h) \/ SendVerificationEmail(h)
    <2>1. Go(h, Idle) BY <1>3 DEF DeleteSession, SendVerificationEmail, Finish
    <2> QED BY <1>1, <1>2, <2>1, LeavesWorn
  <1>4. CASE ClearSessions(h)
    <2>1. \E f : Go(h, f) /\ (f = Idle \/ f.st \in {"session", "mail"})
      BY <1>4, ClearSessionsIs
    <2> QED BY <1>1, <1>2, <2>1, LeavesWorn DEF WriteStages
  <1>5. CASE DestroyDuplicatedSessions(h)
    <2>1. \E f : Go(h, f) /\ f.st = "insert" BY <1>5, DestroyIs
    <2> QED BY <1>1, <2>1, LeavesWorn DEF WriteStages
  <1>6. CASE CreateSession(h)
    <2>1. \E f : Go(h, f) /\ (f = Idle \/ f.st = "mail") BY <1>6, CreateSessionIs
    <2> QED BY <1>1, <1>2, <2>1, LeavesWorn DEF WriteStages
  <1> QED BY <1>3, <1>4, <1>5, <1>6

LEMMA CountedSamePasts ==
  ASSUME TypeInv, NEW u, NEW w, Counted(u, w), worn' = worn
  PROVE SamePasts
  <1>1. /\ users'[u] = w /\ \A v \in KnownIn(users) : v # u => users'[v] = users[v]
    BY CountedLock
  <1>2. w.pw = users[u].pw /\ w.past = users[u].past BY DEF Counted, KeepsUser
  <1>3. KnownIn(users') = KnownIn(users) BY CountedKnown
  <1> QED BY <1>1, <1>2, <1>3 DEF SamePasts

LEMMA ConfirmSamePasts ==
  ASSUME TypeInv, NEW h \in Slots, ConfirmEmail(h)
  PROVE SamePasts /\ Go(h, Idle)
  <1> DEFINE new == [u \in Users |-> IF u \in KnownIn(users) /\ Confirmed(u, req[h])
                                     THEN ConfirmedRow(users[u]) ELSE users[u]]
  <1>1. users' = new /\ Go(h, Idle) /\ worn' = worn
    BY KnownIsKnown DEF ConfirmEmail, Finish, ConfirmedRow
  <1>2. ASSUME NEW u \in KnownIn(users)
        PROVE users'[u].pw = users[u].pw /\ users'[u].past = users[u].past
    <2>1. u \in Users /\ users[u] \in RowType BY RowTypes
    <2>2. users'[u] = IF Confirmed(u, req[h]) THEN ConfirmedRow(users[u]) ELSE users[u]
      BY <1>1, <2>1
    <2> QED BY <2>1, <2>2, ConfirmedRowType
  <1> QED BY <1>1, <1>2, ConfirmEmailTypes DEF SamePasts

\* With the row of today written back, the history is the same.
LEMMA RenewsSamePasts ==
  ASSUME TypeInv, Identities(users), Distinct(users), NEW h \in Slots, FoundFree(req[h], users),
         NEW u \in Users, Renews(h, u)
  PROVE SamePasts
  <1> DEFINE r == req[h]
             w == Restored(users[u], r.row, r.token)
  <1>1. RestoredFields(w, users[u], r.row, r.token) /\ KnownIn(users') = KnownIn(users) BY RenewsTypes
  <1>2. users' = [users EXCEPT ![u] = w] /\ worn' = worn BY DEF Renews, histories
  <1>3. users[u] = r.row BY RenewsFree
  <1>4. users \in [Users -> RowType \cup {None}] BY DEF TypeInv, Stored
  <1> HIDE DEF r, w
  <1>5. w.pw = users[u].pw /\ w.past = users[u].past BY <1>1, <1>3 DEF RestoredFields
  <1> QED BY <1>1, <1>2, <1>4, <1>5 DEF SamePasts, KnownIn

LEMMA LogsInWorn ==
  ASSUME TypeInv, Worn(users, worn), NEW h \in Slots, LogsIn(h)
  PROVE GoesWorn(h)
  <1>1. \/ Refuse(h)
        \/ \E f : LoggingIn(h, f) /\ (users' = users \/ \E u, w : Counted(u, w))
    BY LogsInIs
  <1>2. ASSUME NEW f, LoggingIn(h, f), users' = users \/ \E u, w : Counted(u, w) PROVE GoesWorn(h)
    <2>1. worn' = worn BY <1>2 DEF LoggingIn, histories
    <2>2. SamePasts BY <1>2, <2>1, SameIsSame, CountedSamePasts
    <2>3. Go(h, f) /\ f.st \notin WriteStages
      BY <1>2, IdleFields DEF LoggingIn, LogInStages, WriteStages
    <2> QED BY <2>2, <2>3, LeavesWorn
  <1> QED BY <1>1, <1>2, RefusesWorn

LEMMA UsesTokensWorn ==
  ASSUME TypeInv, Identities(users), Distinct(users), NEW h \in Slots, FoundFree(req[h], users),
         Worn(users, worn), UsesTokens(h)
  PROVE GoesWorn(h)
  <1>1. ASSUME NEW f, Go(h, f), f.st \notin WriteStages, SamePasts PROVE GoesWorn(h)
    BY <1>1, LeavesWorn
  <1>2. Idle.st \notin WriteStages BY IdleFields DEF WriteStages
  <1>3. CASE VerifyEmail(h)
    <2> DEFINE f == At(req[h], "confirm")
    <2>1. (Refuse(h) \/ Read(h, f)) /\ f.st = "confirm" BY <1>3, VerifyEmailIs
    <2> HIDE DEF f
    <2>2. Read(h, f) => Go(h, f) /\ users' = users /\ worn' = worn BY DEF Read, histories
    <2>3. f.st \notin WriteStages BY <2>1 DEF WriteStages
    <2> QED BY <1>1, <2>1, <2>2, <2>3, RefusesWorn, SameIsSame
  <1>4. CASE ConfirmEmail(h) BY <1>1, <1>2, <1>4, ConfirmSamePasts
  <1>5. CASE RegenerateToken(h)
    <2>1. ASSUME NEW u \in Users, NEW st \in {"mail", "renew"}, NEW t, t \in Nat, Asks(h, u, st, t)
          PROVE GoesWorn(h)
      <3> DEFINE f == Renewal(req[h], users[u], st, t)
      <3>1. u \in KnownIn(users) /\ Go(h, f) /\ users' = users /\ worn' = worn
        BY <2>1 DEF Asks, histories
      <3>2. users[u] \in RowType /\ req[h] \in ReqType BY <3>1, RowTypes, ReqTypes
      <3>3. f.st = st BY <2>1, <3>2, RenewalType
      <3> HIDE DEF f
      <3>4. f.st \notin WriteStages BY <3>3 DEF WriteStages
      <3> QED BY <1>1, <3>1, <3>4, SameIsSame
    <2>2. ASSUME NEW u \in Users, Asks(h, u, "mail", users[u].vtoken) PROVE GoesWorn(h)
      <3>1. users[u].vtoken \in Nat BY <2>2, RowTypes DEF Asks, RowType
      <3> QED BY <2>1, <2>2, <3>1
    <2>3. issued + 1 \in Nat BY ReqTypes
    <2> QED BY <1>5, <2>1, <2>2, <2>3, RegenerateIs, RefusesWorn
  <1>6. CASE RenewToken(h)
    <2>1. ASSUME NEW u \in Users, Renews(h, u) PROVE GoesWorn(h)
      <3> DEFINE f == At(req[h], "mail")
      <3>1. Go(h, f) /\ f.st = "mail" BY <2>1, RenewsFree
      <3>2. SamePasts BY <2>1, RenewsSamePasts
      <3> HIDE DEF f
      <3>3. f.st \notin WriteStages BY <3>1 DEF WriteStages
      <3> QED BY <1>1, <3>1, <3>2, <3>3
    <2> QED BY <1>6, <2>1, RenewIs, RefusesWorn
  <1>7. CASE FindResetToken(h)
    <2> DEFINE f == At(req[h], "setReset")
    <2>1. users' = users /\ worn' = worn /\ (Go(h, f) \/ Go(h, Idle))
      BY <1>7 DEF FindResetToken, Read, Finish, At, histories
    <2>2. f.st = "setReset" BY ReqTypes, AtType, StagesAre
    <2> HIDE DEF f
    <2>3. f.st \notin WriteStages BY <2>2 DEF WriteStages
    <2> QED BY <1>1, <1>2, <2>1, <2>3, SameIsSame
  <1>8. CASE SetPasswordResetToken(h)
    <2>1. ASSUME NEW u, NEW w, Resets(h, u, w) PROVE GoesWorn(h)
      <3>1. SamePasts /\ Go(h, Idle) BY <2>1, CountedSamePasts DEF Resets
      <3> QED BY <1>1, <1>2, <3>1
    <2> QED BY <1>8, <2>1, SetResetIs, RefusesWorn
  <1>9. CASE CheckResetToken(h)
    <2>1. ASSUME NEW f, Read(h, f), f.st \in WriteStages, Unchecked(f) PROVE GoesWorn(h)
      <3>1. Go(h, f) /\ users' = users /\ worn' = worn BY <2>1 DEF Read, histories
      <3>2. Chosen(f, users, worn) BY <2>1 DEF Unchecked, Chosen, WriteStages
      <3> QED BY <3>1, <3>2, ReadsWorn
    <2> QED BY <1>9, <2>1, CheckResetIs, RefusesWorn
  <1> QED BY <1>3, <1>4, <1>5, <1>6, <1>7, <1>8, <1>9 DEF UsesTokens

LEMMA PastStep ==
  ASSUME TypeInv, TokenInv, Single, IdentityInv, PastInv, [Next]_vars
  PROVE PastInv'
  <1>1. settings.alone => /\ Identities(users) /\ Distinct(users) /\ Worn(users, worn)
                          /\ \A h \in Slots : FoundFree(req[h], users) /\ Chosen(req[h], users, worn)
    BY DEF IdentityInv, TokenInv, PastInv
  <1>2. ASSUME NEW h \in Slots, Arrives(h) PROVE PastInv'
    BY <1>1, <1>2, ArrivesAlone, ArrivesWorn, PastKeeps
  <1>3. ASSUME NEW h \in Slots, Writes(h) \/ LogsIn(h) \/ UsesTokens(h) PROVE PastInv'
    <2>1. req[h] # Idle /\ settings' = settings BY <1>3, WritesActs, LogsInActs, UsesTokensActs
    <2>2. settings.alone => OthersIdle(h) BY <2>1, SingleLeavesOthers
    <2>3. settings.alone /\ Writes(h) => GoesWorn(h)
      BY <1>1, ChecksWorn, EmailWorn, CollectWorn, StoreIs, StoresWorn, RefusesWorn, OthersWritesWorn
      DEF Writes
    <2>4. settings.alone /\ (LogsIn(h) \/ UsesTokens(h)) => GoesWorn(h)
      BY <1>1, LogsInWorn, UsesTokensWorn
    <2> QED BY <1>3, <2>1, <2>2, <2>3, <2>4, PastKeeps
  <1>4. ASSUME NEW h \in Slots, CallFails(h) PROVE PastInv'
    BY <1>4, CallFailsActs DEF PastInv
  <1>5. CASE StrayArrives \/ Tick \/ UNCHANGED vars
    <2>1. UNCHANGED <<settings, users, req, worn>> BY <1>5 DEF StrayArrives, Tick, vars, histories
    <2> QED BY <2>1 DEF PastInv
  <1> QED BY <1>2, <1>3, <1>4, <1>5 DEF Next

LEMMA PastInit ==
  ASSUME Init
  PROVE PastInv
  <1> DEFINE S == Passwords \cup {None}
  <1>1. LegalStart(users, sessions) BY Starts
  <1>2. \A h \in Slots : req[h] = Idle BY DEF Init
  <1>3. worn = [u \in Users |-> IF users[u] = None THEN <<>> ELSE <<users[u].pw>>] BY DEF Init
  <1>4. Chosen(Idle, users, worn) BY IdleFields DEF Chosen, WriteStages
  <1>5. \A u \in KnownIn(users) : users[u] \in RowType /\ Len(users[u].past) <= History
    BY <1>1 DEF LegalStart, KnownIn
  <1>6. ASSUME NEW u \in KnownIn(users)
        PROVE /\ worn[u] \in Seq(S) /\ Distant(worn[u])
              /\ Remembers(users[u].past, users[u].pw, worn[u])
    <2> DEFINE w == worn[u]
               pw == users[u].pw
    <2>1. u \in Users /\ users[u] # None BY DEF KnownIn
    <2>2. w = <<pw>> BY <1>3, <2>1
    <2>3. pw \in S BY <1>5 DEF RowType
    <2> HIDE DEF w, pw, S
    <2>4. w \in Seq(S) /\ Len(w) = 1 /\ w[1] = pw BY <2>2, <2>3
    <2>5. Distant(w) BY <2>4 DEF Distant
    <2>6. Remembers(users[u].past, pw, w) BY <1>5, <2>4 DEF Remembers
    <2> QED BY <2>4, <2>5, <2>6 DEF w, pw
  <1>7. ASSUME NEW u \in Users \ KnownIn(users)
        PROVE worn[u] = <<>> /\ worn[u] \in Seq(S) /\ Distant(worn[u])
    <2>1. worn[u] = <<>> BY <1>3 DEF KnownIn
    <2>2. Len(worn[u]) = 0 BY <2>1
    <2> QED BY <2>1, <2>2 DEF Distant
  <1>8. worn \in [Users -> Seq(S)] BY <1>3, <1>6, <1>7
  <1>9. Worn(users, worn) BY <1>6, <1>7, <1>8 DEF Worn
  <1> QED BY <1>2, <1>4, <1>9 DEF PastInv

LEMMA PastsHold == Spec => [](TypeInv /\ TokenInv /\ Single /\ IdentityInv /\ PastInv)
  <1> DEFINE Inv == TypeInv /\ TokenInv /\ Single /\ IdentityInv /\ PastInv
  <1>1. Init => Inv BY TypesInit, TokensInit, SingleInit, IdentityInit, PastInit
  <1>2. Inv /\ [Next]_vars => Inv'
    BY TypesStep, TokensStep, SingleStep, IdentityStep, PastStep
  <1> QED BY <1>1, <1>2, PTL DEF Spec

\* Requests served one by one let nobody take up a password again within as many
\* changes as the policy names, whichever way the password is changed.
THEOREM PasswordsAreNew == Spec => []PasswordNotRepeated
  <1>1. ASSUME PastInv PROVE PasswordNotRepeated
    <2> SUFFICES ASSUME settings.alone, NEW u \in Users
                 PROVE \A i, j \in DOMAIN worn[u] : i < j /\ j - i <= History => worn[u][i] # worn[u][j]
      BY DEF PasswordNotRepeated
    <2>1. worn[u] \in Seq(Passwords \cup {None}) /\ Distant(worn[u]) BY <1>1 DEF PastInv, Worn
    <2>2. DOMAIN worn[u] = 1..Len(worn[u]) BY <2>1
    <2> QED BY <2>1, <2>2 DEF Distant
  <1> QED BY <1>1, PastsHold, PTL
=============================================================================
