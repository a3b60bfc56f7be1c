-------------------------- MODULE Services_proofs --------------------------
(***************************************************************************)
(* Proofs about services of the server, for any names, objects, devices    *)
(* and numbers of requests: webhooks, installations, writes of objects,    *)
(* session and role caches, pushes.                                        *)
(***************************************************************************)
EXTENDS Services, Integers, Sequences, SequenceTheorems, FiniteSetTheorems, TLAPS

-----------------------------------------------------------------------------
(***************************************************************************)
(* Webhooks.                                                               *)
(***************************************************************************)
HookRequest ==
  {Hooks!Idle}
    \cup [at : {"find", "save"}, op : {"create", "update"}, name : HookNames, url : Urls]
    \cup [at : {"destroy"}, op : {"delete"}, name : HookNames, url : {None}]
HookTypes ==
  /\ load \in HookLoads
  /\ rows \in [HookNames -> Urls \cup {None}]
  /\ handlers \in [HookNames -> Urls \cup {Code, None}]
  /\ validators \subseteq HookNames /\ mixed \in BOOLEAN
  /\ starting \in [HookNames -> Urls \cup {None}] \cup {None}
  /\ req \in [Slots -> HookRequest]

\* The registry has the hook's URL, or no URL if there is no hook.
Agree(n) == IF rows[n] # None THEN handlers[n] = rows[n] ELSE handlers[n] \notin Urls
Changing(n) == \E h \in Slots : req[h].at \in {"save", "destroy"} /\ req[h].name = n

\* While nothing overlaps, there is one request, or the start; the start has read the rows as
\* they are and the registry has cloud code only; a request has registered what it writes.
InTurn ==
  /\ starting # None => Hooks!Quiet /\ starting = rows /\ \A n \in HookNames : handlers[n] \notin Urls
  /\ \A h, k \in Slots : req[h] # Hooks!Idle /\ req[k] # Hooks!Idle => h = k
  /\ \A h \in Slots : req[h].at \in {"save", "destroy"} => handlers[req[h].name] = req[h].url
  /\ starting = None => \A n \in HookNames \ split : Changing(n) \/ Agree(n)
HookInv ==
  /\ HookTypes
  /\ \A n \in load.guarded : handlers[n] = Code => n \in validators
  /\ ~ mixed => InTurn

LEMMA HookRequests ==
  ASSUME NEW r \in HookRequest
  PROVE  /\ r = Hooks!Idle <=> r.at = "idle"
         /\ r.at \in {"find", "save"} => r.name \in HookNames /\ r.url \in Urls
         /\ r.at = "destroy" => r.name \in HookNames /\ r.url = None
         /\ r.at \in {"idle", "find", "save", "destroy"}
  BY DEF HookRequest, Hooks!Idle

LEMMA NoneIsNoUrl == ASSUME Hooks!Constants PROVE None \notin Urls
  BY DEF Hooks!Constants

LEMMA HooksAtStart == ASSUME Hooks!Constants, Hooks!Init PROVE HookInv
  <1> USE DEF Hooks!Init
  <1>1. \A n \in HookNames : handlers[n] \in {Code, None} /\ handlers[n] \notin Urls
    BY DEF Hooks!Constants, Hooks!FromCode
  <1>2. HookTypes
    BY DEF HookTypes, HookRequest, Hooks!Constants, Hooks!FromCode
  <1>3. \A n \in load.guarded : handlers[n] = Code => n \in validators
    BY DEF Hooks!Constants
  <1>4. \A h \in Slots : req[h] = Hooks!Idle /\ req[h].at = "idle"
    BY DEF Hooks!Idle
  <1>5. Hooks!Quiet /\ starting # None
    BY DEF Hooks!Quiet, Hooks!Constants
  <1> QED
    BY <1>1, <1>2, <1>3, <1>4, <1>5 DEF HookInv, InTurn

\* The hooks read at the start, or the one a request stores, enter the registry.
LEMMA Registering ==
  ASSUME Hooks!Constants, HookInv, NEW hooks \in [HookNames -> Urls \cup {None}], Hooks!Register(hooks),
         UNCHANGED load
  PROVE  /\ handlers' \in [HookNames -> Urls \cup {Code, None}] /\ validators' \subseteq HookNames
         /\ \A n \in load.guarded : handlers'[n] = Code => n \in validators'
         /\ \A n \in HookNames : handlers'[n] = IF hooks[n] # None THEN hooks[n] ELSE handlers[n]
  <1> USE DEF Hooks!Register, HookInv, HookTypes
  <1>1. load.guarded \subseteq HookNames
    BY DEF Hooks!Constants
  <1>2. \A n \in HookNames : hooks[n] # None => hooks[n] \in Urls /\ hooks[n] # Code
    BY DEF Hooks!Constants
  <1>3. \A n \in HookNames : handlers'[n] = IF hooks[n] # None THEN hooks[n] ELSE handlers[n]
    OBVIOUS
  <1>4. \A n \in load.guarded : handlers'[n] = Code => n \in validators'
    BY <1>1, <1>2, <1>3
  <1> QED
    BY <1>3, <1>4

LEMMA HooksLoad == ASSUME Hooks!Constants, HookInv, Hooks!Load PROVE HookInv'
  <1> USE DEF Hooks!Load
  <1>1. starting \in [HookNames -> Urls \cup {None}]
    BY DEF HookInv, HookTypes
  <1>2. /\ handlers' \in [HookNames -> Urls \cup {Code, None}] /\ validators' \subseteq HookNames
        /\ \A n \in load.guarded : handlers'[n] = Code => n \in validators'
        /\ \A n \in HookNames : handlers'[n] = IF starting[n] # None THEN starting[n] ELSE handlers[n]
    BY <1>1, Registering
  <1>3. HookTypes'
    BY <1>2 DEF HookTypes, HookInv
  <1>4. ASSUME ~ mixed'
        PROVE  /\ \A h \in Slots : req[h].at = "idle"
               /\ \A n \in HookNames : Agree(n)'
    <2>1. Hooks!Quiet /\ starting = rows /\ \A n \in HookNames : handlers[n] \notin Urls
      BY <1>4 DEF HookInv, InTurn
    <2> QED
      BY <1>2, <2>1 DEF Agree, Hooks!Quiet, Hooks!Idle
  <1> QED
    <2>1. ~ mixed' => InTurn'
      <3> SUFFICES ASSUME ~ mixed' PROVE InTurn'
        OBVIOUS
      <3>1. starting' = None /\ \A h \in Slots : req'[h] = Hooks!Idle /\ req'[h].at = "idle"
        BY <1>4, HookRequests DEF HookInv, HookTypes
      <3> QED
        BY <1>4, <3>1 DEF InTurn
    <2> QED
      BY <1>2, <1>3, <2>1 DEF HookInv

LEMMA HooksRestart == ASSUME Hooks!Constants, HookInv, Hooks!Restart PROVE HookInv'
  <1> USE DEF Hooks!Restart
  <1>1. \A n \in HookNames : handlers'[n] \in {Code, None} /\ handlers'[n] \notin Urls
    BY DEF Hooks!Constants, Hooks!FromCode
  <1>2. HookTypes'
    BY DEF HookInv, HookTypes, HookRequest, Hooks!Constants, Hooks!FromCode
  <1>3. \A n \in load'.guarded : handlers'[n] = Code => n \in validators'
    BY DEF HookInv, HookTypes, Hooks!Constants, Hooks!FromCode
  <1>4. \A h \in Slots : req'[h] = Hooks!Idle /\ req'[h].at = "idle"
    BY DEF Hooks!Idle
  <1>5. Hooks!Quiet' /\ starting' # None
    BY <1>4 DEF Hooks!Quiet, Hooks!Constants, HookInv, HookTypes
  <1> QED
    BY <1>1, <1>2, <1>3, <1>4, <1>5 DEF HookInv, InTurn

LEMMA HooksArrive == ASSUME Hooks!Constants, HookInv, NEW h \in Slots, Hooks!Arrive(h) PROVE HookInv'
  <1>1. PICK op \in {"create", "update"}, n \in HookNames, u \in Urls :
          req' = [req EXCEPT ![h] = [at |-> "find", op |-> op, name |-> n, url |-> u]]
    BY DEF Hooks!Arrive, Hooks!Go
  <1>2. HookTypes'
    BY <1>1 DEF HookInv, HookTypes, HookRequest, Hooks!Arrive
  <1>3. \A k \in Slots \ {h} : req'[k] = req[k]
    BY <1>1 DEF HookInv, HookTypes
  <1>4. req'[h].at = "find"
    BY <1>1 DEF HookInv, HookTypes
  <1>5. ~ mixed' => ~ mixed /\ starting = None /\ \A k \in Slots : req[k] = Hooks!Idle /\ req[k].at = "idle"
    <2>1. mixed' = (mixed \/ ~ Hooks!Quiet \/ starting # None)
      BY DEF Hooks!Arrive
    <2>2. ~ mixed' => ~ mixed /\ Hooks!Quiet /\ starting = None
      BY <2>1, Zenon
    <2> QED
      BY <2>2 DEF Hooks!Quiet, Hooks!Idle
  <1>6. ~ mixed' => \A n1 \in HookNames : ~ Changing(n1)
    BY <1>5 DEF Changing
  <1>7. UNCHANGED <<load, rows, handlers, validators, starting, split>>
    BY DEF Hooks!Arrive
  <1>8. \A n1 \in HookNames : Agree(n1)' <=> Agree(n1)
    BY <1>7 DEF Agree
  <1> QED
    BY <1>2, <1>3, <1>4, <1>5, <1>6, <1>7, <1>8 DEF HookInv, InTurn

LEMMA HooksFind == ASSUME Hooks!Constants, HookInv, NEW h \in Slots, Hooks!Find(h) PROVE HookInv'
  <1> DEFINE r == req[h]
  <1>1. /\ r \in HookRequest /\ r.at = "find" /\ r.name \in HookNames /\ r.url \in Urls
        /\ r # Hooks!Idle /\ r.url # None /\ r.url # Code
    BY HookRequests DEF Hooks!Find, HookInv, HookTypes, Hooks!Constants
  <1>2. UNCHANGED <<load, rows, starting, split, mixed>>
    BY DEF Hooks!Find
  <1>3. /\ req' = [req EXCEPT ![h] = Hooks!Idle]
        /\ UNCHANGED <<handlers, validators>>
     \/ /\ req' = [req EXCEPT ![h] = [r EXCEPT !.at = "save"]]
        /\ Hooks!Register(Hooks!Only(r.name, r.url))
    BY DEF Hooks!Find, Hooks!End, Hooks!Go
  <1>4. [r EXCEPT !.at = "save"] \in HookRequest /\ [r EXCEPT !.at = "save"].at = "save"
        /\ [r EXCEPT !.at = "save"].name = r.name /\ [r EXCEPT !.at = "save"].url = r.url
    BY <1>1 DEF HookRequest, Hooks!Idle
  <1>5. /\ \A k \in Slots \ {h} : req'[k] = req[k]
        /\ req'[h] \in {Hooks!Idle, [r EXCEPT !.at = "save"]}
    BY <1>3 DEF HookInv, HookTypes
  <1>6. ~ mixed => starting = None /\ \A k \in Slots \ {h} : req[k] = Hooks!Idle /\ req[k].at = "idle"
    BY <1>1 DEF HookInv, InTurn, Hooks!Quiet, Hooks!Idle
  <1>7. ~ mixed => \A n \in HookNames : ~ Changing(n)
    BY <1>1, <1>6 DEF Changing
  <1>8. CASE /\ req' = [req EXCEPT ![h] = Hooks!Idle]
             /\ UNCHANGED <<handlers, validators>>
    <2>1. HookTypes'
      BY <1>2, <1>8 DEF HookInv, HookTypes, HookRequest
    <2>2. req'[h] = Hooks!Idle /\ req'[h].at = "idle"
      BY <1>8 DEF HookInv, HookTypes, Hooks!Idle
    <2>3. \A n \in HookNames : Agree(n)' <=> Agree(n)
      BY <1>2, <1>8 DEF Agree
    <2> QED
      BY <1>2, <1>5, <1>6, <1>7, <1>8, <2>1, <2>2, <2>3 DEF HookInv, InTurn
  <1>9. CASE /\ req' = [req EXCEPT ![h] = [r EXCEPT !.at = "save"]]
             /\ Hooks!Register(Hooks!Only(r.name, r.url))
    <2> DEFINE only == Hooks!Only(r.name, r.url)
    <2>1. /\ only \in [HookNames -> Urls \cup {None}]
          /\ \A n \in HookNames : only[n] = IF n = r.name THEN r.url ELSE None
      BY <1>1 DEF Hooks!Only
    <2>2. /\ handlers' \in [HookNames -> Urls \cup {Code, None}] /\ validators' \subseteq HookNames
          /\ \A n \in load.guarded : handlers'[n] = Code => n \in validators'
          /\ \A n \in HookNames : handlers'[n] = IF only[n] # None THEN only[n] ELSE handlers[n]
      BY <1>2, <1>9, <2>1, Registering
    <2> HIDE DEF only
    <2>3. handlers'[r.name] = r.url /\ \A n \in HookNames \ {r.name} : handlers'[n] = handlers[n]
      BY <1>1, <2>1, <2>2
    <2>4. HookTypes'
      BY <1>2, <1>4, <1>9, <2>2 DEF HookInv, HookTypes
    <2>5. req'[h] = [r EXCEPT !.at = "save"]
      BY <1>9 DEF HookInv, HookTypes
    <2>6. \A n \in HookNames : IF n = r.name THEN Changing(n)' ELSE Agree(n)' <=> Agree(n)
      BY <1>2, <1>4, <2>3, <2>5 DEF Changing, Agree
    <2>7. ~ mixed => InTurn'
      <3> SUFFICES ASSUME ~ mixed PROVE InTurn'
        OBVIOUS
      <3>1. starting' = None /\ \A k \in Slots \ {h} : req'[k] = Hooks!Idle /\ req'[k].at = "idle"
        BY <1>2, <1>5, <1>6
      <3>2. handlers'[req'[h].name] = req'[h].url
        BY <1>4, <2>3, <2>5
      <3>3. \A n \in HookNames \ split' : Changing(n)' \/ Agree(n)'
        <4>1. \A n \in HookNames \ split : Agree(n)
          BY <1>6, <1>7 DEF HookInv, InTurn
        <4> QED
          BY <1>2, <2>6, <4>1 DEF Agree, Changing
      <3> QED
        BY <3>1, <3>2, <3>3 DEF InTurn
    <2> QED
      BY <1>2, <2>2, <2>4, <2>7 DEF HookInv
  <1> QED
    BY <1>3, <1>8, <1>9

LEMMA HooksDelete == ASSUME Hooks!Constants, HookInv, NEW h \in Slots, Hooks!Delete(h) PROVE HookInv'
  <1>1. PICK n \in HookNames :
          /\ handlers' = [handlers EXCEPT ![n] = None]
          /\ req' = [req EXCEPT ![h] = [at |-> "destroy", op |-> "delete", name |-> n, url |-> None]]
    BY DEF Hooks!Delete, Hooks!Go, Hooks!Removed
  <1>2. UNCHANGED <<load, rows, validators, starting, split>>
    BY DEF Hooks!Delete
  <1>3. HookTypes'
    BY <1>1, <1>2 DEF HookInv, HookTypes, HookRequest, Hooks!Delete
  <1>4. handlers'[n] = None /\ \A m \in HookNames \ {n} : handlers'[m] = handlers[m]
    BY <1>1 DEF HookInv, HookTypes
  <1>5. /\ \A k \in Slots \ {h} : req'[k] = req[k]
        /\ req'[h].at = "destroy" /\ req'[h].name = n /\ req'[h].url = None
    BY <1>1 DEF HookInv, HookTypes
  <1>6. \A m \in load'.guarded : handlers'[m] = Code => m \in validators'
    BY <1>2, <1>4 DEF HookInv, HookTypes, Hooks!Constants
  <1>7. ~ mixed' => ~ mixed /\ starting = None /\ \A k \in Slots : req[k] = Hooks!Idle /\ req[k].at = "idle"
    <2>1. mixed' = (mixed \/ ~ Hooks!Quiet \/ starting # None)
      BY DEF Hooks!Delete
    <2>2. ~ mixed' => ~ mixed /\ Hooks!Quiet /\ starting = None
      BY <2>1, Zenon
    <2> QED
      BY <2>2 DEF Hooks!Quiet, Hooks!Idle
  <1>8. ~ mixed' => \A m \in HookNames : ~ Changing(m)
    BY <1>7 DEF Changing
  <1>9. Changing(n)' /\ \A m \in HookNames \ {n} : Agree(m)' <=> Agree(m)
    BY <1>2, <1>4, <1>5 DEF Changing, Agree
  <1> QED
    BY <1>2, <1>3, <1>4, <1>5, <1>6, <1>7, <1>8, <1>9 DEF HookInv, InTurn

LEMMA HooksWrite == ASSUME Hooks!Constants, HookInv, NEW h \in Slots, Hooks!Write(h) PROVE HookInv'
  <1> DEFINE r == req[h]
  <1>1. /\ r \in HookRequest /\ r.at \in {"save", "destroy"} /\ r.name \in HookNames /\ r # Hooks!Idle
        /\ r.url \in Urls \cup {None}
    BY HookRequests DEF Hooks!Write, HookInv, HookTypes
  <1>2. UNCHANGED <<load, handlers, validators, starting, mixed>> /\ req' = [req EXCEPT ![h] = Hooks!Idle]
    BY DEF Hooks!Write, Hooks!End, Hooks!Go
  <1>3. \/ rows' = [rows EXCEPT ![r.name] = r.url] /\ split' = split \ {r.name}
        \/ split' = split \cup {r.name} /\ UNCHANGED rows
    BY DEF Hooks!Write
  <1>4. HookTypes'
    BY <1>1, <1>2, <1>3 DEF HookInv, HookTypes, HookRequest
  <1>5. \A n \in HookNames \ {r.name} : rows'[n] = rows[n] /\ (n \in split' <=> n \in split)
    BY <1>3 DEF HookInv, HookTypes
  <1>6. /\ \A k \in Slots \ {h} : req'[k] = req[k]
        /\ req'[h] = Hooks!Idle /\ req'[h].at = "idle"
    BY <1>2 DEF HookInv, HookTypes, Hooks!Idle
  <1>7. ~ mixed => starting = None /\ \A k \in Slots \ {h} : req[k] = Hooks!Idle /\ req[k].at = "idle"
    BY <1>1 DEF HookInv, InTurn, Hooks!Quiet, Hooks!Idle
  <1>8. ~ mixed => \A n \in HookNames \ {r.name} : ~ Changing(n)
    BY <1>7 DEF Changing
  <1>9. \A n \in HookNames \ {r.name} : Agree(n)' <=> Agree(n)
    BY <1>2, <1>5 DEF Agree
  <1>10. \A n \in HookNames : ~ mixed /\ n = r.name /\ n \notin split' => Agree(n)'
    <2> SUFFICES ASSUME ~ mixed, NEW n \in HookNames, n = r.name, n \notin split' PROVE Agree(n)'
      OBVIOUS
    <2>1. rows'[n] = r.url /\ handlers'[n] = r.url
      BY <1>1, <1>2, <1>3 DEF HookInv, InTurn, HookTypes
    <2>2. r.url # None => r.url \in Urls
      BY <1>1
    <2> QED
      BY <2>1, <2>2, NoneIsNoUrl DEF Agree
  <1>11. ~ mixed => InTurn'
    <2> SUFFICES ASSUME ~ mixed PROVE InTurn'
      OBVIOUS
    <2>1. starting' = None
      BY <1>2, <1>7
    <2>2. \A k \in Slots : req'[k] = Hooks!Idle /\ req'[k].at = "idle"
      BY <1>6, <1>7
    <2>3. \A n \in HookNames \ split' : Agree(n)'
      <3>1. \A n \in HookNames \ split : n # r.name => Agree(n)
        BY <1>7, <1>8 DEF HookInv, InTurn
      <3>2. \A n \in HookNames : n # r.name /\ n \notin split' => Agree(n)'
        BY <1>5, <1>9, <3>1 DEF Agree
      <3> QED
        BY <1>10, <3>2 DEF Agree
    <2> QED
      BY <2>1, <2>2, <2>3 DEF InTurn
  <1> QED
    BY <1>2, <1>4, <1>11 DEF HookInv

\* The webhook called for a name is the one stored for it, unless requests overlapped each
\* other or the start, or a write failed; cloud code is not called without its validator.
THEOREM WebhooksMatch == ASSUME Hooks!Constants PROVE Hooks!Spec => []HooksMatch
  <1>1. HookInv /\ [Hooks!Next]_(Hooks!vars) => HookInv'
    <2>1. HookInv /\ UNCHANGED Hooks!vars => HookInv'
      BY DEF HookInv, InTurn, HookTypes, Agree, Changing, Hooks!Quiet, Hooks!vars
    <2> QED
      BY <2>1, HooksLoad, HooksRestart, HooksArrive, HooksFind, HooksDelete, HooksWrite DEF Hooks!Next
  <1>2. HookInv => HooksMatch
    <2>1. HookInv /\ Hooks!Quiet => \A n \in HookNames : ~ Changing(n)
      BY DEF Changing, Hooks!Quiet, Hooks!Idle
    <2> QED
      BY <2>1 DEF HooksMatch, Hooks!HooksMatch, HookInv, InTurn, Agree, Hooks!Exists
  <1> QED
    BY HooksAtStart, <1>1, <1>2, PTL DEF Hooks!Spec

-----------------------------------------------------------------------------
(***************************************************************************)
(* Installations.                                                          *)
(***************************************************************************)
DeviceRequest ==
  [at : {"idle", "find", "merge", "write"}, obj : DeviceIds \cup {None}, inst : Insts \cup {None},
   token : DeviceTokens \cup {None}, header : Insts \cup {None}, typed : BOOLEAN, own : BOOLEAN,
   drop : DeviceIds \cup {None}, target : DeviceIds \cup {None}]
Stray == [token : DeviceTokens, inst : Insts \cup {None}, id : DeviceIds \cup {None}]
DeviceTypes ==
  /\ load \in DeviceLoads
  /\ rows \in [DeviceIds -> Devices!Row \cup {None}]
  /\ req \in [Slots -> DeviceRequest]
  /\ strays \subseteq Stray

\* Rows other than x that have an installationId, or a token.
InstElsewhere(i, x) == i # None /\ \E y \in Devices!Stored \ {x} : rows[y].inst = i
TokenElsewhere(t, x) == t # None /\ \E y \in Devices!Stored \ {x} : rows[y].token = t

\* Requests one at a time.  No two rows have one installationId, not even until the deletions
\* are made, and the request has found where its own will be.
InstsApart ==
  /\ \A h, k \in Slots : req[h] # Devices!Idle /\ req[k] # Devices!Idle => h = k
  /\ \A h \in Slots : req[h].at \in {"find", "merge"} => strays = {}
  /\ \A x \in Devices!Stored : ~ InstElsewhere(rows[x].inst, x)
  /\ \A h \in Slots :
       /\ req[h].at = "merge" => req[h].drop \in Devices!Stored /\ ~ InstElsewhere(req[h].inst, req[h].drop)
       /\ req[h].at = "write" => ~ InstElsewhere(req[h].inst, req[h].target)

\* If requests name their installations: two rows have one token only while a deletion is to
\* strike the other, and the request has found that nobody has its token or has it deleted.
AllNamed == \A s \in load.shapes : s.inst # None
Cleaner(r) == [token |-> r.token, inst |-> r.inst, id |-> None]
TokensApart ==
  /\ \A h \in Slots : req[h] # Devices!Idle => req[h].inst # None
  /\ \A q \in strays : q.inst # None /\ q.id = None
  /\ \A q, p \in strays : q = p
  /\ \A x \in Devices!Stored : TokenElsewhere(rows[x].token, x) => \E q \in strays : q.token = rows[x].token
  /\ \A h \in Slots :
       /\ req[h].at = "merge" => ~ TokenElsewhere(req[h].token, req[h].target)
       /\ req[h].at = "write" =>
            /\ strays \subseteq {Cleaner(req[h])}
            /\ TokenElsewhere(req[h].token, req[h].target) => strays # {}

DeviceInv ==
  /\ DeviceTypes
  /\ load.alone => InstsApart
  /\ load.alone /\ AllNamed => TokensApart

LEMMA DevicesAtStart == ASSUME Devices!Constants, Devices!Init PROVE DeviceInv
  <1>1. Devices!Idle \in DeviceRequest /\ Devices!Idle.at = "idle"
    BY DEF Devices!Idle, DeviceRequest
  <1>2. DeviceTypes /\ strays = {} /\ Devices!Stored = {} /\ \A h \in Slots : req[h] = Devices!Idle
    BY <1>1 DEF Devices!Init, DeviceTypes, Devices!Stored
  <1> QED
    BY <1>1, <1>2 DEF DeviceInv, InstsApart, TokensApart

\* What is stored has the shape of a row, and idle requests are those that do nothing.
LEMMA DeviceFacts ==
  ASSUME Devices!Constants, DeviceTypes
  PROVE  /\ Devices!Stored \subseteq DeviceIds /\ None \notin Devices!Stored
         /\ \A x \in DeviceIds : x \in Devices!Stored <=> rows[x] \in Devices!Row
         /\ \A x \in Devices!Stored : rows[x].inst \in Insts \cup {None} /\ rows[x].token \in DeviceTokens \cup {None}
         /\ Devices!Idle \in DeviceRequest /\ Devices!Idle.at = "idle"
  <1>1. Devices!Stored \subseteq DeviceIds /\ None \notin Devices!Stored
    BY DEF Devices!Stored, Devices!Constants
  <1>3. \A x \in DeviceIds : x \in Devices!Stored <=> rows[x] \in Devices!Row
    BY DEF Devices!Stored, Devices!Constants, DeviceTypes
  <1> QED
    BY <1>1, <1>3 DEF Devices!Row, Devices!Idle, DeviceRequest

\* Rows that go, or lose their token, are no more in anybody's way.
LEMMA FewerElsewhere ==
  ASSUME NEW i, NEW x,
         \A y \in Devices!Stored' : y \in Devices!Stored /\ rows'[y].inst = rows[y].inst
                                    /\ rows'[y].token \in {rows[y].token, None}
  PROVE  /\ InstElsewhere(i, x)' => InstElsewhere(i, x)
         /\ TokenElsewhere(i, x)' => TokenElsewhere(i, x)
  BY DEF InstElsewhere, TokenElsewhere

LEMMA DevicesArrive == ASSUME Devices!Constants, DeviceInv, NEW h \in Slots, Devices!Arrive(h) PROVE DeviceInv'
  <1>1. PICK r \in DeviceRequest :
          /\ req' = [req EXCEPT ![h] = r]
          /\ r.at \in {"find", "write"}
          /\ \E s \in load.shapes : r.inst = s.inst
          /\ r.at = "write" => r.inst = None /\ r.token = None
    <2>1. PICK s \in load.shapes, x \in Devices!Stored \cup {None} :
            LET r == [Devices!Idle EXCEPT !.obj = x, !.inst = s.inst, !.token = s.token, !.header = s.header,
                                          !.typed = s.typed, !.own = s.own]
            IN IF x # None /\ r.token = None /\ Devices!InstOf(r) = None /\ ~ r.typed
               THEN req' = [req EXCEPT ![h] = [r EXCEPT !.at = "write", !.target = x]]
               ELSE req' = [req EXCEPT ![h] = [r EXCEPT !.at = "find"]]
      BY DEF Devices!Arrive, Devices!Go
    <2> DEFINE r == [Devices!Idle EXCEPT !.obj = x, !.inst = s.inst, !.token = s.token, !.header = s.header,
                                         !.typed = s.typed, !.own = s.own]
    <2>2. s \in Devices!Shape /\ x \in DeviceIds \cup {None}
      BY DeviceFacts DEF DeviceInv, DeviceTypes, Devices!Constants
    <2>3. r \in DeviceRequest /\ r.inst = s.inst /\ r.token = s.token
      BY <2>2 DEF DeviceRequest, Devices!Idle, Devices!Shape
    <2>4. Devices!InstOf(r) = None => r.inst = None
      BY DEF Devices!InstOf
    <2> HIDE DEF r
    <2>5. [r EXCEPT !.at = "write", !.target = x] \in DeviceRequest /\ [r EXCEPT !.at = "find"] \in DeviceRequest
      BY <2>2, <2>3 DEF DeviceRequest
    <2>6. CASE r.token = None /\ Devices!InstOf(r) = None /\ req' = [req EXCEPT ![h] = [r EXCEPT !.at = "write", !.target = x]]
      BY <2>3, <2>4, <2>5, <2>6 DEF DeviceRequest
    <2>7. CASE req' = [req EXCEPT ![h] = [r EXCEPT !.at = "find"]]
      BY <2>3, <2>5, <2>7 DEF DeviceRequest
    <2> QED
      BY <2>1, <2>6, <2>7 DEF r
  <1>2. UNCHANGED <<load, rows, strays>> /\ req[h] = Devices!Idle
    BY DEF Devices!Arrive
  <1>3. DeviceTypes' /\ req'[h] = r /\ \A k \in Slots \ {h} : req'[k] = req[k]
    BY <1>1, <1>2 DEF DeviceInv, DeviceTypes
  <1>4. load.alone => strays = {} /\ \A k \in Slots : req[k] = Devices!Idle
    BY DEF Devices!Arrive, Devices!AtRest
  <1>5. Devices!Idle.at = "idle"
    BY DEF Devices!Idle
  <1>6. load.alone => InstsApart'
    BY <1>1, <1>2, <1>3, <1>4, <1>5 DEF DeviceInv, InstsApart, InstElsewhere, Devices!Stored
  <1>7. load.alone /\ AllNamed => TokensApart'
    BY <1>1, <1>2, <1>3, <1>4, <1>5 DEF DeviceInv, AllNamed, TokensApart, TokenElsewhere, Devices!Stored
  <1> QED
    BY <1>2, <1>3, <1>6, <1>7 DEF DeviceInv, AllNamed

\* What the query finds.
LEMMA DeviceMatches ==
  ASSUME Devices!Constants, DeviceTypes, NEW r \in DeviceRequest
  PROVE  /\ r.inst # None => Devices!InstMatches(r) = {x \in Devices!Stored : rows[x].inst = r.inst}
         /\ Devices!InstMatches(r) \subseteq Devices!Stored
         /\ r.token # None => Devices!TokenMatches(r) = {x \in Devices!Stored : rows[x].token = r.token}
         /\ Devices!Alone(r) => /\ Devices!OnlyMatch(r) \in Devices!Stored
                               /\ ~ TokenElsewhere(r.token, Devices!OnlyMatch(r))
  <1>1. r.inst # None => Devices!InstMatches(r) = {x \in Devices!Stored : rows[x].inst = r.inst}
    BY DEF Devices!InstMatches, Devices!InstOf, Devices!Results
  <1>2. Devices!InstMatches(r) \subseteq Devices!Stored /\ Devices!TokenMatches(r) \subseteq Devices!Stored
    BY DEF Devices!InstMatches, Devices!TokenMatches, Devices!Results
  <1>3. r.token # None => Devices!TokenMatches(r) = {x \in Devices!Stored : rows[x].token = r.token}
    BY DEF Devices!TokenMatches, Devices!Results
  <1>4. Devices!Alone(r) => Devices!TokenMatches(r) = {Devices!OnlyMatch(r)}
    BY DEF Devices!Alone, Devices!OnlyMatch
  <1> QED
    BY <1>1, <1>2, <1>3, <1>4 DEF TokenElsewhere

\* The row a request is for: nobody else has the installationId, and if there is none, nobody.
LEMMA DeviceFound ==
  ASSUME Devices!Constants, DeviceTypes, InstsApart, NEW r \in DeviceRequest, ~ Devices!Refused(r),
         NEW id \in Devices!IdMatches(r)
  PROVE  /\ id # None => id \in Devices!Stored
         /\ ~ InstElsewhere(r.inst, id)
         /\ id = None => \A x : ~ InstElsewhere(r.inst, x)
  <1>1. CASE Devices!InstMatches(r) = {}
    <2>1. id = r.obj /\ (id # None => id \in Devices!Stored)
      BY <1>1 DEF Devices!IdMatches, Devices!Refused
    <2>2. \A x : ~ InstElsewhere(r.inst, x)
      BY <1>1, DeviceMatches DEF InstElsewhere
    <2> QED
      BY <2>1, <2>2
  <1>2. CASE Devices!InstMatches(r) # {}
    <2>1. id \in Devices!InstMatches(r) /\ id \in Devices!Stored /\ id # None
      BY <1>2, DeviceMatches, DeviceFacts DEF Devices!IdMatches
    <2>2. ~ InstElsewhere(rows[id].inst, id)
      BY <2>1 DEF InstsApart
    <2>3. r.inst # None => rows[id].inst = r.inst
      BY <2>1, DeviceMatches
    <2> QED
      BY <2>1, <2>2, <2>3 DEF InstElsewhere
  <1> QED
    BY <1>1, <1>2

\* The rows with its token that a request leaves to others, it has deleted.
LEMMA DeviceCleaned ==
  ASSUME Devices!Constants, DeviceTypes, strays = {}, TokensApart, NEW r \in DeviceRequest, r.inst # None,
         NEW id \in Devices!Stored \cup {None}
  PROVE  /\ Devices!Cleaning(r, id) \subseteq {Cleaner(r)}
         /\ TokenElsewhere(r.token, id) => Devices!Cleaning(r, id) # {}
  <1>1. Devices!InstOf(r) = r.inst
    BY DEF Devices!InstOf
  <1>2. Devices!Cleaning(r, id) \subseteq {Cleaner(r)}
    BY <1>1 DEF Devices!Cleaning, Cleaner
  <1>3. ASSUME TokenElsewhere(r.token, id) PROVE Devices!Cleaning(r, id) # {}
    <2>1. r.token # None /\ Devices!TokenMatches(r) # {}
      BY <1>3, DeviceMatches DEF TokenElsewhere
    <2>2. id # None => rows[id].token # r.token
      BY <1>3 DEF TokensApart
    <2> QED
      BY <2>1, <2>2 DEF Devices!Cleaning
  <1> QED
    BY <1>2, <1>3

LEMMA DevicesHandle ==
  ASSUME Devices!Constants, DeviceInv, NEW h \in Slots, Devices!HandleInstallation(h)
  PROVE  DeviceInv'
  <1>1. PICK r : r = req[h]
    OBVIOUS
  <1>2. r \in DeviceRequest /\ r.at = "find" /\ r # Devices!Idle
    <2>1. req[h].at = "find"
      BY Zenon DEF Devices!HandleInstallation
    <2> QED
      BY <1>1, <2>1, DeviceFacts DEF DeviceInv, DeviceTypes
  <1>3. UNCHANGED <<load, rows>>
    BY Zenon DEF Devices!HandleInstallation, Devices!Unwritten
  <1>4. load.alone => InstsApart /\ strays = {} /\ \A k \in Slots \ {h} : req[k] = Devices!Idle /\ req[k].at = "idle"
    BY <1>1, <1>2, DeviceFacts DEF DeviceInv, InstsApart
  <1>5. load.alone /\ AllNamed => TokensApart /\ r.inst # None
    BY <1>1, <1>2 DEF DeviceInv, TokensApart
  <1>6. Devices!Stored' = Devices!Stored /\ AllNamed' = AllNamed
        /\ \A i, x : InstElsewhere(i, x)' = InstElsewhere(i, x) /\ TokenElsewhere(i, x)' = TokenElsewhere(i, x)
    BY <1>3 DEF Devices!Stored, AllNamed, InstElsewhere, TokenElsewhere
  <1>7. SUFFICES ASSUME NEW n \in DeviceRequest,
                        /\ req' = [req EXCEPT ![h] = n] /\ strays' \subseteq Stray
                        /\ n.at = "idle" => n = Devices!Idle
                        /\ n.inst \in {r.inst, None} /\ (n.inst = r.inst \/ n = Devices!Idle),
                        load.alone => /\ n.at # "find" /\ (n.at = "merge" => strays' = {})
                                      /\ n.at = "merge" => n.drop \in Devices!Stored /\ ~ InstElsewhere(n.inst, n.drop)
                                      /\ n.at = "write" => ~ InstElsewhere(n.inst, n.target),
                        load.alone /\ AllNamed =>
                          /\ n.at = "idle" => strays' = {}
                          /\ n.at = "merge" => ~ TokenElsewhere(n.token, n.target)
                          /\ strays' \subseteq {Cleaner(n)}
                          /\ n.at = "write" => (TokenElsewhere(n.token, n.target) => strays' # {})
                 PROVE  DeviceInv'
    <2>1. CASE Devices!Refused(r) /\ Devices!End(h) /\ UNCHANGED strays
      <3>1. req' = [req EXCEPT ![h] = Devices!Idle] /\ strays' \subseteq Stray
        BY <2>1 DEF Devices!End, Devices!Go, DeviceInv, DeviceTypes
      <3> QED
        BY <1>4, <1>5, <1>7, <2>1, <3>1, DeviceFacts DEF Devices!Idle, DeviceInv
    <2>2. ASSUME ~ Devices!Refused(r), NEW id \in Devices!IdMatches(r), id = None, Devices!Reused(r),
                 Devices!Go(h, [r EXCEPT !.at = "write", !.target = Devices!OnlyMatch(r)]), UNCHANGED strays
          PROVE  DeviceInv'
      <3> DEFINE n == [r EXCEPT !.at = "write", !.target = Devices!OnlyMatch(r)]
      <3>1. Devices!OnlyMatch(r) \in DeviceIds /\ ~ TokenElsewhere(r.token, Devices!OnlyMatch(r))
        BY <1>2, <2>2, DeviceMatches, DeviceFacts DEF Devices!Reused, DeviceInv
      <3>2. n \in DeviceRequest /\ n.at = "write" /\ n.inst = r.inst /\ n.token = r.token
            /\ n.target = Devices!OnlyMatch(r)
        BY <1>2, <3>1 DEF DeviceRequest
      <3>3. load.alone => ~ InstElsewhere(r.inst, Devices!OnlyMatch(r))
        BY <1>2, <1>4, <2>2, DeviceFound DEF DeviceInv
      <3>4. req' = [req EXCEPT ![h] = n] /\ strays' \subseteq Stray
        BY <2>2 DEF Devices!Go, DeviceInv, DeviceTypes
      <3> HIDE DEF n
      <3> QED
        BY <1>4, <1>7, <2>2, <3>1, <3>2, <3>3, <3>4
    <2>3. ASSUME ~ Devices!Refused(r), NEW id \in Devices!IdMatches(r), id # None, Devices!Merges(r),
                 Devices!Go(h, [r EXCEPT !.at = "merge", !.drop = id, !.target = Devices!OnlyMatch(r)]), UNCHANGED strays
          PROVE  DeviceInv'
      <3> DEFINE n == [r EXCEPT !.at = "merge", !.drop = id, !.target = Devices!OnlyMatch(r)]
      <3>1. Devices!OnlyMatch(r) \in DeviceIds /\ ~ TokenElsewhere(r.token, Devices!OnlyMatch(r))
        BY <1>2, <2>3, DeviceMatches, DeviceFacts DEF Devices!Merges, DeviceInv
      <3>2. id \in DeviceIds
        BY <1>2, <2>3, DeviceMatches, DeviceFacts DEF Devices!IdMatches, DeviceInv, DeviceRequest
      <3>3. n \in DeviceRequest /\ n.at = "merge" /\ n.inst = r.inst /\ n.token = r.token
            /\ n.drop = id /\ n.target = Devices!OnlyMatch(r)
        BY <1>2, <3>1, <3>2 DEF DeviceRequest
      <3>4. load.alone => id \in Devices!Stored /\ ~ InstElsewhere(r.inst, id)
        BY <1>2, <1>4, <2>3, DeviceFound DEF DeviceInv
      <3>5. req' = [req EXCEPT ![h] = n] /\ strays' \subseteq Stray
        BY <2>3 DEF Devices!Go, DeviceInv, DeviceTypes
      <3> HIDE DEF n
      <3> QED
        BY <1>4, <1>7, <2>3, <3>1, <3>3, <3>4, <3>5
    <2>4. ASSUME ~ Devices!Refused(r), NEW id \in Devices!IdMatches(r),
                 Devices!Go(h, [r EXCEPT !.at = "write", !.target = id]),
                 strays' = strays \cup Devices!Cleaning(r, id)
          PROVE  DeviceInv'
      <3> DEFINE n == [r EXCEPT !.at = "write", !.target = id]
      <3>1. id \in DeviceIds \cup {None}
        BY <1>2, <2>4, DeviceMatches, DeviceFacts DEF Devices!IdMatches, DeviceInv, DeviceRequest
      <3>2. n \in DeviceRequest /\ n.at = "write" /\ n.inst = r.inst /\ n.token = r.token /\ n.target = id
        BY <1>2, <3>1 DEF DeviceRequest
      <3>3. load.alone => id \in Devices!Stored \cup {None} /\ ~ InstElsewhere(r.inst, id)
        BY <1>2, <1>4, <2>4, DeviceFound DEF DeviceInv
      <3>4. Devices!Cleaning(r, id) \subseteq Stray
        BY <1>2, <3>1 DEF Devices!Cleaning, Stray, DeviceRequest, Devices!InstOf
      <3>5. req' = [req EXCEPT ![h] = n] /\ strays' \subseteq Stray
        BY <2>4, <3>4 DEF Devices!Go, DeviceInv, DeviceTypes
      <3>6. load.alone /\ AllNamed =>
              /\ strays' \subseteq {Cleaner(n)}
              /\ TokenElsewhere(n.token, n.target) => strays' # {}
        <4>1. load.alone /\ AllNamed =>
                /\ Devices!Cleaning(r, id) \subseteq {Cleaner(r)}
                /\ TokenElsewhere(r.token, id) => Devices!Cleaning(r, id) # {}
          BY <1>2, <1>4, <1>5, <3>3, DeviceCleaned DEF DeviceInv
        <4>2. Cleaner(n) = Cleaner(r)
          BY <3>2 DEF Cleaner
        <4> QED
          BY <1>4, <2>4, <3>2, <4>1, <4>2
      <3> HIDE DEF n
      <3> QED
        BY <1>7, <3>2, <3>3, <3>5, <3>6
    <2> QED
      BY <1>1, <2>1, <2>2, <2>3, <2>4, ZenonT(60) DEF Devices!HandleInstallation
  <1>8. DeviceTypes' /\ req'[h] = n /\ \A k \in Slots \ {h} : req'[k] = req[k]
    BY <1>3, <1>7 DEF DeviceInv, DeviceTypes
  <1>9. load.alone => InstsApart'
    BY <1>3, <1>4, <1>6, <1>7, <1>8 DEF InstsApart
  <1>10. load.alone /\ AllNamed => TokensApart'
    <2> SUFFICES ASSUME load.alone, AllNamed PROVE TokensApart'
      OBVIOUS
    <2>1. TokensApart /\ strays = {} /\ \A k \in Slots \ {h} : req'[k] = Devices!Idle /\ req'[k].at = "idle"
      BY <1>4, <1>5, <1>8
    <2>2. \A q \in strays' : q = Cleaner(n) /\ q.inst # None /\ q.id = None
      BY <1>5, <1>7, DeviceFacts DEF Cleaner, DeviceInv
    <2>3. \A x \in Devices!Stored' : TokenElsewhere(rows[x].token, x)' => FALSE
      BY <1>3, <1>6, <2>1 DEF TokensApart
    <2>4. \A k \in Slots :
            /\ req'[k] # Devices!Idle => req'[k].inst # None
            /\ req'[k].at = "merge" => ~ TokenElsewhere(req[k].token, req[k].target)'
            /\ req'[k].at = "write" => /\ strays' \subseteq {Cleaner(req[k])'}
                                       /\ TokenElsewhere(req[k].token, req[k].target)' => strays' # {}
      <3> SUFFICES ASSUME NEW k \in Slots
                   PROVE  /\ req'[k] # Devices!Idle => req'[k].inst # None
                          /\ req'[k].at = "merge" => ~ TokenElsewhere(req[k].token, req[k].target)'
                          /\ req'[k].at = "write" => /\ strays' \subseteq {Cleaner(req[k])'}
                                                     /\ TokenElsewhere(req[k].token, req[k].target)' => strays' # {}
        OBVIOUS
      <3>1. CASE k # h
        BY <2>1, <3>1
      <3>2. CASE k = h
        <4>1. req'[k] = n
          BY <1>8, <3>2
        <4>2. TokenElsewhere(req[k].token, req[k].target)' <=> TokenElsewhere(n.token, n.target)
          BY <1>3, <1>6, <4>1 DEF TokenElsewhere
        <4> QED
          BY <1>5, <1>7, <4>1, <4>2 DEF Cleaner
      <3> QED
        BY <3>1, <3>2
    <2> QED
      <3>1. (\A k \in Slots : req[k] # Devices!Idle => req[k].inst # None)'
        BY <2>4
      <3>2. (\A q \in strays : q.inst # None /\ q.id = None)' /\ (\A q, p \in strays : q = p)'
        BY <2>2
      <3>3. (\A x \in Devices!Stored : TokenElsewhere(rows[x].token, x) => \E q \in strays : q.token = rows[x].token)'
        BY <2>3
      <3>4. (\A k \in Slots :
               /\ req[k].at = "merge" => ~ TokenElsewhere(req[k].token, req[k].target)
               /\ req[k].at = "write" => /\ strays \subseteq {Cleaner(req[k])}
                                         /\ TokenElsewhere(req[k].token, req[k].target) => strays # {})'
        BY <2>4
      <3> QED
        BY <3>1, <3>2, <3>3, <3>4 DEF TokensApart
  <1> QED
    BY <1>3, <1>6, <1>8, <1>9, <1>10 DEF DeviceInv

LEMMA DevicesMerge == ASSUME Devices!Constants, DeviceInv, NEW h \in Slots, Devices!Merge(h) PROVE DeviceInv'
  <1>1. PICK r : r = req[h]
    OBVIOUS
  <1>2. r \in DeviceRequest /\ r.at = "merge" /\ r # Devices!Idle
    BY <1>1, DeviceFacts DEF Devices!Merge, DeviceInv, DeviceTypes
  <1>3. PICK n : n = [r EXCEPT !.at = "write", !.target = IF r.drop \in Devices!Stored THEN @ ELSE r.obj]
    OBVIOUS
  <1>4. /\ n \in DeviceRequest /\ n.at = "write" /\ n.inst = r.inst /\ n.token = r.token
        /\ r.drop \in Devices!Stored => n.target = r.target
    BY <1>2, <1>3 DEF DeviceRequest
  <1>5. UNCHANGED <<load, strays>> /\ rows' = [rows EXCEPT ![r.drop] = None] /\ req' = [req EXCEPT ![h] = n]
    BY <1>1, <1>3 DEF Devices!Merge, Devices!Go
  <1>6. DeviceTypes' /\ req'[h] = n /\ \A k \in Slots \ {h} : req'[k] = req[k]
    BY <1>4, <1>5 DEF DeviceInv, DeviceTypes
  <1>7. /\ Devices!Stored' = Devices!Stored \ {r.drop}
        /\ \A y \in Devices!Stored' : rows'[y] = rows[y]
    BY <1>5 DEF Devices!Stored, DeviceInv, DeviceTypes
  <1>8. /\ \A i, x : InstElsewhere(i, x)' => InstElsewhere(i, x)
        /\ \A i, x : TokenElsewhere(i, x)' => TokenElsewhere(i, x)
    BY <1>7, FewerElsewhere
  <1>9. load.alone => InstsApart /\ strays = {} /\ \A k \in Slots \ {h} : req[k] = Devices!Idle /\ req[k].at = "idle"
    BY <1>1, <1>2, DeviceFacts DEF DeviceInv, InstsApart
  <1>10. load.alone => ~ InstElsewhere(n.inst, n.target)'
    BY <1>1, <1>2, <1>4, <1>7, <1>9 DEF InstsApart, InstElsewhere
  <1>11. load.alone => InstsApart'
    <2> SUFFICES ASSUME load.alone PROVE InstsApart'
      OBVIOUS
    <2>1. (\A x \in Devices!Stored : ~ InstElsewhere(rows[x].inst, x))'
      BY <1>7, <1>9 DEF InstsApart, InstElsewhere
    <2>2. (\A k \in Slots : k = h => ~ InstElsewhere(req[k].inst, req[k].target))'
      BY <1>6, <1>10 DEF InstElsewhere
    <2> QED
      BY <1>4, <1>6, <1>9, <2>1, <2>2 DEF InstsApart
  <1>12. load.alone /\ AllNamed => TokensApart'
    <2> SUFFICES ASSUME load.alone, AllNamed PROVE TokensApart'
      OBVIOUS
    <2>1. TokensApart /\ strays = {} /\ r.inst # None /\ ~ TokenElsewhere(r.token, r.target)
      BY <1>1, <1>2, <1>9 DEF DeviceInv, TokensApart
    <2>2. (\A x \in Devices!Stored : ~ TokenElsewhere(rows[x].token, x))'
      BY <1>7, <2>1 DEF TokensApart, TokenElsewhere
    <2>3. ~ TokenElsewhere(n.token, n.target)'
      BY <1>1, <1>2, <1>4, <1>8, <1>9, <2>1 DEF InstsApart
    <2>4. (\A k \in Slots : k = h => ~ TokenElsewhere(req[k].token, req[k].target))'
      BY <1>6, <2>3 DEF TokenElsewhere
    <2> QED
      BY <1>4, <1>5, <1>6, <1>9, <2>1, <2>2, <2>4 DEF TokensApart
  <1> QED
    BY <1>5, <1>6, <1>11, <1>12 DEF DeviceInv, AllNamed

LEMMA DevicesWrite == ASSUME Devices!Constants, DeviceInv, NEW h \in Slots, Devices!Write(h) PROVE DeviceInv'
  <1>1. PICK r : r = req[h]
    OBVIOUS
  <1>2. r \in DeviceRequest /\ r.at = "write" /\ r # Devices!Idle
    BY <1>1, DeviceFacts DEF Devices!Write, DeviceInv, DeviceTypes
  <1>3. UNCHANGED <<load, strays>> /\ req' = [req EXCEPT ![h] = Devices!Idle]
    BY DEF Devices!Write, Devices!End, Devices!Go
  <1>4. \/ UNCHANGED rows
        \/ \E w \in DeviceIds, new \in Devices!Row :
             /\ rows' = [rows EXCEPT ![w] = new]
             /\ (r.target = None /\ w \notin Devices!Stored) \/ (w = r.target /\ w \in Devices!Stored)
             /\ new.inst = r.inst \/ (r.inst = None /\ w \in Devices!Stored /\ new.inst = rows[w].inst)
             /\ new.token = r.token \/ (r.token = None /\ w \in Devices!Stored /\ new.token = rows[w].token)
    <2>1. CASE r.target = None
      <3> DEFINE new == [inst |-> r.inst, token |-> r.token]
      <3>1. PICK w \in DeviceIds \ Devices!Stored : rows' = [rows EXCEPT ![w] = new]
        BY <1>1, <2>1 DEF Devices!Write
      <3>2. new \in Devices!Row /\ new.inst = r.inst /\ new.token = r.token
        BY <1>2 DEF Devices!Row, DeviceRequest
      <3> HIDE DEF new
      <3> QED
        BY <2>1, <3>1, <3>2
    <2>2. CASE r.target # None /\ r.target \in Devices!Stored
      <3> DEFINE old == rows[r.target]
                 new == [inst |-> Devices!Given(r.inst, old.inst), token |-> Devices!Given(r.token, old.token)]
      <3>1. rows' = [rows EXCEPT ![r.target] = new]
        BY <1>1, <2>2 DEF Devices!Write
      <3>2. r.target \in DeviceIds /\ new \in Devices!Row
        BY <1>2, <2>2, DeviceFacts DEF DeviceInv, Devices!Row, DeviceRequest, Devices!Given
      <3>3. /\ new.inst = r.inst \/ (r.inst = None /\ new.inst = rows[r.target].inst)
            /\ new.token = r.token \/ (r.token = None /\ new.token = rows[r.target].token)
        BY DEF Devices!Given
      <3> HIDE DEF new
      <3> QED
        BY <2>2, <3>1, <3>2, <3>3
    <2>3. CASE r.target # None /\ r.target \notin Devices!Stored
      BY <1>1, <2>3 DEF Devices!Write
    <2> QED
      BY <2>1, <2>2, <2>3
  <1>5. DeviceTypes' /\ req'[h] = Devices!Idle /\ \A k \in Slots \ {h} : req'[k] = req[k]
    BY <1>3, <1>4, DeviceFacts DEF DeviceInv, DeviceTypes
  <1>6. load.alone => /\ InstsApart /\ ~ InstElsewhere(r.inst, r.target)
                      /\ \A k \in Slots : req'[k] = Devices!Idle /\ req'[k].at = "idle"
    BY <1>1, <1>2, <1>5, DeviceFacts DEF DeviceInv, InstsApart
  <1>7. load.alone => (\A x \in Devices!Stored : ~ InstElsewhere(rows[x].inst, x))'
    <2> SUFFICES ASSUME load.alone, NEW x \in Devices!Stored', NEW y \in Devices!Stored', x # y,
                        rows'[x].inst # None, rows'[x].inst = rows'[y].inst
                 PROVE  FALSE
      BY DEF InstElsewhere
    <2>1. CASE UNCHANGED rows
      BY <1>6, <2>1 DEF InstsApart, InstElsewhere, Devices!Stored
    <2>2. ASSUME NEW w \in DeviceIds, NEW new \in Devices!Row,
                 /\ rows' = [rows EXCEPT ![w] = new]
                 /\ (r.target = None /\ w \notin Devices!Stored) \/ (w = r.target /\ w \in Devices!Stored)
                 /\ new.inst = r.inst \/ (r.inst = None /\ w \in Devices!Stored /\ new.inst = rows[w].inst)
          PROVE  FALSE
      <3>1. \A z \in Devices!Stored' \ {w} : z \in Devices!Stored /\ rows'[z] = rows[z]
        BY <2>2 DEF Devices!Stored, DeviceInv, DeviceTypes
      <3>2. rows'[w] = new
        BY <2>2 DEF DeviceInv, DeviceTypes
      <3>3. None \notin Devices!Stored
        BY DeviceFacts DEF DeviceInv
      <3>4. \A z \in Devices!Stored \ {w} : new.inst # None => rows[z].inst # new.inst
        BY <1>6, <2>2, <3>3 DEF InstsApart, InstElsewhere
      <3>5. CASE x # w /\ y # w
        BY <1>6, <3>1, <3>5 DEF InstsApart, InstElsewhere
      <3>6. CASE x = w \/ y = w
        BY <3>1, <3>2, <3>4, <3>6
      <3> QED
        BY <3>5, <3>6
    <2> QED
      BY <1>4, <2>1, <2>2
  <1>8. load.alone => InstsApart'
    BY <1>3, <1>6, <1>7 DEF InstsApart
  <1>9. load.alone /\ AllNamed => TokensApart'
    <2> SUFFICES ASSUME load.alone, AllNamed PROVE TokensApart'
      OBVIOUS
    <2>1. /\ TokensApart /\ strays \subseteq {Cleaner(r)}
          /\ TokenElsewhere(r.token, r.target) => strays # {}
      BY <1>1, <1>2 DEF DeviceInv, TokensApart
    <2>2. (\A x \in Devices!Stored : TokenElsewhere(rows[x].token, x) => \E q \in strays : q.token = rows[x].token)'
      <3> SUFFICES ASSUME NEW x \in Devices!Stored', NEW y \in Devices!Stored', x # y,
                          rows'[x].token # None, rows'[x].token = rows'[y].token
                   PROVE  \E q \in strays : q.token = rows'[x].token
        BY <1>3 DEF TokenElsewhere
      <3>1. CASE UNCHANGED rows
        BY <2>1, <3>1 DEF TokensApart, TokenElsewhere, Devices!Stored
      <3>2. ASSUME NEW w \in DeviceIds, NEW new \in Devices!Row,
                   /\ rows' = [rows EXCEPT ![w] = new]
                   /\ (r.target = None /\ w \notin Devices!Stored) \/ (w = r.target /\ w \in Devices!Stored)
                   /\ new.token = r.token \/ (r.token = None /\ w \in Devices!Stored /\ new.token = rows[w].token)
            PROVE  \E q \in strays : q.token = rows'[x].token
        <4>1. \A z \in Devices!Stored' \ {w} : z \in Devices!Stored /\ rows'[z] = rows[z]
          BY <3>2 DEF Devices!Stored, DeviceInv, DeviceTypes
        <4>2. rows'[w] = new
          BY <3>2 DEF DeviceInv, DeviceTypes
        <4>3. None \notin Devices!Stored
          BY DeviceFacts DEF DeviceInv
        <4>4. ASSUME NEW z \in Devices!Stored \ {w}, new.token # None, rows[z].token = new.token
              PROVE  \E q \in strays : q.token = new.token
          <5>1. CASE new.token = r.token
            BY <2>1, <3>2, <4>3, <4>4, <5>1 DEF TokenElsewhere, Cleaner
          <5>2. CASE w \in Devices!Stored /\ new.token = rows[w].token
            BY <2>1, <4>4, <5>2 DEF TokensApart, TokenElsewhere
          <5> QED
            BY <3>2, <5>1, <5>2
        <4>5. CASE x # w /\ y # w
          BY <2>1, <4>1, <4>5 DEF TokensApart, TokenElsewhere
        <4>6. CASE x = w \/ y = w
          BY <4>1, <4>2, <4>4, <4>6
        <4> QED
          BY <4>5, <4>6
      <3> QED
        BY <1>4, <3>1, <3>2
    <2> QED
      BY <1>3, <1>6, <2>1, <2>2 DEF TokensApart
  <1> QED
    BY <1>3, <1>5, <1>8, <1>9 DEF DeviceInv, AllNamed

LEMMA DevicesDelete == ASSUME Devices!Constants, DeviceInv, NEW q \in strays, Devices!Delete(q) PROVE DeviceInv'
  <1>1. /\ rows' = [x \in DeviceIds |-> IF x \in Devices!Stored /\ Devices!Struck(q, x) THEN None ELSE rows[x]]
        /\ strays' = strays \ {q} /\ UNCHANGED <<load, req>>
    BY DEF Devices!Delete
  <1>2. DeviceTypes'
    BY <1>1 DEF DeviceInv, DeviceTypes
  <1>3. \A y \in Devices!Stored' : y \in Devices!Stored /\ ~ Devices!Struck(q, y) /\ rows'[y] = rows[y]
    BY <1>1 DEF Devices!Stored
  <1>4. /\ \A i, x : InstElsewhere(i, x)' => InstElsewhere(i, x)
        /\ \A i, x : TokenElsewhere(i, x)' => TokenElsewhere(i, x)
    BY <1>3, FewerElsewhere
  <1>5. load.alone => InstsApart'
    <2> SUFFICES ASSUME load.alone PROVE InstsApart'
      OBVIOUS
    <2>1. InstsApart
      BY DEF DeviceInv
    <2>2. (\A x \in Devices!Stored : ~ InstElsewhere(rows[x].inst, x))'
      BY <1>3, <2>1 DEF InstsApart, InstElsewhere
    <2>3. (\A h \in Slots : req[h].at = "write" => ~ InstElsewhere(req[h].inst, req[h].target))'
      BY <1>1, <1>3, <2>1 DEF InstsApart, InstElsewhere
    <2> QED
      BY <1>1, <2>1, <2>2, <2>3 DEF InstsApart
  <1>6. load.alone /\ AllNamed => TokensApart'
    <2> SUFFICES ASSUME load.alone, AllNamed PROVE TokensApart'
      OBVIOUS
    <2>1. InstsApart /\ TokensApart /\ strays' = {} /\ q.inst # None /\ q.id = None
      BY <1>1 DEF DeviceInv, TokensApart
    <2>2. None \notin Devices!Stored
      BY DeviceFacts DEF DeviceInv
    <2>3. \A y \in Devices!Stored' : rows[y].token = q.token => rows[y].inst = q.inst
      BY <1>3, <2>1, <2>2 DEF Devices!Struck
    <2>4. (\A x \in Devices!Stored : ~ TokenElsewhere(rows[x].token, x))'
      <3> SUFFICES ASSUME NEW x \in Devices!Stored', NEW y \in Devices!Stored', x # y,
                          rows[x].token # None, rows[x].token = rows[y].token
                   PROVE  FALSE
        BY <1>3 DEF TokenElsewhere
      <3>1. rows[x].token = q.token
        BY <1>3, <2>1 DEF TokensApart, TokenElsewhere
      <3>2. rows[x].inst = q.inst /\ rows[y].inst = q.inst
        BY <2>3, <3>1
      <3> QED
        BY <1>3, <2>1, <3>2 DEF InstsApart, InstElsewhere
    <2>5. ASSUME NEW h \in Slots, req[h].at = "write" PROVE ~ TokenElsewhere(req[h].token, req[h].target)'
      <3>1. q.token = req[h].token /\ q.inst = req[h].inst /\ ~ InstElsewhere(req[h].inst, req[h].target)
        BY <2>1, <2>5 DEF InstsApart, TokensApart, Cleaner
      <3> QED
        BY <1>1, <1>3, <2>1, <2>3, <3>1 DEF TokenElsewhere, InstElsewhere
    <2>6. \A h \in Slots : req[h].at # "merge"
      BY <2>1 DEF InstsApart
    <2> QED
      BY <1>1, <2>1, <2>4, <2>5, <2>6 DEF TokensApart
  <1> QED
    BY <1>1, <1>2, <1>5, <1>6 DEF DeviceInv, AllNamed

LEMMA DevicesDropToken ==
  ASSUME Devices!Constants, DeviceInv, NEW x \in DeviceIds, Devices!DropToken(x)
  PROVE  DeviceInv'
  <1>1. rows' = [rows EXCEPT ![x].token = None] /\ UNCHANGED <<load, req, strays>> /\ x \in Devices!Stored
    BY DEF Devices!DropToken
  <1>2. strays = {} /\ \A h \in Slots : req[h] = Devices!Idle /\ req[h].at = "idle"
    BY DeviceFacts DEF Devices!DropToken, Devices!AtRest, DeviceInv
  <1>3. [rows[x] EXCEPT !.token = None] \in Devices!Row
        /\ [rows[x] EXCEPT !.token = None].inst = rows[x].inst /\ [rows[x] EXCEPT !.token = None].token = None
    BY <1>1, DeviceFacts DEF Devices!Row, DeviceInv
  <1>4. DeviceTypes'
    BY <1>1, <1>3 DEF DeviceInv, DeviceTypes
  <1>5. \A y \in Devices!Stored' : y \in Devices!Stored /\ rows'[y].inst = rows[y].inst
                                   /\ rows'[y].token \in {rows[y].token, None}
    BY <1>1, <1>3 DEF Devices!Stored, DeviceInv, DeviceTypes
  <1>6. load.alone => InstsApart'
    BY <1>1, <1>2, <1>5 DEF DeviceInv, InstsApart, InstElsewhere
  <1>7. load.alone /\ AllNamed => TokensApart'
    BY <1>1, <1>2, <1>5 DEF DeviceInv, TokensApart, TokenElsewhere
  <1> QED
    BY <1>1, <1>4, <1>6, <1>7 DEF DeviceInv, AllNamed

\* Requests one at a time leave one row for an installation and, if each names its
\* installation, one for a device token.
THEOREM DevicesAreOne == ASSUME Devices!Constants PROVE Devices!Spec => []OneRowPerDevice
  <1>1. DeviceInv /\ [Devices!Next]_(Devices!vars) => DeviceInv'
    <2>1. DeviceInv /\ UNCHANGED Devices!vars => DeviceInv'
      BY DEF DeviceInv, DeviceTypes, InstsApart, TokensApart, AllNamed, InstElsewhere, TokenElsewhere,
             Devices!Stored, Devices!vars
    <2> QED
      BY <2>1, DevicesArrive, DevicesHandle, DevicesMerge, DevicesWrite, DevicesDelete, DevicesDropToken
         DEF Devices!Next
  <1>2. DeviceInv => OneRowPerDevice
    <2> SUFFICES ASSUME DeviceInv, load.alone, Devices!AtRest
                 PROVE  /\ \A x \in Devices!Stored : ~ InstElsewhere(rows[x].inst, x)
                        /\ AllNamed => \A x \in Devices!Stored : ~ TokenElsewhere(rows[x].token, x)
      BY DEF OneRowPerDevice, Devices!OneRowPerDevice, Devices!Distinct, InstElsewhere, TokenElsewhere, AllNamed
    <2> QED
      BY DEF DeviceInv, InstsApart, TokensApart, Devices!AtRest
  <1> QED
    BY DevicesAtStart, <1>1, <1>2, PTL DEF Devices!Spec

-----------------------------------------------------------------------------
(***************************************************************************)
(* Writes of objects.                                                      *)
(***************************************************************************)
ObjectCall ==
  [op : {"create", "update", "delete"}, id : ObjectIds, sets : SUBSET Fields, tag : Nat,
   at : {"original", "before", "store", "after", "done"},
   original : Objects!Values, result : Objects!Values, failed : BOOLEAN]
Collection == [ObjectIds -> Objects!Values]
ObjectRequest ==
  [st : {"idle", "reserve", "run", "thrown"}, rid : RequestIds \cup {None}, tx : BOOLEAN,
   calls : Seq(ObjectCall), base : Collection \cup {None}, mine : SUBSET ObjectIds,
   own : Collection \cup {None}, dead : BOOLEAN]
ObjectTypes ==
  /\ load \in ObjectLoads /\ rows \in Collection /\ calls \in Nat
  /\ req \in [Slots -> ObjectRequest]
  /\ \A h \in Slots : /\ req[h].st = "idle" => req[h] = Objects!Idle
                      /\ req[h].st = "reserve" => req[h].rid # None
                      /\ req[h].mine # {} => req[h].own \in Collection

\* An id is known exactly when a request with it was let through.
Once ==
  /\ known \subseteq RequestIds /\ executed \in [RequestIds -> Nat]
  /\ \A i \in RequestIds : executed[i] = IF i \in known THEN 1 ELSE 0

\* Every call has a number of its own; those to be undone are of transactions that will not
\* be committed, or of requests that are over.
Lost(q) == q.tx /\ (q.st = "thrown" \/ \E k \in DOMAIN q.calls : q.calls[k].failed)
TagsInOrder ==
  /\ undone \subseteq 1..calls
  /\ \A h \in Slots : Objects!Tags(req[h]) \subseteq 1..calls
  /\ \A g, h \in Slots : g # h => Objects!Tags(req[g]) \cap Objects!Tags(req[h]) = {}
  /\ \A h \in Slots : ~ Lost(req[h]) => Objects!Tags(req[h]) \cap undone = {}

\* A value is clean if it is of no transaction that is under way or that was given up.  The
\* rows, and the snapshots of the transactions, are clean; what a transaction has written is
\* clean or its own.
Clean(v) ==
  v \in 0..calls /\ v \notin undone /\ \A h \in Slots : req[h].tx => v \notin Objects!Tags(req[h])
CleanRow(row) == row # None => \A f \in Fields : Clean(row[f])
KeptBy(q) ==
  /\ q.base # None => \A x \in ObjectIds : CleanRow(q.base[x])
  /\ \A x \in q.mine, f \in Fields : q.own[x] # None => Clean(q.own[x][f]) \/ q.own[x][f] \in Objects!Tags(q)
Kept == (\A x \in ObjectIds : CleanRow(rows[x])) /\ (\A h \in Slots : KeptBy(req[h]))

\* What is published was stored before.
EventsStored ==
  /\ \A h \in Slots : \A k \in DOMAIN req[h].calls : req[h].calls[k].at = "after" => req[h].calls[k].tag \in stored
  /\ \A e \in published \cup pending : e.tag \in stored

\* Calls one by one, without transactions: what a call has read is there until it writes, and
\* what it wrote is what it is going to tell.
OneByOne == load.alone /\ Objects!Single /\ \A s \in load.shapes : ~ s.tx
ReadAsStored(c, there) ==
  Objects!Watched =>
    /\ c.at \in {"before", "store"} => c.original = there[c.id]
    /\ c.at = "after" /\ c.op # "delete" => c.result = Objects!Told(c)
EventsExact ==
  /\ \A g, h \in Slots : req[g] # Objects!Idle /\ req[h] # Objects!Idle => g = h
  /\ \A h \in Slots : ~ req[h].tx /\ DOMAIN req[h].calls \subseteq {1}
  /\ \A h \in Slots : \A k \in DOMAIN req[h].calls : ReadAsStored(req[h].calls[k], rows)
  /\ \A e \in published \cup pending : load.live /\ e.op # "delete" => e.told = e.result
  /\ ~ load.live => published \cup pending = {}

ObjectInv ==
  /\ ObjectTypes /\ Once /\ TagsInOrder /\ Kept /\ EventsStored
  /\ OneByOne => EventsExact

LEMMA ObjectFacts ==
  ASSUME Objects!Constants
  PROVE  /\ Objects!Idle \in ObjectRequest /\ Objects!Idle.st = "idle" /\ Objects!Idle.calls = <<>>
         /\ ~ Objects!Idle.tx /\ Objects!Idle.mine = {} /\ Objects!Idle.base = None
         /\ Objects!Tags(Objects!Idle) = {} /\ ~ Lost(Objects!Idle)
  BY EmptySeq DEF Objects!Idle, Objects!Tags, ObjectRequest, Lost

LEMMA ObjectsAtStart == ASSUME Objects!Constants, Objects!Init PROVE ObjectInv
  <1> USE DEF Objects!Init
  <1>1. \A x \in ObjectIds : rows[x] \in Objects!Values /\ (rows[x] # None => \A f \in Fields : rows[x][f] = 0)
    BY DEF Objects!Values
  <1>2. \A h \in Slots : /\ req[h] = Objects!Idle /\ req[h] \in ObjectRequest /\ req[h].st = "idle"
                        /\ req[h].calls = <<>> /\ ~ req[h].tx /\ req[h].mine = {} /\ req[h].base = None
                        /\ Objects!Tags(req[h]) = {} /\ ~ Lost(req[h])
    BY ObjectFacts
  <1>3. ObjectTypes
    BY <1>1, <1>2, ObjectFacts DEF ObjectTypes, Collection
  <1>4. Once
    BY DEF Once
  <1>5. TagsInOrder
    BY <1>2 DEF TagsInOrder
  <1>6. Kept
    BY <1>1, <1>2 DEF Kept, KeptBy, CleanRow, Clean
  <1>7. EventsStored /\ EventsExact
    BY <1>2 DEF EventsStored, EventsExact
  <1> QED
    BY <1>3, <1>4, <1>5, <1>6, <1>7 DEF ObjectInv

\* Clean values stay clean: numbers given to new calls and calls given up are of others.
LEMMA CleanStays ==
  ASSUME TagsInOrder, calls \in Nat, calls' \in Nat, calls <= calls', NEW h \in Slots,
         \A g \in Slots \ {h} : req'[g] = req[g],
         NEW new, new \cap 0..calls = {},
         (req'[h].tx => req[h].tx /\ Objects!Tags(req'[h]) = Objects!Tags(req[h])) \/ Objects!Tags(req'[h]) = new,
         \/ undone' \subseteq undone \cup new
         \/ req[h].tx /\ undone' = undone \cup Objects!Tags(req[h])
  PROVE  /\ \A v : Clean(v) => Clean(v)'
         /\ \A row : CleanRow(row) => (row # None => \A f \in Fields : Clean(row[f])')
  <1>1. ASSUME NEW v, Clean(v) PROVE Clean(v)'
    BY <1>1 DEF Clean, Objects!Tags
  <1> QED
    BY <1>1 DEF CleanRow

LEMMA StillKept ==
  ASSUME \A v : Clean(v) => Clean(v)', NEW h, KeptBy(req'[h])
  PROVE  KeptBy(req[h])'
  <1>1. PICK q : q = req'[h]
    OBVIOUS
  <1>2. KeptBy(q)'
    BY <1>1 DEF KeptBy, CleanRow, Objects!Tags
  <1> QED
    BY <1>1, <1>2 DEF KeptBy, CleanRow, Objects!Tags

\* A request is over: what it had read, and what it had not committed, is gone.
LEMMA ObjectsEnd ==
  ASSUME Objects!Constants, ObjectInv, NEW h \in Slots, req[h].st # "idle",
         req' = [req EXCEPT ![h] = Objects!Idle], UNCHANGED <<load, calls, pending, published, stored, undone>>,
         rows' \in Collection, \A x \in ObjectIds : CleanRow(rows[x])'
  PROVE  ObjectTypes' /\ TagsInOrder' /\ Kept' /\ EventsStored' /\ (OneByOne' => EventsExact')
  <1>1. ObjectTypes'
    BY ObjectFacts DEF ObjectInv, ObjectTypes
  <1>2. req'[h] = Objects!Idle /\ \A g \in Slots \ {h} : req'[g] = req[g]
    BY DEF ObjectInv, ObjectTypes
  <1>3. Objects!Tags(Objects!Idle) = {} /\ (\A g \in Slots : Objects!Tags(req[g])' = Objects!Tags(req'[g]))
    BY ObjectFacts DEF Objects!Tags
  <1>4. TagsInOrder'
    <2>1. \A g \in Slots : Objects!Tags(req'[g]) \subseteq Objects!Tags(req[g]) /\ Objects!Tags(req'[h]) = {}
      BY <1>2, <1>3
    <2>2. \A g \in Slots : Lost(req'[g]) <=> (g # h /\ Lost(req[g]))
      BY <1>2, ObjectFacts
    <2>3. \A g \in Slots : (Lost(req[g])' <=> Lost(req'[g])) /\ Objects!Tags(req[g])' = Objects!Tags(req'[g])
      BY <1>3 DEF Lost
    <2> QED
      BY <1>2, <2>1, <2>2, <2>3 DEF ObjectInv, TagsInOrder
  <1>5. \A v : Clean(v) => Clean(v)'
    BY <1>2, ObjectFacts DEF Clean, Objects!Tags
  <1>6. Kept'
    <2>1. KeptBy(Objects!Idle)
      BY ObjectFacts DEF KeptBy
    <2>2. \A g \in Slots : KeptBy(req'[g])
      BY <1>2, <2>1 DEF ObjectInv, Kept
    <2> QED
      BY <1>5, <2>2, StillKept DEF Kept
  <1>7. EventsStored'
    BY <1>2, ObjectFacts DEF ObjectInv, EventsStored
  <1>8. OneByOne' => EventsExact'
    <2> SUFFICES ASSUME OneByOne' PROVE EventsExact'
      OBVIOUS
    <2>1. OneByOne /\ EventsExact
      BY DEF OneByOne, ObjectInv, Objects!Single
    <2>2. req[h] # Objects!Idle
      BY ObjectFacts
    <2>3. \A g \in Slots : req'[g] = Objects!Idle
      BY <1>2, <2>1, <2>2 DEF EventsExact
    <2> QED
      BY <2>1, <2>3, ObjectFacts DEF EventsExact
  <1> QED
    BY <1>1, <1>4, <1>6, <1>7, <1>8

LEMMA ObjectsForget == ASSUME Objects!Constants, ObjectInv, NEW h \in Slots, Objects!Forget(h) PROVE ObjectInv'
  <1>1. /\ req[h].st # "idle" /\ req' = [req EXCEPT ![h] = Objects!Idle]
        /\ UNCHANGED <<load, rows, known, calls, executed, pending, published, stored, undone>>
    BY DEF Objects!Forget, Objects!Counted
  <1>2. rows' \in Collection
    BY <1>1 DEF ObjectInv, ObjectTypes
  <1>3. \A x \in ObjectIds : CleanRow(rows[x])'
    <2>1. \A v : Clean(v) => Clean(v)'
      BY <1>1, ObjectFacts DEF Clean, Objects!Tags, ObjectInv, ObjectTypes
    <2> QED
      BY <1>1, <2>1 DEF CleanRow, ObjectInv, Kept
  <1>4. Once'
    BY <1>1 DEF ObjectInv, Once
  <1> QED
    BY <1>1, <1>2, <1>3, <1>4, ObjectsEnd DEF ObjectInv

\* What a transaction has written is nobody else's, and if it commits nobody has given it up.
LEMMA ObjectsFinish == ASSUME Objects!Constants, ObjectInv, NEW h \in Slots, Objects!Finish(h) PROVE ObjectInv'
  <1>1. PICK q : q = req[h]
    OBVIOUS
  <1>2. /\ q \in ObjectRequest /\ q.st = "run" /\ req' = [req EXCEPT ![h] = Objects!Idle]
        /\ rows' = IF Objects!Commits(q) THEN [x \in ObjectIds |-> IF x \in q.mine THEN q.own[x] ELSE rows[x]] ELSE rows
        /\ UNCHANGED <<load, known, calls, executed, pending, published, stored, undone>>
    BY <1>1 DEF Objects!Finish, Objects!Counted, ObjectInv, ObjectTypes
  <1>3. \A x \in q.mine : q.own \in Collection
    BY <1>1, <1>2 DEF ObjectInv, ObjectTypes, ObjectRequest
  <1>4. rows' \in Collection
    BY <1>2, <1>3 DEF Collection, ObjectInv, ObjectTypes
  <1>5. req'[h] = Objects!Idle /\ \A g \in Slots \ {h} : req'[g] = req[g]
    BY <1>2 DEF ObjectInv, ObjectTypes
  <1>6. \A v : Clean(v) => Clean(v)'
    BY <1>2, <1>5, ObjectFacts DEF Clean, Objects!Tags
  <1>7. ASSUME Objects!Commits(q), NEW v \in Objects!Tags(q) PROVE Clean(v)'
    <2>1. ~ Lost(q)
      BY <1>2, <1>7 DEF Objects!Commits, Lost
    <2>2. v \in 1..calls /\ v \notin undone
      BY <1>1, <1>7, <2>1 DEF ObjectInv, TagsInOrder
    <2>3. \A g \in Slots \ {h} : v \notin Objects!Tags(req[g])
      BY <1>1, <1>7 DEF ObjectInv, TagsInOrder
    <2> QED
      BY <1>2, <1>5, <2>2, <2>3, ObjectFacts DEF Clean, Objects!Tags, ObjectInv, ObjectTypes
  <1>8. ASSUME NEW x \in ObjectIds PROVE CleanRow(rows[x])'
    <2>1. CASE Objects!Commits(q) /\ x \in q.mine
      <3>1. rows'[x] = q.own[x]
        BY <1>2, <2>1
      <3>2. \A f \in Fields : q.own[x] # None => Clean(q.own[x][f]) \/ q.own[x][f] \in Objects!Tags(q)
        BY <1>1, <2>1 DEF ObjectInv, Kept, KeptBy
      <3> QED
        BY <1>6, <1>7, <2>1, <3>1, <3>2 DEF CleanRow
    <2>2. CASE rows'[x] = rows[x]
      BY <1>6, <2>2 DEF CleanRow, ObjectInv, Kept
    <2> QED
      BY <1>2, <2>1, <2>2
  <1>9. Once'
    BY <1>2 DEF ObjectInv, Once
  <1> QED
    BY <1>1, <1>2, <1>4, <1>8, <1>9, ObjectsEnd DEF ObjectInv

\* A request id is let through, or the request is turned away.
LEMMA ObjectsReserve == ASSUME Objects!Constants, ObjectInv, NEW h \in Slots, Objects!Reserve(h) PROVE ObjectInv'
  <1>1. PICK q : q = req[h]
    OBVIOUS
  <1>2. /\ q \in ObjectRequest /\ q.st = "reserve" /\ q.rid \in RequestIds
        /\ UNCHANGED <<load, rows, pending, published, calls, stored, undone>>
    BY <1>1 DEF Objects!Reserve, ObjectInv, ObjectTypes, ObjectRequest
  <1>3. CASE q.rid \in known
    <2>1. req' = [req EXCEPT ![h] = Objects!Idle] /\ UNCHANGED <<known, executed>>
      BY <1>1, <1>3 DEF Objects!Reserve, Objects!MayServe
    <2>2. \A x \in ObjectIds : CleanRow(rows[x])'
      <3>1. \A v : Clean(v) => Clean(v)'
        BY <1>2, <2>1, ObjectFacts DEF Clean, Objects!Tags, ObjectInv, ObjectTypes
      <3> QED
        BY <1>2, <3>1 DEF CleanRow, ObjectInv, Kept
    <2>3. Once' /\ rows' \in Collection
      BY <1>2, <2>1 DEF ObjectInv, Once, ObjectTypes
    <2> QED
      BY <1>1, <1>2, <2>1, <2>2, <2>3, ObjectsEnd DEF ObjectInv
  <1>4. CASE q.rid \notin known
    <2>1. PICK n : n = [q EXCEPT !.st = "run"]
      OBVIOUS
    <2>2. /\ n \in ObjectRequest /\ n.st = "run" /\ n.tx = q.tx /\ n.calls = q.calls
          /\ n.base = q.base /\ n.mine = q.mine /\ n.own = q.own
      BY <1>2, <2>1 DEF ObjectRequest
    <2>3. /\ req' = [req EXCEPT ![h] = n]
          /\ known' = known \cup {q.rid} /\ executed' = [executed EXCEPT ![q.rid] = @ + 1]
      BY <1>1, <1>4, <2>1 DEF Objects!Reserve, Objects!MayServe
    <2>4. req'[h] = n /\ \A g \in Slots \ {h} : req'[g] = req[g]
      BY <2>3 DEF ObjectInv, ObjectTypes
    <2>5. \A g \in Slots : /\ req'[g].tx = req[g].tx /\ req'[g].calls = req[g].calls
                          /\ req'[g].base = req[g].base /\ req'[g].mine = req[g].mine /\ req'[g].own = req[g].own
      BY <1>1, <2>2, <2>4
    <2>6. ObjectTypes'
      BY <1>1, <1>2, <2>2, <2>3, <2>4 DEF ObjectInv, ObjectTypes
    <2>7. Once'
      BY <1>2, <1>4, <2>3 DEF ObjectInv, Once
    <2>8. \A g \in Slots : Objects!Tags(req[g])' = Objects!Tags(req[g]) /\ (~ Lost(req[g])' => ~ Lost(req[g]))
      BY <1>1, <1>2, <2>2, <2>4, <2>5 DEF Objects!Tags, Lost
    <2>9. TagsInOrder'
      BY <1>2, <2>8 DEF ObjectInv, TagsInOrder
    <2>10. \A v : Clean(v)' <=> Clean(v)
      BY <1>2, <2>5, <2>8 DEF Clean
    <2>11. Kept'
      BY <1>2, <2>5, <2>8, <2>10 DEF ObjectInv, Kept, KeptBy, CleanRow
    <2>12. EventsStored'
      BY <1>2, <2>5 DEF ObjectInv, EventsStored
    <2>13. OneByOne' => EventsExact'
      <3> SUFFICES ASSUME OneByOne' PROVE EventsExact'
        OBVIOUS
      <3>1. EventsExact /\ req[h] # Objects!Idle
        BY <1>1, <1>2, ObjectFacts DEF OneByOne, ObjectInv, Objects!Single
      <3> QED
        BY <1>2, <2>4, <2>5, <3>1 DEF EventsExact, ReadAsStored, Objects!Watched, Objects!Told, Objects!Onto
    <2> QED
      BY <2>6, <2>7, <2>9, <2>11, <2>12, <2>13 DEF ObjectInv
  <1> QED
    BY <1>3, <1>4

\* Steps that leave rows, requests and calls alone.
LEMMA ObjectsAside ==
  ASSUME Objects!Constants, ObjectInv, UNCHANGED <<load, rows, req, calls, stored, undone>>
  PROVE  /\ ObjectTypes' /\ TagsInOrder' /\ Kept'
         /\ (\A h \in Slots : \A k \in DOMAIN req[h].calls : req[h].calls[k].at = "after" => req[h].calls[k].tag \in stored)'
         /\ OneByOne' => OneByOne /\ (\A h \in Slots : \A k \in DOMAIN req[h].calls : ReadAsStored(req[h].calls[k], rows))'
  <1>1. ObjectTypes' /\ TagsInOrder'
    <2>1. ObjectTypes'
      BY DEF ObjectInv, ObjectTypes
    <2>2. \A h \in Slots : Objects!Tags(req[h])' = Objects!Tags(req[h]) /\ (Lost(req[h])' <=> Lost(req[h]))
      BY DEF Objects!Tags, Lost
    <2>3. TagsInOrder'
      BY <2>2 DEF ObjectInv, TagsInOrder
    <2> QED
      BY <2>1, <2>3
  <1>2. Kept'
    <2>1. \A h \in Slots : Objects!Tags(req[h])' = Objects!Tags(req[h])
      BY DEF Objects!Tags
    <2>2. \A v : Clean(v) => Clean(v)'
      BY <2>1 DEF Clean
    <2>3. \A h \in Slots : KeptBy(req'[h])
      BY DEF ObjectInv, Kept
    <2>4. \A h \in Slots : KeptBy(req[h])'
      BY <2>2, <2>3, StillKept
    <2> QED
      BY <2>2, <2>4 DEF ObjectInv, Kept, CleanRow
  <1>3. (\A h \in Slots : \A k \in DOMAIN req[h].calls : req[h].calls[k].at = "after" => req[h].calls[k].tag \in stored)'
    BY DEF ObjectInv, EventsStored
  <1>4. OneByOne' => OneByOne /\ (\A h \in Slots : \A k \in DOMAIN req[h].calls : ReadAsStored(req[h].calls[k], rows))'
    BY DEF ObjectInv, OneByOne, Objects!Single, EventsExact, ReadAsStored, Objects!Watched, Objects!Told, Objects!Onto
  <1> QED
    BY <1>1, <1>2, <1>3, <1>4

LEMMA ObjectsExpireId ==
  ASSUME Objects!Constants, ObjectInv, NEW i \in RequestIds, Objects!ExpireId(i)
  PROVE  ObjectInv'
  <1>1. UNCHANGED <<load, rows, req, calls, stored, undone, pending, published>>
    BY DEF Objects!ExpireId
  <1>2. Once'
    BY DEF Objects!ExpireId, ObjectInv, Once
  <1>3. EventsStored'
    BY <1>1, ObjectsAside DEF ObjectInv, EventsStored
  <1>4. OneByOne' => EventsExact'
    BY <1>1, ObjectsAside DEF ObjectInv, EventsExact
  <1> QED
    BY <1>1, <1>2, <1>3, <1>4, ObjectsAside DEF ObjectInv

LEMMA ObjectsPublish == ASSUME Objects!Constants, ObjectInv, NEW e, Objects!Publish(e) PROVE ObjectInv'
  <1>1. /\ UNCHANGED <<load, rows, req, calls, stored, undone, known, executed>>
        /\ published' \cup pending' \subseteq published \cup pending
    BY DEF Objects!Publish, Objects!Counted
  <1>2. Once'
    BY <1>1 DEF ObjectInv, Once
  <1>3. EventsStored'
    BY <1>1, ObjectsAside DEF ObjectInv, EventsStored
  <1>4. OneByOne' => EventsExact'
    BY <1>1, ObjectsAside DEF ObjectInv, EventsExact
  <1> QED
    BY <1>1, <1>2, <1>3, <1>4, ObjectsAside DEF ObjectInv

LEMMA ObjectsCrash == ASSUME Objects!Constants, ObjectInv, Objects!Crash PROVE ObjectInv'
  <1>1. /\ req' = [h \in Slots |-> Objects!Idle] /\ pending' = {}
        /\ UNCHANGED <<load, known, calls, executed, rows, published, stored, undone>>
    BY DEF Objects!Crash, Objects!Counted
  <1>2. \A h \in Slots : /\ req'[h] = Objects!Idle /\ req'[h].calls = <<>> /\ ~ req'[h].tx
                        /\ req'[h].mine = {} /\ req'[h].base = None /\ Objects!Tags(req[h])' = {}
    BY <1>1, ObjectFacts DEF Objects!Tags
  <1>3. ObjectTypes'
    BY <1>1, ObjectFacts DEF ObjectInv, ObjectTypes
  <1>4. Once'
    BY <1>1 DEF ObjectInv, Once
  <1>5. TagsInOrder'
    BY <1>1, <1>2 DEF ObjectInv, TagsInOrder
  <1>6. \A v : Clean(v) => Clean(v)'
    BY <1>1, <1>2 DEF Clean
  <1>7. Kept'
    BY <1>1, <1>2, <1>6 DEF ObjectInv, Kept, KeptBy, CleanRow
  <1>8. EventsStored'
    BY <1>1, <1>2 DEF ObjectInv, EventsStored
  <1>9. OneByOne' => EventsExact'
    BY <1>1, <1>2 DEF ObjectInv, OneByOne, Objects!Single, EventsExact
  <1> QED
    BY <1>3, <1>4, <1>5, <1>7, <1>8, <1>9 DEF ObjectInv

LEMMA ObjectsArrive == ASSUME Objects!Constants, ObjectInv, NEW h \in Slots, Objects!Arrive(h) PROVE ObjectInv'
  <1>a. PICK s \in load.shapes : \E n \in 0..Len(s.ops) :
          Objects!Routed(s.ops, n) /\ \E ids \in [1..n -> ObjectIds] : Objects!Begin(h, s, n, ids)
    BY DEF Objects!Arrive
  <1>b. PICK n \in 0..Len(s.ops) :
          Objects!Routed(s.ops, n) /\ \E ids \in [1..n -> ObjectIds] : Objects!Begin(h, s, n, ids)
    BY <1>a
  <1>c. PICK ids \in [1..n -> ObjectIds] : Objects!Begin(h, s, n, ids)
    BY <1>b
  <1>1. /\ s \in load.shapes /\ n \in 0..Len(s.ops) /\ ids \in [1..n -> ObjectIds] /\ Objects!Routed(s.ops, n)
        /\ \A k \in 1..n : s.ops[k].op = "create" => ids[k] \notin Objects!InUse
        /\ req' = [req EXCEPT ![h] =
             [Objects!Idle EXCEPT
                !.st = IF s.rid # None THEN "reserve" ELSE IF n = Len(s.ops) THEN "run" ELSE "thrown",
                !.rid = s.rid, !.tx = s.tx,
                !.calls = [k \in 1..n |-> Objects!Call(s.ops[k].op, ids[k], s.ops[k].field, calls + k)]]]
        /\ calls' = calls + n + 1
        /\ undone' = IF s.tx /\ n < Len(s.ops) THEN undone \cup {calls + k : k \in 1..n} ELSE undone
    BY <1>b, <1>c DEF Objects!Begin
  <1>2. /\ UNCHANGED <<load, rows, known, pending, published, stored, executed>> /\ req[h].st = "idle"
        /\ load.alone => Objects!AtRest
    BY DEF Objects!Arrive, Objects!Open
  <1>3. /\ s.rid \in RequestIds \cup {None} /\ s.tx \in BOOLEAN /\ s.ops \in Seq(Objects!Operation)
        /\ s.rid # None => ~ s.tx
    BY <1>1 DEF Objects!Constants, Objects!Shape, ObjectInv, ObjectTypes
  <1>4. calls \in Nat /\ calls' \in Nat /\ n \in Nat /\ calls' = calls + n + 1
    BY <1>1, <1>3 DEF ObjectInv, ObjectTypes
  <1>5. PICK cs : cs = [k \in 1..n |-> Objects!Call(s.ops[k].op, ids[k], s.ops[k].field, calls + k)]
    OBVIOUS
  <1>6. \A k \in 1..n :
          /\ cs[k] \in ObjectCall /\ cs[k].tag = calls + k /\ ~ cs[k].failed /\ cs[k].at # "after" /\ cs[k].original = None
          /\ cs[k].at \in {"before", "store"} /\ Objects!Watched => rows[cs[k].id] = None
    <2> SUFFICES ASSUME NEW k \in 1..n
                 PROVE  /\ cs[k] \in ObjectCall /\ cs[k].tag = calls + k /\ ~ cs[k].failed /\ cs[k].at # "after"
                        /\ cs[k].original = None
                        /\ cs[k].at \in {"before", "store"} /\ Objects!Watched => rows[cs[k].id] = None
      OBVIOUS
    <2>1. s.ops[k] \in Objects!Operation /\ s.ops[k].op # "unroutable" /\ ids[k] \in ObjectIds
      BY <1>1, <1>3, <1>4 DEF Objects!Routed
    <2>2. cs[k] = Objects!Call(s.ops[k].op, ids[k], s.ops[k].field, calls + k)
      BY <1>5
    <2>3. s.ops[k].op = "create" => rows[ids[k]] = None
      BY <1>1, <2>1 DEF Objects!InUse
    <2>4. /\ Objects!FirstStage(s.ops[k].op) \in {"original", "before", "store"}
          /\ Objects!Watched /\ s.ops[k].op # "create" => Objects!FirstStage(s.ops[k].op) = "original"
      BY DEF Objects!FirstStage
    <2>5. cs[k] \in ObjectCall
      BY <1>4, <2>1, <2>2, <2>4 DEF Objects!Call, ObjectCall, Objects!Operation, Objects!Values
    <2> QED
      BY <2>2, <2>3, <2>4, <2>5 DEF Objects!Call
  <1>7. cs \in Seq(ObjectCall) /\ DOMAIN cs = 1..n
    BY <1>4, <1>5, <1>6
  <1>8. PICK q : q = [Objects!Idle EXCEPT
                        !.st = IF s.rid # None THEN "reserve" ELSE IF n = Len(s.ops) THEN "run" ELSE "thrown",
                        !.rid = s.rid, !.tx = s.tx, !.calls = cs]
    OBVIOUS
  <1>9. /\ q \in ObjectRequest /\ q.calls = cs /\ q.tx = s.tx /\ q.mine = {} /\ q.base = None /\ q.rid = s.rid
        /\ q.st = IF s.rid # None THEN "reserve" ELSE IF n = Len(s.ops) THEN "run" ELSE "thrown"
    BY <1>3, <1>7, <1>8 DEF ObjectRequest, Objects!Idle
  <1>10. req' = [req EXCEPT ![h] = q]
    BY <1>1, <1>5, <1>8
  <1>11. req'[h] = q /\ \A g \in Slots \ {h} : req'[g] = req[g]
    BY <1>10 DEF ObjectInv, ObjectTypes
  <1>12. ObjectTypes'
    BY <1>2, <1>4, <1>9, <1>10, <1>11 DEF ObjectInv, ObjectTypes
  <1>13. PICK new : new = {calls + k : k \in 1..n}
    OBVIOUS
  <1>14. Objects!Tags(q) = new /\ new \subseteq (calls + 1)..calls' /\ new \cap 0..calls = {}
    <2>1. new \subseteq (calls + 1)..calls' /\ new \cap 0..calls = {}
      BY <1>4, <1>13
    <2>2. Objects!Tags(q) = {cs[k].tag : k \in 1..n}
      BY <1>7, <1>9 DEF Objects!Tags
    <2>3. {cs[k].tag : k \in 1..n} = new
      BY <1>6, <1>13
    <2> QED
      BY <2>1, <2>2, <2>3
  <1>15. undone' = IF Lost(q) THEN undone \cup new ELSE undone
    BY <1>1, <1>3, <1>6, <1>7, <1>9, <1>13 DEF Lost
  <1>16. TagsInOrder'
    <2>1. \A g \in Slots : (Lost(req[g])' <=> Lost(req'[g])) /\ Objects!Tags(req[g])' = Objects!Tags(req'[g])
      BY DEF Lost, Objects!Tags
    <2>2. undone \subseteq 1..calls /\ \A g \in Slots : Objects!Tags(req[g]) \subseteq 1..calls
      BY DEF ObjectInv, TagsInOrder
    <2>a. 1..calls \subseteq 1..calls' /\ new \subseteq 1..calls' /\ 1..calls \subseteq 0..calls
      BY <1>4, <1>14
    <2>b. undone' \subseteq undone \cup new
      BY <1>15
    <2>3. (undone \subseteq 1..calls)' /\ \A g \in Slots : Objects!Tags(req'[g]) \subseteq 1..calls'
      <3>1. undone' \subseteq 1..calls'
        BY <2>a, <2>b, <2>2
      <3>2. \A g \in Slots : Objects!Tags(req'[g]) \subseteq 1..calls'
        BY <1>11, <1>14, <2>a, <2>2
      <3> QED
        BY <3>1, <3>2
    <2>4. \A g \in Slots \ {h} : Objects!Tags(req'[g]) \cap new = {}
      BY <1>11, <1>14, <2>2
    <2>5. \A f, g \in Slots : f # g => Objects!Tags(req'[f]) \cap Objects!Tags(req'[g]) = {}
      BY <1>11, <1>14, <2>4 DEF ObjectInv, TagsInOrder
    <2>6. \A g \in Slots : ~ Lost(req'[g]) => Objects!Tags(req'[g]) \cap undone' = {}
      <3>1. CASE Lost(q)
        BY <1>11, <1>15, <2>4, <3>1 DEF ObjectInv, TagsInOrder
      <3>2. CASE ~ Lost(q)
        BY <1>11, <1>14, <1>15, <2>a, <2>2, <3>2 DEF ObjectInv, TagsInOrder
      <3> QED
        BY <3>1, <3>2
    <2> QED
      BY <2>1, <2>3, <2>5, <2>6 DEF TagsInOrder
  <1>17. \A v : Clean(v) => Clean(v)'
    <2>1. /\ TagsInOrder /\ calls <= calls' /\ Objects!Tags(req'[h]) = new /\ undone' \subseteq undone \cup new
          /\ new \cap 0..calls = {}
      BY <1>4, <1>11, <1>14, <1>15 DEF ObjectInv
    <2> QED
      BY <1>4, <1>11, <2>1, CleanStays
  <1>18. Kept'
    <2>1. \A g \in Slots : KeptBy(req'[g])
      BY <1>9, <1>11 DEF ObjectInv, Kept, KeptBy
    <2> QED
      BY <1>2, <1>17, <2>1, StillKept DEF ObjectInv, Kept, CleanRow
  <1>19. EventsStored'
    BY <1>2, <1>6, <1>7, <1>9, <1>11 DEF ObjectInv, EventsStored
  <1>20. Once'
    BY <1>2 DEF ObjectInv, Once
  <1>21. OneByOne' => EventsExact'
    <2> SUFFICES ASSUME OneByOne' PROVE EventsExact'
      OBVIOUS
    <2>1. OneByOne /\ EventsExact /\ Objects!AtRest /\ Objects!Single /\ ~ s.tx
      BY <1>1, <1>2 DEF OneByOne, ObjectInv, Objects!Single
    <2>2. \A g \in Slots : req[g].st = "idle"
      BY <2>1 DEF Objects!AtRest, Objects!Open
    <2>3. Len(s.ops) = 1
      BY <1>1, <2>1 DEF Objects!Single
    <2>4. 1..n \subseteq {1}
      BY <1>1, <1>4, <2>3
    <2>5. \A g \in Slots \ {h} : req[g] = Objects!Idle
      BY <2>2 DEF ObjectInv, ObjectTypes
    <2>6. \A k \in DOMAIN q.calls : ReadAsStored(q.calls[k], rows)'
      BY <1>2, <1>6, <1>7, <1>9 DEF ReadAsStored, Objects!Watched
    <2>7. \A g \in Slots \ {h} : req'[g] = Objects!Idle /\ DOMAIN req'[g].calls = {} /\ ~ req'[g].tx
      BY <1>11, <2>5, ObjectFacts
    <2>8. (\A g \in Slots : \A k \in DOMAIN req[g].calls : ReadAsStored(req[g].calls[k], rows))'
      BY <1>11, <2>6, <2>7 DEF ReadAsStored
    <2> QED
      BY <1>2, <1>7, <1>9, <1>11, <2>1, <2>4, <2>7, <2>8 DEF EventsExact
  <1> QED
    BY <1>12, <1>16, <1>18, <1>19, <1>20, <1>21 DEF ObjectInv

\* A request in which one call has become another one.
LEMMA CallReplaced ==
  ASSUME NEW q \in ObjectRequest, NEW k \in DOMAIN q.calls, NEW c \in ObjectCall
  PROVE  /\ [q EXCEPT !.calls[k] = c] \in ObjectRequest
         /\ [q EXCEPT !.calls[k] = c].calls = [q.calls EXCEPT ![k] = c]
         /\ [q.calls EXCEPT ![k] = c] \in Seq(ObjectCall)
         /\ q.calls[k] \in ObjectCall
  <1>1. q.calls \in Seq(ObjectCall) /\ k \in 1..Len(q.calls) /\ q.calls[k] \in ObjectCall
    BY DEF ObjectRequest
  <1>2. [q.calls EXCEPT ![k] = c] \in Seq(ObjectCall)
    BY <1>1, ExceptSeq
  <1>3. [q EXCEPT !.calls[k] = c] = [q EXCEPT !.calls = [q.calls EXCEPT ![k] = c]]
    BY DEF ObjectRequest
  <1> QED
    BY <1>1, <1>2, <1>3 DEF ObjectRequest

\* A call goes on, or fails: what a transaction in which a call fails has done is given up.
LEMMA ObjectsStep ==
  ASSUME Objects!Constants, ObjectInv, NEW h \in Slots, req[h].st \in {"run", "thrown"},
         NEW k \in DOMAIN req[h].calls, NEW n \in ObjectRequest, NEW c \in ObjectCall,
         req' = [req EXCEPT ![h] = n], n.calls = [req[h].calls EXCEPT ![k] = c],
         n.st = req[h].st, n.tx = req[h].tx, c.tag = req[h].calls[k].tag,
         UNCHANGED <<load, known, calls, executed>>,
         n.mine # {} => n.own \in Collection, rows' \in Collection,
         KeptBy(n), \A x \in ObjectIds : CleanRow(rows'[x]),
         \/ undone' = undone /\ c.failed = req[h].calls[k].failed
         \/ c.failed /\ undone' = IF req[h].tx THEN undone \cup Objects!Tags(req[h]) ELSE undone,
         stored \subseteq stored', c.at = "after" => c.tag \in stored',
         \A e \in published' \cup pending' :
           \/ e \in published \cup pending
           \/ /\ e.tag \in stored'
              /\ OneByOne => load.live /\ (e.op # "delete" => e.told = e.result),
         OneByOne => ReadAsStored(c, rows')
  PROVE  ObjectInv'
  <1>1. PICK q : q = req[h]
    OBVIOUS
  <1>2. req'[h] = n /\ (\A g \in Slots \ {h} : req'[g] = req[g]) /\ q \in ObjectRequest
    BY <1>1 DEF ObjectInv, ObjectTypes
  <1>3. DOMAIN n.calls = DOMAIN q.calls /\ n.calls[k] = c /\ \A j \in DOMAIN q.calls : j # k => n.calls[j] = q.calls[j]
    BY <1>1, <1>2 DEF ObjectRequest
  <1>4. Objects!Tags(n) = Objects!Tags(q)
    BY <1>1, <1>3 DEF Objects!Tags
  <1>5. \A g \in Slots : (Lost(req[g])' <=> Lost(req'[g])) /\ Objects!Tags(req[g])' = Objects!Tags(req'[g])
    BY DEF Lost, Objects!Tags
  <1>6. \A g \in Slots : Objects!Tags(req'[g]) = Objects!Tags(req[g]) /\ req'[g].tx = req[g].tx
    BY <1>1, <1>2, <1>4
  <1>7. ObjectTypes'
    BY <1>2 DEF ObjectInv, ObjectTypes
  <1>8. Once'
    BY DEF ObjectInv, Once
  <1>9. undone \subseteq undone' /\ undone' \subseteq undone \cup Objects!Tags(q) /\ (~ Lost(n) => undone' = undone)
    BY <1>1, <1>3 DEF Lost
  <1>10. Lost(q) => Lost(n)
    BY <1>1, <1>3 DEF Lost
  <1>11. TagsInOrder'
    <2>1. (undone \subseteq 1..calls)'
      BY <1>1, <1>9 DEF ObjectInv, TagsInOrder
    <2>2. \A g \in Slots : ~ Lost(req'[g]) => Objects!Tags(req'[g]) \cap undone' = {}
      <3> SUFFICES ASSUME NEW g \in Slots, ~ Lost(req'[g]) PROVE Objects!Tags(req[g]) \cap undone' = {}
        BY <1>6
      <3>1. CASE g = h
        BY <1>1, <1>2, <1>9, <1>10, <3>1 DEF ObjectInv, TagsInOrder
      <3>2. CASE g # h
        BY <1>1, <1>2, <1>9, <3>2 DEF ObjectInv, TagsInOrder
      <3> QED
        BY <3>1, <3>2
    <2> QED
      BY <1>5, <1>6, <2>1, <2>2 DEF ObjectInv, TagsInOrder
  <1>12. \A v : Clean(v) => Clean(v)'
    BY <1>1, <1>5, <1>6 DEF Clean
  <1>13. Kept'
    <2>1. \A g \in Slots : KeptBy(req'[g])
      BY <1>2 DEF ObjectInv, Kept
    <2>2. \A g \in Slots : KeptBy(req[g])'
      BY <1>12, <2>1, StillKept
    <2>3. \A x \in ObjectIds : CleanRow(rows[x])'
      BY <1>12 DEF CleanRow
    <2> QED
      BY <2>2, <2>3 DEF Kept
  <1>14. EventsStored'
    <2>1. ASSUME NEW g \in Slots, NEW j \in DOMAIN req'[g].calls, req'[g].calls[j].at = "after"
          PROVE  req'[g].calls[j].tag \in stored'
      BY <1>1, <1>2, <1>3, <2>1 DEF ObjectInv, EventsStored
    <2>2. \A e \in published' \cup pending' : e.tag \in stored'
      BY DEF ObjectInv, EventsStored
    <2> QED
      BY <2>1, <2>2 DEF EventsStored
  <1>15. OneByOne' => EventsExact'
    <2> SUFFICES ASSUME OneByOne' PROVE EventsExact'
      OBVIOUS
    <2>1. OneByOne /\ EventsExact
      BY DEF OneByOne, ObjectInv, Objects!Single
    <2>2. q # Objects!Idle
      BY <1>1, ObjectFacts
    <2>3. \A g \in Slots \ {h} : req'[g] = Objects!Idle /\ DOMAIN req'[g].calls = {} /\ ~ req'[g].tx
      BY <1>1, <1>2, <2>1, <2>2, ObjectFacts DEF EventsExact
    <2>4. ~ n.tx /\ DOMAIN n.calls \subseteq {1} /\ k = 1
      BY <1>1, <1>3, <2>1 DEF EventsExact
    <2>5. ReadAsStored(c, rows)'
      BY <2>1 DEF ReadAsStored, Objects!Watched, Objects!Told, Objects!Onto
    <2>6. (\A g \in Slots : \A j \in DOMAIN req[g].calls : ReadAsStored(req[g].calls[j], rows))'
      <3>1. ASSUME NEW g \in Slots, NEW j \in DOMAIN req'[g].calls PROVE req'[g].calls[j] = c
        BY <1>2, <1>3, <2>3, <2>4
      <3> QED
        BY <2>5, <3>1 DEF ReadAsStored, Objects!Told, Objects!Onto
    <2>7. \A e \in published' \cup pending' : load.live /\ (e.op # "delete" => e.told = e.result)
      BY <2>1 DEF EventsExact
    <2>8. \A f, g \in Slots : req'[f] # Objects!Idle /\ req'[g] # Objects!Idle => f = g
      BY <2>3
    <2>9. \A g \in Slots : ~ req'[g].tx /\ DOMAIN req'[g].calls \subseteq {1}
      BY <1>2, <2>3, <2>4
    <2>10. \A e \in published' \cup pending' : load'.live /\ (e.op # "delete" => e.told = e.result)
      BY <2>7
    <2>11. ~ load'.live => published' \cup pending' = {}
      BY <2>10
    <2> QED
      BY <2>6, <2>8, <2>9, <2>10, <2>11 DEF EventsExact
  <1> QED
    BY <1>7, <1>8, <1>11, <1>13, <1>14, <1>15 DEF ObjectInv

LEMMA SameTags ==
  ASSUME NEW q \in ObjectRequest, NEW k \in DOMAIN q.calls, NEW c, c.tag = q.calls[k].tag,
         NEW n, n.calls = [q.calls EXCEPT ![k] = c]
  PROVE  Objects!Tags(n) = Objects!Tags(q)
  <1>1. DOMAIN n.calls = DOMAIN q.calls /\ \A j \in DOMAIN q.calls : n.calls[j].tag = q.calls[j].tag
    BY DEF ObjectRequest
  <1> QED
    BY <1>1 DEF Objects!Tags

\* A call goes on without a write.
LEMMA ObjectsGo ==
  ASSUME Objects!Constants, ObjectInv, NEW h \in Slots, req[h].st \in {"run", "thrown"},
         NEW k \in DOMAIN req[h].calls, NEW c \in ObjectCall, Objects!Go(h, k, c),
         c.tag = req[h].calls[k].tag, c.failed = req[h].calls[k].failed, c.at # "after",
         UNCHANGED <<load, rows, known, calls, executed, stored>>,
         \A e \in published' \cup pending' :
           \/ e \in published \cup pending
           \/ /\ e.tag \in stored
              /\ OneByOne => load.live /\ (e.op # "delete" => e.told = e.result),
         OneByOne => ReadAsStored(c, rows)
  PROVE  ObjectInv'
  <1>1. PICK q : q = req[h]
    OBVIOUS
  <1>2. PICK n : n = [q EXCEPT !.calls[k] = c]
    OBVIOUS
  <1>3. q \in ObjectRequest /\ req' = [req EXCEPT ![h] = n] /\ undone' = undone
    BY <1>1, <1>2 DEF Objects!Go, ObjectInv, ObjectTypes
  <1>4. n \in ObjectRequest /\ n.calls = [q.calls EXCEPT ![k] = c]
    BY <1>1, <1>2, <1>3, CallReplaced
  <1>5. n.st = q.st /\ n.tx = q.tx /\ n.base = q.base /\ n.mine = q.mine /\ n.own = q.own
    BY <1>2, <1>3 DEF ObjectRequest
  <1>6. Objects!Tags(n) = Objects!Tags(q)
    BY <1>1, <1>3, <1>4, SameTags
  <1>7. KeptBy(n)
    BY <1>1, <1>5, <1>6 DEF ObjectInv, Kept, KeptBy
  <1>8. rows' \in Collection /\ (n.mine # {} => n.own \in Collection) /\ \A x \in ObjectIds : CleanRow(rows'[x])
    BY <1>1, <1>5 DEF ObjectInv, ObjectTypes, Kept
  <1> QED
    BY <1>1, <1>3, <1>4, <1>5, <1>7, <1>8, ObjectsStep

\* A call fails; a transaction may be lost to a conflict at that.
LEMMA ObjectsFail ==
  ASSUME Objects!Constants, ObjectInv, NEW h \in Slots, req[h].st \in {"run", "thrown"},
         NEW k \in DOMAIN req[h].calls, NEW n,
         \/ n = Objects!Failing(req[h], k)
         \/ n = [Objects!Failing(req[h], k) EXCEPT !.dead = TRUE, !.mine = {}],
         req' = [req EXCEPT ![h] = n], Objects!Spoilt(req[h]),
         UNCHANGED <<load, rows, known, calls, executed, stored>>,
         \A e \in published' \cup pending' :
           \/ e \in published \cup pending
           \/ /\ e.tag \in stored
              /\ OneByOne => load.live /\ (e.op # "delete" => e.told = e.result)
  PROVE  ObjectInv'
  <1>1. PICK q : q = req[h]
    OBVIOUS
  <1>2. q \in ObjectRequest /\ q.calls[k] \in ObjectCall
    BY <1>1, CallReplaced DEF ObjectInv, ObjectTypes, ObjectRequest
  <1>3. PICK c : c = [q.calls[k] EXCEPT !.failed = TRUE, !.at = "done"]
    OBVIOUS
  <1>4. c \in ObjectCall /\ c.failed /\ c.at = "done" /\ c.tag = q.calls[k].tag
    BY <1>2, <1>3 DEF ObjectCall
  <1>5. PICK f : f = [q EXCEPT !.calls[k] = c]
    OBVIOUS
  <1>6. f = Objects!Failing(q, k)
    BY <1>1, <1>2, <1>3, <1>5 DEF Objects!Failing, ObjectRequest
  <1>7. f \in ObjectRequest /\ f.calls = [q.calls EXCEPT ![k] = c]
    BY <1>1, <1>2, <1>4, <1>5, CallReplaced
  <1>8. f.st = q.st /\ f.tx = q.tx /\ f.base = q.base /\ f.mine = q.mine /\ f.own = q.own
    BY <1>2, <1>5 DEF ObjectRequest
  <1>9. n = f \/ n = [f EXCEPT !.dead = TRUE, !.mine = {}]
    BY <1>1, <1>6
  <1>10. /\ n \in ObjectRequest /\ n.calls = [q.calls EXCEPT ![k] = c]
         /\ n.st = q.st /\ n.tx = q.tx /\ n.base = q.base /\ n.mine \in {{}, q.mine} /\ n.own = q.own
    BY <1>7, <1>8, <1>9 DEF ObjectRequest
  <1>11. Objects!Tags(n) = Objects!Tags(q)
    BY <1>1, <1>2, <1>4, <1>10, SameTags
  <1>12. KeptBy(n)
    BY <1>1, <1>10, <1>11 DEF ObjectInv, Kept, KeptBy
  <1>13. rows' \in Collection /\ (n.mine # {} => n.own \in Collection) /\ \A x \in ObjectIds : CleanRow(rows'[x])
    BY <1>1, <1>10 DEF ObjectInv, ObjectTypes, Kept
  <1>14. c.failed /\ undone' = IF req[h].tx THEN undone \cup Objects!Tags(req[h]) ELSE undone
    BY <1>4 DEF Objects!Spoilt
  <1>15. ReadAsStored(c, rows')
    BY <1>4 DEF ReadAsStored
  <1>16. /\ n \in ObjectRequest /\ n.calls = [req[h].calls EXCEPT ![k] = c] /\ n.st = req[h].st /\ n.tx = req[h].tx
         /\ c \in ObjectCall /\ c.tag = req[h].calls[k].tag /\ c.at # "after" /\ stored \subseteq stored'
    BY <1>1, <1>4, <1>10
  <1>17. UNCHANGED <<load, known, calls, executed>>
    OBVIOUS
  <1>18. \/ undone' = undone /\ c.failed = req[h].calls[k].failed
         \/ c.failed /\ undone' = IF req[h].tx THEN undone \cup Objects!Tags(req[h]) ELSE undone
    BY <1>14
  <1>19. \A e \in published' \cup pending' :
           \/ e \in published \cup pending
           \/ /\ e.tag \in stored'
              /\ OneByOne => load.live /\ (e.op # "delete" => e.told = e.result)
    OBVIOUS
  <1>20. (c.at = "after" => c.tag \in stored') /\ (OneByOne => ReadAsStored(c, rows'))
    BY <1>15, <1>16
  <1> QED
    BY <1>12, <1>13, <1>16, <1>17, <1>18, <1>19, <1>20, ObjectsStep, ZenonT(60)

LEMMA ObjectsRefuse ==
  ASSUME Objects!Constants, ObjectInv, NEW h \in Slots, req[h].st \in {"run", "thrown"},
         NEW k \in DOMAIN req[h].calls, Objects!Refuse(h, k),
         UNCHANGED <<load, rows, known, calls, executed, stored>>,
         \A e \in published' \cup pending' :
           \/ e \in published \cup pending
           \/ /\ e.tag \in stored
              /\ OneByOne => load.live /\ (e.op # "delete" => e.told = e.result)
  PROVE  ObjectInv'
  <1>1. PICK n : n = Objects!Failing(req[h], k)
    OBVIOUS
  <1>2. req' = [req EXCEPT ![h] = n] /\ Objects!Spoilt(req[h])
    BY <1>1 DEF Objects!Refuse, ObjectInv, ObjectTypes
  <1> QED
    BY <1>1, <1>2, ObjectsFail, ZenonT(60)

\* A call of a request that is served, and what is known of it when all calls come one by one.
LEMMA ObjectsAt ==
  ASSUME Objects!Constants, ObjectInv, NEW h \in Slots, NEW k \in DOMAIN req[h].calls, NEW reached,
         Objects!At(h, k, reached)
  PROVE  /\ req[h].st \in {"run", "thrown"} /\ req[h] \in ObjectRequest
         /\ req[h].calls[k] \in ObjectCall /\ req[h].calls[k].at = reached
         /\ OneByOne => (ReadAsStored(req[h].calls[k], rows) /\ ~ req[h].tx)
  <1>1. req[h] \in ObjectRequest /\ req[h].calls[k] \in ObjectCall
    BY CallReplaced DEF ObjectInv, ObjectTypes, ObjectRequest
  <1> QED
    BY <1>1 DEF Objects!At, ObjectInv, EventsExact

LEMMA ObjectsReadOriginal ==
  ASSUME Objects!Constants, ObjectInv, NEW h \in Slots, NEW k \in DOMAIN req[h].calls,
         Objects!ReadOriginal(h, k)
  PROVE  ObjectInv'
  <1>1. PICK c : c = req[h].calls[k]
    OBVIOUS
  <1>2. /\ UNCHANGED <<load, rows, known, calls, executed, stored, pending, published>>
        /\ Objects!At(h, k, "original")
    BY DEF Objects!ReadOriginal, Objects!Counted
  <1>3. c \in ObjectCall /\ rows[c.id] \in Objects!Values
    BY <1>1, <1>2, ObjectsAt DEF ObjectCall, ObjectInv, ObjectTypes, Collection
  <1>4. PICK d : d = [c EXCEPT !.original = rows[c.id], !.at = IF load.triggers THEN "before" ELSE "store"]
    OBVIOUS
  <1>5. /\ d \in ObjectCall /\ d.tag = c.tag /\ d.failed = c.failed /\ d.at \in {"before", "store"}
        /\ d.id = c.id /\ d.original = rows[c.id]
    BY <1>3, <1>4 DEF ObjectCall
  <1>6. ReadAsStored(d, rows)
    BY <1>5 DEF ReadAsStored
  <1>7. Objects!Refuse(h, k) \/ Objects!Go(h, k, d)
    BY <1>1, <1>4 DEF Objects!ReadOriginal
  <1>8. CASE Objects!Refuse(h, k)
    BY <1>2, <1>8, ObjectsAt, ObjectsRefuse
  <1>9. CASE Objects!Go(h, k, d)
    BY <1>1, <1>2, <1>5, <1>6, <1>9, ObjectsAt, ObjectsGo
  <1> QED
    BY <1>7, <1>8, <1>9

LEMMA ObjectsBefore ==
  ASSUME Objects!Constants, ObjectInv, NEW h \in Slots, NEW k \in DOMAIN req[h].calls,
         Objects!Before(h, k)
  PROVE  ObjectInv'
  <1>1. PICK c : c = req[h].calls[k]
    OBVIOUS
  <1>2. /\ UNCHANGED <<load, rows, known, calls, executed, stored, pending, published>>
        /\ Objects!At(h, k, "before")
    BY Zenon DEF Objects!Before, Objects!Counted
  <1>3. CASE Objects!Refuse(h, k)
    BY <1>2, <1>3, ObjectsAt, ObjectsRefuse
  <1>4. CASE \E more \in {{}, Fields} : Objects!Go(h, k, [c EXCEPT !.sets = c.sets \cup more, !.at = "store"])
    <2>1. PICK more \in {{}, Fields} : Objects!Go(h, k, [c EXCEPT !.sets = c.sets \cup more, !.at = "store"])
      BY <1>4
    <2>2. PICK d : d = [c EXCEPT !.sets = c.sets \cup more, !.at = "store"]
      OBVIOUS
    <2>3. c \in ObjectCall /\ c.at = "before" /\ (OneByOne => ReadAsStored(c, rows))
      BY <1>1, <1>2, ObjectsAt
    <2>4. /\ d \in ObjectCall /\ d.tag = c.tag /\ d.failed = c.failed /\ d.at = "store"
          /\ d.id = c.id /\ d.original = c.original
      BY <2>2, <2>3 DEF ObjectCall
    <2>5. OneByOne => ReadAsStored(d, rows)
      BY <2>3, <2>4 DEF ReadAsStored
    <2> QED
      BY <1>1, <1>2, <2>1, <2>2, <2>4, <2>5, ObjectsAt, ObjectsGo
  <1> QED
    BY <1>1, <1>3, <1>4, Zenon DEF Objects!Before

\* What is told of a call that has been stored: one that was, and as it was.
LEMMA ObjectsAfter ==
  ASSUME Objects!Constants, ObjectInv, NEW h \in Slots, NEW k \in DOMAIN req[h].calls,
         Objects!After(h, k)
  PROVE  ObjectInv'
  <1>1. PICK c : c = req[h].calls[k]
    OBVIOUS
  <1>2. UNCHANGED <<load, rows, known, calls, executed, stored>> /\ Objects!At(h, k, "after")
    BY DEF Objects!After, Objects!Counted
  <1>3. c \in ObjectCall /\ c.at = "after" /\ (OneByOne => ReadAsStored(c, rows)) /\ req[h].st \in {"run", "thrown"}
    BY <1>1, <1>2, ObjectsAt
  <1>4. PICK e : e = Objects!Event(c)
    OBVIOUS
  <1>5. published' \cup pending' \subseteq published \cup pending \cup (IF load.live THEN {e} ELSE {})
    BY <1>1, <1>4 DEF Objects!After
  <1>6. e.tag = c.tag /\ e.op = c.op /\ e.told = Objects!Told(c) /\ e.result = c.result
    BY <1>4 DEF Objects!Event
  <1>7. e.tag \in stored
    BY <1>1, <1>3, <1>6 DEF ObjectInv, EventsStored
  <1>8. OneByOne /\ load.live => (e.op # "delete" => e.told = e.result)
    BY <1>3, <1>6 DEF ReadAsStored, Objects!Watched
  <1>9. \A x \in published' \cup pending' :
          \/ x \in published \cup pending
          \/ /\ x.tag \in stored
             /\ OneByOne => load.live /\ (x.op # "delete" => x.told = x.result)
    BY <1>5, <1>7, <1>8
  <1>10. CASE Objects!Refuse(h, k)
    BY <1>2, <1>3, <1>9, <1>10, ObjectsRefuse
  <1>11. CASE Objects!Go(h, k, [c EXCEPT !.at = "done"])
    <2>1. PICK d : d = [c EXCEPT !.at = "done"]
      OBVIOUS
    <2>2. d \in ObjectCall /\ d.tag = c.tag /\ d.failed = c.failed /\ d.at = "done"
      BY <1>3, <2>1 DEF ObjectCall
    <2>3. ReadAsStored(d, rows)
      BY <2>2 DEF ReadAsStored
    <2> QED
      BY <1>1, <1>2, <1>3, <1>9, <1>11, <2>1, <2>2, <2>3, ObjectsGo
  <1> QED
    BY <1>1, <1>10, <1>11 DEF Objects!After

\* What a call writes over the row as it sees it: its own number, and what was there.
LEMMA Composed ==
  ASSUME Objects!Constants, NEW old \in Objects!Values, NEW c \in ObjectCall
  PROVE  /\ Objects!Onto(old, c) \in Objects!Values
         /\ \A f \in Fields : \/ Objects!Onto(old, c)[f] \in {c.tag, 0}
                             \/ (old # None /\ Objects!Onto(old, c)[f] = old[f])
  BY DEF Objects!Onto, Objects!Values, ObjectCall

\* What a call writes: a value of the class, of itself, of its transaction or clean.
LEMMA Written ==
  ASSUME Objects!Constants, ObjectInv, NEW h \in Slots, NEW c \in ObjectCall
  PROVE  /\ Objects!Outcome(h, c) \in Objects!Values
         /\ Objects!Outcome(h, c) # None => \A f \in Fields :
              \/ Objects!Outcome(h, c)[f] = c.tag
              \/ Clean(Objects!Outcome(h, c)[f])
              \/ (req[h].tx /\ Objects!Outcome(h, c)[f] \in Objects!Tags(req[h]))
  <1>1. PICK old : old = Objects!Now(h, c.id)
    OBVIOUS
  <1>2. c.id \in ObjectIds /\ req[h] \in ObjectRequest /\ rows \in Collection
    BY DEF ObjectCall, ObjectInv, ObjectTypes
  <1>3. Objects!Snapshot(req[h]) \in Collection /\ CleanRow(Objects!Snapshot(req[h])[c.id])
    BY <1>2 DEF Objects!Snapshot, ObjectRequest, ObjectInv, Kept, KeptBy
  <1>4. req[h].mine # {} => req[h].own \in Collection
    BY <1>2 DEF ObjectRequest, ObjectInv, ObjectTypes
  <1>5. old \in Objects!Values
    BY <1>1, <1>2, <1>3, <1>4 DEF Objects!Now, Collection
  <1>6. ASSUME old # None, NEW f \in Fields
        PROVE  Clean(old[f]) \/ (req[h].tx /\ old[f] \in Objects!Tags(req[h]))
    <2>1. CASE ~ req[h].tx
      BY <1>1, <1>2, <1>6, <2>1 DEF Objects!Now, CleanRow, ObjectInv, Kept
    <2>2. CASE req[h].tx /\ c.id \in req[h].mine
      BY <1>1, <1>2, <1>6, <2>2 DEF Objects!Now, ObjectInv, Kept, KeptBy
    <2>3. CASE req[h].tx /\ c.id \notin req[h].mine
      BY <1>1, <1>3, <1>6, <2>3 DEF Objects!Now, CleanRow
    <2> QED
      BY <2>1, <2>2, <2>3
  <1>7. Clean(0)
    BY DEF Clean, ObjectInv, ObjectTypes, TagsInOrder
  <1>8. CASE c.op = "delete"
    BY <1>8 DEF Objects!Outcome, Objects!Values
  <1>9. CASE c.op # "delete"
    <2>1. Objects!Outcome(h, c) = Objects!Onto(old, c)
      BY <1>1, <1>9 DEF Objects!Outcome
    <2>2. \A f \in Fields : \/ Objects!Onto(old, c)[f] \in {c.tag, 0}
                            \/ (old # None /\ Objects!Onto(old, c)[f] = old[f])
      BY <1>5, Composed
    <2> QED
      BY <1>5, <1>6, <1>7, <2>1, <2>2, Composed
  <1> QED
    BY <1>8, <1>9

\* A write outside of a transaction is seen by all; one in a transaction by itself.
LEMMA ObjectsStore ==
  ASSUME Objects!Constants, ObjectInv, NEW h \in Slots, NEW k \in DOMAIN req[h].calls,
         Objects!Store(h, k)
  PROVE  ObjectInv'
  <1>1. PICK q : q = req[h]
    OBVIOUS
  <1>2. PICK c : c = q.calls[k]
    OBVIOUS
  <1>3. /\ UNCHANGED <<load, known, calls, executed, pending, published>>
        /\ Objects!At(h, k, "store")
    BY Zenon DEF Objects!Store, Objects!Counted
  <1>4. /\ req[h].st \in {"run", "thrown"} /\ q \in ObjectRequest /\ c \in ObjectCall /\ c.at = "store"
        /\ OneByOne => (ReadAsStored(c, rows) /\ ~ q.tx)
    BY <1>1, <1>2, <1>3, ObjectsAt
  <1> DEFINE Doomed == req[h].tx /\ (req[h].dead \/ Objects!Conflict(h, req[h].calls[k].id))
             Missing == req[h].calls[k].op # "create" /\ Objects!Now(h, req[h].calls[k].id) = None
             new == Objects!Outcome(h, req[h].calls[k])
  <1>5. CASE Doomed
    <2>1. /\ req' = [req EXCEPT ![h] = [Objects!Failing(req[h], k) EXCEPT !.dead = TRUE, !.mine = {}]]
          /\ Objects!Spoilt(req[h]) /\ UNCHANGED <<rows, stored>>
      BY <1>5, Zenon DEF Objects!Store
    <2>2. PICK n : n = [Objects!Failing(req[h], k) EXCEPT !.dead = TRUE, !.mine = {}]
      OBVIOUS
    <2>3. UNCHANGED <<load, rows, known, calls, executed, stored>> /\ UNCHANGED <<published, pending>>
      BY <1>3, <2>1
    <2> QED
      BY <1>4, <2>1, <2>2, <2>3, ObjectsFail, ZenonT(60)
  <1>6. CASE ~ Doomed /\ Missing
    <2>1. Objects!Refuse(h, k) /\ UNCHANGED <<rows, stored>>
      BY <1>6, Zenon DEF Objects!Store
    <2>2. UNCHANGED <<load, rows, known, calls, executed, stored>> /\ UNCHANGED <<published, pending>>
      BY <1>3, <2>1
    <2> QED
      BY <1>4, <2>1, <2>2, ObjectsRefuse, ZenonT(60)
  <1>7. CASE ~ Doomed /\ ~ Missing
    <2>1. /\ req' = [req EXCEPT ![h] = Objects!Stored(req[h], k, new)]
          /\ rows' = IF req[h].tx THEN rows ELSE [rows EXCEPT ![req[h].calls[k].id] = new]
          /\ stored' = stored \cup {req[h].calls[k].tag} /\ UNCHANGED undone
      BY <1>7, Zenon DEF Objects!Store
    <2>2. PICK v : v = new
      OBVIOUS
    <2>3. v \in Objects!Values /\ (v # None => \A f \in Fields :
             v[f] = c.tag \/ Clean(v[f]) \/ (q.tx /\ v[f] \in Objects!Tags(q)))
      BY <1>1, <1>2, <1>4, <2>2, Written
    <2>4. c.tag \in Objects!Tags(q) /\ c.id \in ObjectIds
      BY <1>1, <1>2, <1>4 DEF Objects!Tags, ObjectCall
    <2>5. PICK d : d = [c EXCEPT !.result = v, !.at = IF Objects!Watched THEN "after" ELSE "done"]
      OBVIOUS
    <2>6. /\ d \in ObjectCall /\ d.tag = c.tag /\ d.failed = c.failed /\ d.op = c.op /\ d.sets = c.sets
          /\ d.original = c.original /\ d.result = v
          /\ d.at = IF Objects!Watched THEN "after" ELSE "done"
      BY <1>4, <2>3, <2>5 DEF ObjectCall
    <2>7. PICK r : r = [q EXCEPT !.calls[k] = d]
      OBVIOUS
    <2>8. r \in ObjectRequest /\ r.calls = [q.calls EXCEPT ![k] = d]
      BY <1>1, <1>4, <2>6, <2>7, CallReplaced
    <2>9. r.st = q.st /\ r.tx = q.tx /\ r.base = q.base /\ r.mine = q.mine /\ r.own = q.own
      BY <1>4, <2>7 DEF ObjectRequest
    <2>10. PICK own : own = [x \in ObjectIds |-> IF x = c.id THEN v ELSE IF x \in q.mine THEN q.own[x] ELSE None]
      OBVIOUS
    <2>11. PICK n : n = IF ~ q.tx THEN r
                        ELSE [r EXCEPT !.base = Objects!Snapshot(q), !.mine = r.mine \cup {c.id}, !.own = own]
      OBVIOUS
    <2>12. req' = [req EXCEPT ![h] = n]
      BY <1>1, <1>2, <2>1, <2>2, <2>5, <2>7, <2>10, <2>11 DEF Objects!Stored
    <2>13. q.mine # {} => q.own \in Collection
      BY <1>1, <1>4 DEF ObjectRequest, ObjectInv, ObjectTypes
    <2>14. own \in Collection
      BY <2>3, <2>10, <2>13 DEF Collection, Objects!Values
    <2>15. Objects!Snapshot(q) \in Collection /\ \A x \in ObjectIds : CleanRow(Objects!Snapshot(q)[x])
      BY <1>1, <1>4 DEF Objects!Snapshot, ObjectRequest, ObjectInv, ObjectTypes, Kept, KeptBy
    <2>16. /\ n \in ObjectRequest /\ n.calls = [q.calls EXCEPT ![k] = d] /\ n.st = q.st /\ n.tx = q.tx
           /\ q.tx => (n.base = Objects!Snapshot(q) /\ n.mine = q.mine \cup {c.id} /\ n.own = own)
           /\ ~ q.tx => (n.base = q.base /\ n.mine = q.mine /\ n.own = q.own)
      BY <2>4, <2>8, <2>9, <2>11, <2>14, <2>15 DEF ObjectRequest
    <2>17. Objects!Tags(n) = Objects!Tags(q)
      BY <1>1, <1>2, <1>4, <2>6, <2>16, SameTags
    <2>18. n.mine # {} => n.own \in Collection
      BY <2>13, <2>14, <2>16
    <2>19. KeptBy(n)
      <3>1. n.base # None => \A x \in ObjectIds : CleanRow(n.base[x])
        BY <1>1, <2>15, <2>16 DEF ObjectInv, Kept, KeptBy
      <3>2. ASSUME NEW x \in n.mine, NEW f \in Fields, n.own[x] # None
            PROVE  Clean(n.own[x][f]) \/ n.own[x][f] \in Objects!Tags(n)
        <4>1. CASE q.tx /\ x = c.id
          BY <2>3, <2>4, <2>10, <2>16, <2>17, <3>2, <4>1
        <4>2. CASE x \in q.mine /\ n.own[x] = q.own[x]
          BY <1>1, <2>17, <3>2, <4>2 DEF ObjectInv, Kept, KeptBy
        <4>3. x \in ObjectIds
          BY <2>16, <3>2 DEF ObjectRequest
        <4> QED
          BY <2>10, <2>16, <3>2, <4>1, <4>2, <4>3
      <3> QED
        BY <3>1, <3>2 DEF KeptBy
    <2>20. rows' \in Collection /\ \A x \in ObjectIds : CleanRow(rows'[x])
      <3>1. CASE q.tx
        BY <1>1, <2>1, <3>1 DEF ObjectInv, ObjectTypes, Kept
      <3>2. CASE ~ q.tx
        <4>1. rows' = [rows EXCEPT ![c.id] = v] /\ rows \in Collection
          BY <1>1, <1>2, <2>1, <2>2, <3>2 DEF ObjectInv, ObjectTypes
        <4>2. Clean(c.tag)
          BY <1>1, <1>4, <2>4, <3>2 DEF Clean, Lost, ObjectInv, ObjectTypes, TagsInOrder
        <4>3. CleanRow(v)
          BY <2>3, <3>2, <4>2 DEF CleanRow
        <4>4. \A x \in ObjectIds : rows'[x] = v \/ rows'[x] = rows[x]
          BY <4>1 DEF Collection
        <4>5. \A x \in ObjectIds : CleanRow(rows[x])
          BY DEF ObjectInv, Kept
        <4>6. \A x \in ObjectIds : CleanRow(rows'[x])
          BY <4>3, <4>4, <4>5
        <4> QED
          BY <2>3, <4>1, <4>6 DEF Collection
      <3> QED
        BY <3>1, <3>2
    <2>21. OneByOne => ReadAsStored(d, rows')
      <3> SUFFICES ASSUME OneByOne, Objects!Watched, c.op # "delete" PROVE v = Objects!Told(d)
        BY <2>6 DEF ReadAsStored
      <3>1. c.original = rows[c.id] /\ ~ q.tx
        BY <1>4 DEF ReadAsStored
      <3>2. v = Objects!Onto(c.original, c)
        BY <1>1, <1>2, <2>2, <3>1 DEF Objects!Outcome, Objects!Now
      <3>3. Objects!Told(d) = Objects!Onto(c.original, c)
        BY <2>6 DEF Objects!Told, Objects!Onto
      <3> QED
        BY <3>2, <3>3
    <2>22. UNCHANGED <<load, known, calls, executed>> /\ published' \cup pending' = published \cup pending
      BY <1>3
    <2>23. d.tag \in stored' /\ stored \subseteq stored' /\ undone' = undone
      BY <1>1, <1>2, <2>1, <2>6
    <2>24. /\ n.calls = [req[h].calls EXCEPT ![k] = d] /\ n.st = req[h].st /\ n.tx = req[h].tx
           /\ d.tag = req[h].calls[k].tag /\ d.failed = req[h].calls[k].failed
      BY <1>1, <1>2, <2>6, <2>16
    <2> HIDE DEF Doomed, Missing, new
    <2> QED
      BY <1>4, <2>6, <2>12, <2>16, <2>18, <2>19, <2>20, <2>21, <2>22, <2>23, <2>24, ObjectsStep
  <1> QED
    BY <1>5, <1>6, <1>7

LEMMA ObjectsStay == ASSUME Objects!Constants, ObjectInv, UNCHANGED Objects!vars PROVE ObjectInv'
  <1>1. UNCHANGED <<load, rows, req, calls, stored, undone, pending, published, known, executed>>
    BY DEF Objects!vars
  <1>2. Once'
    BY <1>1 DEF ObjectInv, Once
  <1>3. EventsStored'
    BY <1>1, ObjectsAside DEF ObjectInv, EventsStored
  <1>4. OneByOne' => EventsExact'
    BY <1>1, ObjectsAside DEF ObjectInv, EventsExact
  <1> QED
    BY <1>1, <1>2, <1>3, <1>4, ObjectsAside DEF ObjectInv

\* The two properties of writes: of what is in the rows, and of what live queries are told.

LEMMA ObjectsInvariant == ASSUME Objects!Constants PROVE Objects!Spec => []ObjectInv
  <1>1. ObjectInv /\ [Objects!Next]_Objects!vars => ObjectInv'
    <2> SUFFICES ASSUME ObjectInv, [Objects!Next]_Objects!vars PROVE ObjectInv'
      OBVIOUS
    <2>1. CASE UNCHANGED Objects!vars
      BY <2>1, ObjectsStay
    <2>2. CASE Objects!Next
      <3>1. ASSUME NEW h \in Slots, Objects!Arrive(h) \/ Objects!Reserve(h) \/ Objects!Finish(h) \/ Objects!Forget(h)
            PROVE  ObjectInv'
        BY <3>1, ObjectsArrive, ObjectsReserve, ObjectsFinish, ObjectsForget
      <3>2. ASSUME NEW h \in Slots, NEW k \in DOMAIN req[h].calls,
                   \/ Objects!ReadOriginal(h, k)
                   \/ Objects!Before(h, k)
                   \/ Objects!Store(h, k)
                   \/ Objects!After(h, k)
            PROVE  ObjectInv'
        BY <3>2, ObjectsReadOriginal, ObjectsBefore, ObjectsStore, ObjectsAfter
      <3> QED
        BY <2>2, <3>1, <3>2, ObjectsCrash, ObjectsExpireId, ObjectsPublish DEF Objects!Next
    <2> QED
      BY <2>1, <2>2
  <1> QED
    BY ObjectsAtStart, <1>1, PTL DEF Objects!Spec

\* Whatever overlaps, fails, throws or stops: nothing of a transaction that was given up is
\* ever in the rows (batch.js, and the sessions of the adapters), and no request id is let
\* through twice while it is kept (promiseEnsureIdempotency).
THEOREM ObjectsWholeAndOnce == ASSUME Objects!Constants PROVE Objects!Spec => []WholeAndOnce
  <1>1. ObjectInv => WholeAndOnce
    <2> SUFFICES ASSUME ObjectInv PROVE Objects!AllOrNothing /\ Objects!AtMostOnce
      BY DEF WholeAndOnce, Objects!WholeAndOnce
    <2>1. Objects!AllOrNothing
      BY DEF ObjectInv, Kept, CleanRow, Clean, Objects!AllOrNothing
    <2>2. Objects!AtMostOnce
      BY DEF ObjectInv, Once, Objects!AtMostOnce
    <2> QED
      BY <2>1, <2>2
  <1> QED
    BY <1>1, ObjectsInvariant, PTL

\* Without transactions live queries are only told of writes that were made (RestWrite.js,
\* runAfterSaveTrigger); of calls that come one by one they are told the object as it was
\* stored, which is made of the original, read before the triggers ran, and of the data of
\* the call.
THEOREM ObjectsPublishedWereStored ==
  ASSUME Objects!Constants PROVE Objects!Spec => []PublishedWasStored
  <1>1. ObjectInv => PublishedWasStored
    BY DEF ObjectInv, EventsStored, OneByOne, EventsExact, PublishedWasStored, Objects!PublishedWasStored
  <1> QED
    BY <1>1, ObjectsInvariant, PTL


-----------------------------------------------------------------------------
(***************************************************************************)
(* Session and role caches.                                                *)
(***************************************************************************)
AuthEdges == (Users \cup Roles) \X Roles
AuthRequest ==
  [at : {"idle", "session", "include", "user", "roles", "parents", "cache", "forget", "clear", "write",
         "follow", "purge", "clearAll"},
   token : Tokens \cup {None}, user : Users \cup {None}, version : {0}, names : SUBSET Roles,
   asked : SUBSET Roles, next : SUBSET Roles,
   kind : {"logOut", "duplicate", "user", "password", "direct", "deleteUser", "role", "deleteRole", "purge", None},
   edge : AuthEdges \cup {None}, always : SUBSET AuthEdges, ever : SUBSET AuthEdges]
UserVersion == Nat \cup {None}
AuthEntry == [value : Nat \cup {None} \cup (SUBSET Roles), left : Nat]
AuthTypes ==
  /\ load \in AuthLoads /\ rows \subseteq Tokens /\ version \in [Users -> UserVersion] /\ grants \subseteq AuthEdges
  /\ entries \in [Auth!Keys -> AuthEntry] /\ req \in [Slots -> AuthRequest]

\* What a request has at each stage.
Equipped(r) ==
  /\ r.at \in {"session", "include"} => r.token \in Tokens
  /\ r.at = "include" => r.user = Owner[r.token]
  /\ r.at \in {"user", "roles", "parents", "cache", "follow"} => r.user \in Users
  /\ r.at = "forget" => r.kind \in {"logOut", "user", "password"}
  /\ r.at = "clear" => r.kind = "role" /\ r.edge \in AuthEdges
  /\ r.at \in {"forget", "write"} =>
       \/ r.kind \in {"logOut", "duplicate"} /\ r.token \in Tokens
       \/ r.kind \in {"user", "password", "direct", "deleteUser"} /\ r.user \in Users
       \/ r.kind \in {"role", "deleteRole"} /\ r.edge \in AuthEdges

\* A load of roles has found what was reached all the while from the user and from the roles
\* it has asked about, and nothing that was never reached.
Loaded(r) ==
  /\ r.at \in {"session", "include", "user", "roles"} => r.asked = {}
  /\ r.at \in {"parents", "cache"} =>
       /\ r.names \subseteq Auth!Reach(r.user, r.ever)
       /\ \A e \in r.always : e[1] = r.user \/ e[1] \in r.asked => e[2] \in r.names
  /\ r.at = "parents" => r.next \subseteq r.names /\ r.names \subseteq r.asked \cup r.next
  /\ r.at = "cache" => r.names \subseteq r.asked

\* Requests one by one, none of which leaves the cache alone: what the request has to
\* write next is not in the cache, and what it has read is still so.
Careful == load.alone /\ load.offers \cap Auth!Unannounced = {}
Timely(r) ==
  /\ r.at = "include" => r.token \in rows
  /\ r.at \in {"roles", "parents", "cache"} => r.always = grants /\ r.ever = grants
  /\ r.at = "write" =>
       /\ r.kind \notin Auth!Unannounced
       /\ r.kind = "logOut" => ~ Auth!Hit(r.token)
       /\ r.kind = "role" => \A u \in Users : ~ Auth!Hit(u)
  /\ (r.at = "write" /\ r.kind \in {"user", "password"}) \/ r.at = "follow" =>
       \A t \in Tokens : Owner[t] = r.user => ~ Auth!Hit(t)
UsersCurrent == \A t \in Tokens : Auth!UserCurrent(t)
RolesCurrent == \A u \in Users : Auth!RolesCurrent(u)
OneLoad ==
  /\ \A g, h \in Slots : req[g] # Auth!Idle /\ req[h] # Auth!Idle => g = h
  /\ \A h \in Slots : Timely(req[h])
  /\ UsersCurrent \/ \E h \in Slots : req[h].at = "clearAll"
  /\ RolesCurrent

AuthInv ==
  /\ AuthTypes /\ \A h \in Slots : Equipped(req[h]) /\ Loaded(req[h])
  /\ Careful => OneLoad

\* The roles reached are closed, the least such set, and no fewer by more relations.
LEMMA Reached ==
  ASSUME NEW x, NEW edges \in SUBSET AuthEdges
  PROVE  /\ Auth!Reach(x, edges) \subseteq Roles
         /\ \A e \in edges : e[1] = x \/ e[1] \in Auth!Reach(x, edges) => e[2] \in Auth!Reach(x, edges)
         /\ \A S \in SUBSET Roles : Auth!Closed(S, x, edges) => Auth!Reach(x, edges) \subseteq S
         /\ \A more \in SUBSET AuthEdges : edges \subseteq more => Auth!Reach(x, edges) \subseteq Auth!Reach(x, more)
  <1>1. \A e \in edges : e[2] \in Roles
    BY DEF AuthEdges
  <1>2. \A e \in edges : e[1] = x \/ e[1] \in Auth!Reach(x, edges) => e[2] \in Auth!Reach(x, edges)
    BY <1>1 DEF Auth!Reach, Auth!Closed
  <1>3. \A more \in SUBSET AuthEdges : edges \subseteq more => Auth!Reach(x, edges) \subseteq Auth!Reach(x, more)
    BY DEF Auth!Reach, Auth!Closed
  <1> QED
    BY <1>2, <1>3 DEF Auth!Reach

LEMMA AuthIdle ==
  /\ Auth!Idle \in AuthRequest /\ Equipped(Auth!Idle) /\ Loaded(Auth!Idle) /\ Timely(Auth!Idle)
  /\ Auth!Idle.at = "idle"
  BY DEF Auth!Idle, AuthRequest, Equipped, Loaded, Timely

LEMMA EmptyEntry == Auth!Empty \in AuthEntry /\ Auth!Empty.value = None
  <1>1. None \in Nat \cup {None} \cup (SUBSET Roles)
    OBVIOUS
  <1> QED
    BY <1>1, Zenon DEF Auth!Empty, AuthEntry

LEMMA AuthAtStart == ASSUME Auth!Constants, Auth!Init PROVE AuthInv
  <1>1. \A k \in Auth!Keys : entries[k] = Auth!Empty /\ entries[k].value = None
    BY EmptyEntry DEF Auth!Init
  <1>2. AuthTypes
    <2>1. entries \in [Auth!Keys -> AuthEntry]
      BY EmptyEntry DEF Auth!Init
    <2>2. load.grants \subseteq AuthEdges
      BY DEF Auth!Init, Auth!Constants, AuthEdges
    <2> QED
      BY <2>1, <2>2, AuthIdle DEF Auth!Init, AuthTypes, UserVersion
  <1>3. \A h \in Slots : req[h] = Auth!Idle
    BY DEF Auth!Init
  <1>4. UsersCurrent /\ RolesCurrent
    BY <1>1 DEF UsersCurrent, RolesCurrent, Auth!UserCurrent, Auth!RolesCurrent, Auth!Hit, Auth!Keys
  <1> QED
    BY <1>2, <1>3, <1>4, AuthIdle DEF AuthInv, OneLoad

\* What is to be shown of a step of one request.
LEMMA AuthStep ==
  ASSUME Auth!Constants, AuthInv, NEW h \in Slots, NEW n \in AuthRequest,
         req' = [req EXCEPT ![h] = n], Equipped(n), Loaded(n),
         load' = load, rows' \subseteq Tokens, version' \in [Users -> UserVersion], grants' \subseteq AuthEdges,
         entries' \in [Auth!Keys -> AuthEntry],
         load.alone => req[h] # Auth!Idle \/ Auth!AtRest,
         Careful => Timely(n)' /\ (UsersCurrent' \/ n.at = "clearAll") /\ RolesCurrent'
  PROVE  AuthInv'
  <1>1. AuthTypes' /\ \A k \in Slots : req'[k] = IF k = h THEN n ELSE req[k]
    BY DEF AuthInv, AuthTypes
  <1>2. (\A k \in Slots : Equipped(req[k]) /\ Loaded(req[k]))'
    BY <1>1 DEF AuthInv, Equipped, Loaded, Auth!Reach, Auth!Closed
  <1>3. Careful' <=> Careful
    BY DEF Careful
  <1>4. ASSUME Careful PROVE OneLoad'
    <2>1. \A k \in Slots \ {h} : req'[k] = Auth!Idle
      BY <1>1, <1>4 DEF Careful, AuthInv, OneLoad, Auth!AtRest
    <2>2. Timely(Auth!Idle)'
      BY AuthIdle DEF Timely
    <2>3. (\A k \in Slots : Timely(req[k]))'
      BY <1>1, <1>4, <2>1, <2>2
    <2>4. (\A g, k \in Slots : req[g] # Auth!Idle /\ req[k] # Auth!Idle => g = k)'
      BY <2>1 DEF Auth!Idle
    <2> QED
      BY <1>1, <1>4, <2>3, <2>4 DEF OneLoad
  <1> QED
    BY <1>1, <1>2, <1>3, <1>4 DEF AuthInv

\* Steps that read: the request goes on with n, the database stays.
LEMMA AuthRead ==
  ASSUME Auth!Constants, AuthInv, NEW h \in Slots, NEW n \in AuthRequest,
         Auth!Reading(h), UNCHANGED entries, Auth!Go(h, n), Equipped(n), Loaded(n),
         Careful => Timely(n), req[h].at # "clearAll"
  PROVE  AuthInv'
  <1>1. /\ req' = [req EXCEPT ![h] = n] /\ UNCHANGED <<load, rows, version, grants, entries>>
        /\ req[h] # Auth!Idle
    BY DEF Auth!Reading, Auth!Go, Auth!Idle
  <1>2. AuthTypes
    BY DEF AuthInv
  <1>3. ASSUME Careful PROVE Timely(n)' /\ UsersCurrent' /\ RolesCurrent'
    <2>1. UsersCurrent /\ RolesCurrent
      <3>1. \A k \in Slots : req[k].at = "clearAll" => k = h
        BY <1>1, <1>3 DEF AuthInv, OneLoad, Auth!Idle
      <3> QED
        BY <1>3, <3>1 DEF AuthInv, OneLoad
    <2> QED
      BY <1>1, <1>3, <2>1 DEF Timely, UsersCurrent, RolesCurrent, Auth!UserCurrent, Auth!RolesCurrent, Auth!Hit,
         Auth!Reach, Auth!Closed
  <1> QED
    BY <1>1, <1>2, <1>3, AuthStep DEF AuthTypes

\* Steps by which a request arrives, while its slot is idle and, if careful, all are.
LEMMA AuthArrive ==
  ASSUME Auth!Constants, AuthInv, NEW h \in Slots, NEW n \in AuthRequest,
         req' = [req EXCEPT ![h] = n], load.alone => Auth!AtRest,
         UNCHANGED <<load, rows, version, grants, entries>>, Equipped(n), Loaded(n), Careful => Timely(n)
  PROVE  AuthInv'
  <1>2. AuthTypes
    BY DEF AuthInv
  <1>3. ASSUME Careful PROVE Timely(n)' /\ UsersCurrent' /\ RolesCurrent'
    <2>1. UsersCurrent /\ RolesCurrent
      BY <1>3 DEF AuthInv, OneLoad, Careful, Auth!AtRest, Auth!Idle
    <2> QED
      BY <1>3, <2>1 DEF Timely, UsersCurrent, RolesCurrent, Auth!UserCurrent, Auth!RolesCurrent, Auth!Hit,
         Auth!Reach, Auth!Closed
  <1> QED
    BY <1>2, <1>3, AuthStep DEF AuthTypes

LEMMA AuthAuthenticate ==
  ASSUME Auth!Constants, AuthInv, NEW h \in Slots, Auth!Authenticate(h)
  PROVE  AuthInv'
  <1>1. PICK t \in Tokens :
          \/ Auth!Arrive(h, [Auth!Idle EXCEPT !.at = "user", !.user = Owner[t]])
          \/ Auth!Arrive(h, [Auth!Idle EXCEPT !.at = "session", !.token = t])
    BY Zenon DEF Auth!Authenticate
  <1>2. PICK n : /\ Auth!Arrive(h, n)
                 /\ \/ n = [Auth!Idle EXCEPT !.at = "user", !.user = Owner[t]]
                    \/ n = [Auth!Idle EXCEPT !.at = "session", !.token = t]
    BY <1>1, Zenon
  <1>3. UNCHANGED <<load, rows, version, grants, entries>>
    BY DEF Auth!Authenticate
  <1>4. (load.alone => Auth!AtRest) /\ req' = [req EXCEPT ![h] = n]
    BY <1>2 DEF Auth!Arrive, Auth!Go
  <1>5. Owner[t] \in Users
    BY DEF Auth!Constants
  <1>6. n \in AuthRequest
    BY <1>2, <1>5 DEF Auth!Idle, AuthRequest
  <1>7. Equipped(n) /\ Loaded(n) /\ Timely(n)
    BY <1>2, <1>5 DEF Auth!Idle, Equipped, Loaded, Timely
  <1> QED
    BY <1>3, <1>4, <1>6, <1>7, AuthArrive

\* Requests that write arrive with nothing removed and nothing written.
LEMMA AuthWriter ==
  ASSUME Auth!Constants, AuthInv, NEW h \in Slots, NEW kind, NEW r, NEW n \in AuthRequest,
         Auth!Writing(h, kind, r), n = [r EXCEPT !.kind = kind], Equipped(n), Loaded(n), Careful => Timely(n)
  PROVE  AuthInv'
  <1>1. UNCHANGED <<load, rows, version, grants, entries>>
    BY DEF Auth!Writing
  <1>2. Auth!Arrive(h, n)
    BY Zenon DEF Auth!Writing
  <1>3. (load.alone => Auth!AtRest) /\ req' = [req EXCEPT ![h] = n]
    BY <1>2 DEF Auth!Arrive, Auth!Go
  <1> QED
    BY <1>1, <1>3, AuthArrive

LEMMA AuthWriting ==
  ASSUME Auth!Constants, AuthInv, NEW h \in Slots,
         \/ Auth!LogOut(h) \/ Auth!LogInElsewhere(h) \/ Auth!ChangeUser(h) \/ Auth!ChangeDirectly(h)
         \/ Auth!ChangeRole(h) \/ Auth!DeleteRole(h) \/ Auth!Purge(h)
  PROVE  AuthInv'
  <1>1. CASE Auth!LogOut(h)
    <2>0. PICK t \in rows : Auth!Writing(h, "logOut", [Auth!Idle EXCEPT !.at = "forget", !.token = t])
      BY <1>1, Zenon DEF Auth!LogOut
    <2>1. PICK m : m = [Auth!Idle EXCEPT !.at = "forget", !.token = t] /\ Auth!Writing(h, "logOut", m)
      BY <2>0, Zenon
    <2>2. PICK n : n = [m EXCEPT !.kind = "logOut"]
      OBVIOUS
    <2>3. t \in Tokens
      BY DEF AuthInv, AuthTypes
    <2>5. n \in AuthRequest
      BY <2>1, <2>2, <2>3 DEF Auth!Idle, AuthRequest
    <2>6. Equipped(n) /\ Loaded(n) /\ Timely(n)
      BY <2>1, <2>2, <2>3 DEF Auth!Idle, Equipped, Loaded, Timely
    <2> QED
      BY <2>1, <2>2, <2>5, <2>6, AuthWriter
  <1>2. CASE Auth!LogInElsewhere(h)
    <2>0. PICK t \in rows : Auth!Writing(h, "duplicate", [Auth!Idle EXCEPT !.at = "write", !.token = t])
      BY <1>2, Zenon DEF Auth!LogInElsewhere
    <2>1. PICK m : m = [Auth!Idle EXCEPT !.at = "write", !.token = t] /\ Auth!Writing(h, "duplicate", m)
      BY <2>0, Zenon
    <2>2. PICK n : n = [m EXCEPT !.kind = "duplicate"]
      OBVIOUS
    <2>3. t \in Tokens
      BY DEF AuthInv, AuthTypes
    <2>4. ~ Careful
      BY <2>1 DEF Auth!Writing, Careful, Auth!Unannounced
    <2>5. n \in AuthRequest
      BY <2>1, <2>2, <2>3 DEF Auth!Idle, AuthRequest
    <2>6. Equipped(n) /\ Loaded(n)
      BY <2>1, <2>2, <2>3 DEF Auth!Idle, Equipped, Loaded
    <2> QED
      BY <2>1, <2>2, <2>4, <2>5, <2>6, AuthWriter
  <1>3. CASE Auth!ChangeUser(h)
    <2>0. PICK u \in Users, k \in {"user", "password"} : Auth!Writing(h, k, [Auth!Idle EXCEPT !.at = "forget", !.user = u])
      BY <1>3, Zenon DEF Auth!ChangeUser
    <2>1. PICK m : m = [Auth!Idle EXCEPT !.at = "forget", !.user = u] /\ Auth!Writing(h, k, m)
      BY <2>0, Zenon
    <2>2. PICK n : n = [m EXCEPT !.kind = k]
      OBVIOUS
    <2>5. n \in AuthRequest
      BY <2>1, <2>2 DEF Auth!Idle, AuthRequest
    <2>6. Equipped(n) /\ Loaded(n) /\ Timely(n)
      BY <2>1, <2>2 DEF Auth!Idle, Equipped, Loaded, Timely
    <2> QED
      BY <2>1, <2>2, <2>5, <2>6, AuthWriter
  <1>4. CASE Auth!ChangeRole(h)
    <2>0. PICK e \in load.edges : Auth!Writing(h, "role", [Auth!Idle EXCEPT !.at = "clear", !.edge = e])
      BY <1>4, Zenon DEF Auth!ChangeRole
    <2>1. PICK m : m = [Auth!Idle EXCEPT !.at = "clear", !.edge = e] /\ Auth!Writing(h, "role", m)
      BY <2>0, Zenon
    <2>2. PICK n : n = [m EXCEPT !.kind = "role"]
      OBVIOUS
    <2>3. e \in AuthEdges
      BY DEF Auth!Constants, AuthInv, AuthTypes, AuthEdges
    <2>5. n \in AuthRequest
      BY <2>1, <2>2, <2>3 DEF Auth!Idle, AuthRequest
    <2>6. Equipped(n) /\ Loaded(n) /\ Timely(n)
      BY <2>1, <2>2, <2>3 DEF Auth!Idle, Equipped, Loaded, Timely
    <2> QED
      BY <2>1, <2>2, <2>5, <2>6, AuthWriter
  <1>5. CASE Auth!DeleteRole(h)
    <2>0. PICK r \in Roles : Auth!Writing(h, "deleteRole", [Auth!Idle EXCEPT !.at = "write", !.edge = <<r, r>>])
      BY <1>5, Zenon DEF Auth!DeleteRole
    <2>1. PICK m : m = [Auth!Idle EXCEPT !.at = "write", !.edge = <<r, r>>] /\ Auth!Writing(h, "deleteRole", m)
      BY <2>0, Zenon
    <2>2. PICK n : n = [m EXCEPT !.kind = "deleteRole"]
      OBVIOUS
    <2>3. <<r, r>> \in AuthEdges
      BY DEF AuthEdges
    <2>4. ~ Careful
      BY <2>1 DEF Auth!Writing, Careful, Auth!Unannounced
    <2>5. n \in AuthRequest
      BY <2>1, <2>2, <2>3 DEF Auth!Idle, AuthRequest
    <2>6. Equipped(n) /\ Loaded(n)
      BY <2>1, <2>2, <2>3 DEF Auth!Idle, Equipped, Loaded
    <2> QED
      BY <2>1, <2>2, <2>4, <2>5, <2>6, AuthWriter
  <1>6. CASE Auth!Purge(h)
    <2>0. Auth!Writing(h, "purge", [Auth!Idle EXCEPT !.at = "purge"])
      BY <1>6, Zenon DEF Auth!Purge
    <2>1. PICK m : m = [Auth!Idle EXCEPT !.at = "purge"] /\ Auth!Writing(h, "purge", m)
      BY <2>0, Zenon
    <2>2. PICK n : n = [m EXCEPT !.kind = "purge"]
      OBVIOUS
    <2>5. n \in AuthRequest
      BY <2>1, <2>2 DEF Auth!Idle, AuthRequest
    <2>6. Equipped(n) /\ Loaded(n) /\ Timely(n)
      BY <2>1, <2>2 DEF Auth!Idle, Equipped, Loaded, Timely
    <2> QED
      BY <2>1, <2>2, <2>5, <2>6, AuthWriter
  <1>7. CASE Auth!ChangeDirectly(h)
    <2>0. PICK u \in Users, k \in {"direct", "deleteUser"} : Auth!Writing(h, k, [Auth!Idle EXCEPT !.at = "write", !.user = u])
      BY <1>7, Zenon DEF Auth!ChangeDirectly
    <2>1. PICK m : m = [Auth!Idle EXCEPT !.at = "write", !.user = u] /\ Auth!Writing(h, k, m)
      BY <2>0, Zenon
    <2>2. PICK n : n = [m EXCEPT !.kind = k]
      OBVIOUS
    <2>4. ~ Careful
      BY <2>1 DEF Auth!Writing, Careful, Auth!Unannounced
    <2>5. n \in AuthRequest
      BY <2>1, <2>2 DEF Auth!Idle, AuthRequest
    <2>6. Equipped(n) /\ Loaded(n)
      BY <2>1, <2>2 DEF Auth!Idle, Equipped, Loaded
    <2> QED
      BY <2>1, <2>2, <2>4, <2>5, <2>6, AuthWriter
  <1> QED
    BY <1>1, <1>2, <1>3, <1>4, <1>5, <1>6, <1>7

\* A request that finds its session, or reads on without a cached entry of its own.
LEMMA AuthSession ==
  ASSUME Auth!Constants, AuthInv, NEW h \in Slots, Auth!FindSession(h) \/ Auth!LoadRoles(h) \/ Auth!NeedsNoRoles(h)
  PROVE  AuthInv'
  <1>1. req[h] \in AuthRequest /\ Equipped(req[h]) /\ Loaded(req[h])
    BY DEF AuthInv, AuthTypes
  <1>2. CASE Auth!FindSession(h)
    <2>1. req[h].at = "session" /\ Auth!Reading(h) /\ UNCHANGED entries /\ req[h].token \in Tokens
      BY <1>1, <1>2 DEF Auth!FindSession, Equipped
    <2>2. CASE req[h].token \in rows
      <3>1. PICK n : /\ n = [req[h] EXCEPT !.at = "include", !.user = Owner[req[h].token]]
                     /\ Auth!Go(h, n)
        BY <1>2, <2>2, Zenon DEF Auth!FindSession
      <3>2. Owner[req[h].token] \in Users
        BY <2>1 DEF Auth!Constants
      <3>3. n \in AuthRequest
        BY <1>1, <3>1, <3>2 DEF AuthRequest
      <3>4. Equipped(n) /\ Loaded(n) /\ Timely(n)
        BY <1>1, <2>1, <2>2, <3>1, <3>2 DEF AuthRequest, Equipped, Loaded, Timely
      <3> QED
        BY <2>1, <3>1, <3>3, <3>4, AuthRead
    <2>3. CASE req[h].token \notin rows
      <3>1. Auth!Go(h, Auth!Idle)
        BY <1>2, <2>3 DEF Auth!FindSession, Auth!End
      <3> QED
        BY <2>1, <3>1, AuthIdle, AuthRead
    <2> QED
      BY <2>2, <2>3
  <1>3. CASE Auth!LoadRoles(h)
    <2>1. req[h].at = "user" /\ Auth!Reading(h) /\ UNCHANGED entries /\ req[h].user \in Users
      BY <1>1, <1>3 DEF Auth!LoadRoles, Equipped
    <2>2. CASE Auth!Hit(req[h].user)
      <3>1. Auth!Go(h, Auth!Idle)
        BY <1>3, <2>2 DEF Auth!LoadRoles, Auth!End
      <3> QED
        BY <2>1, <3>1, AuthIdle, AuthRead
    <2>3. CASE ~ Auth!Hit(req[h].user)
      <3>1. PICK n : /\ n = [req[h] EXCEPT !.at = "roles", !.always = grants, !.ever = grants]
                     /\ Auth!Go(h, n)
        BY <1>3, <2>3, Zenon DEF Auth!LoadRoles
      <3>2. n \in AuthRequest
        BY <1>1, <3>1 DEF AuthRequest, AuthInv, AuthTypes
      <3>3. Equipped(n) /\ Loaded(n) /\ Timely(n)
        BY <1>1, <2>1, <3>1 DEF AuthRequest, Equipped, Loaded, Timely
      <3> QED
        BY <2>1, <3>1, <3>2, <3>3, AuthRead
    <2> QED
      BY <2>2, <2>3
  <1>4. CASE Auth!NeedsNoRoles(h)
    <2>1. req[h].at = "user" /\ Auth!Reading(h) /\ UNCHANGED entries /\ Auth!Go(h, Auth!Idle)
      BY <1>4 DEF Auth!NeedsNoRoles, Auth!End
    <2> QED
      BY <2>1, AuthIdle, AuthRead
  <1> QED
    BY <1>2, <1>3, <1>4

\* One level of a load of roles: what the relations held all the while is a part of what they
\* hold, and what they hold a part of what they ever held.
LEMMA AuthLevel ==
  ASSUME Auth!Constants, AuthInv, NEW h \in Slots, Auth!GetRolesForUser(h) \/ Auth!GetRolesByIds(h)
  PROVE  AuthInv'
  <1>1. req[h] \in AuthRequest /\ Equipped(req[h]) /\ Loaded(req[h]) /\ grants \subseteq AuthEdges
    BY DEF AuthInv, AuthTypes
  <1> DEFINE r == req[h]
             always == r.always \cap grants
             ever == r.ever \cup grants
  <1>2. always \in SUBSET AuthEdges /\ ever \in SUBSET AuthEdges /\ r.ever \in SUBSET AuthEdges
    BY <1>1 DEF AuthRequest
  <1>3. PICK s : s = Auth!Seen(r)
    OBVIOUS
  <1>4. /\ s \in AuthRequest /\ s.always = always /\ s.ever = ever /\ s.at = r.at /\ s.user = r.user
        /\ s.names = r.names /\ s.asked = r.asked /\ s.next = r.next
    BY <1>1, <1>2, <1>3 DEF AuthRequest, Auth!Seen
  <1>5. ASSUME Careful, r.at \in {"roles", "parents"} PROVE always = grants /\ ever = grants
    BY <1>5 DEF AuthInv, OneLoad, Timely
  <1>6. CASE Auth!GetRolesForUser(h)
    <2>1. r.at = "roles" /\ Auth!Reading(h) /\ UNCHANGED entries /\ r.user \in Users /\ r.asked = {}
      BY <1>1, <1>6 DEF Auth!GetRolesForUser, Auth!Seen, AuthRequest, Equipped, Loaded
    <2>2. PICK found : found = Auth!Holding({r.user})
      OBVIOUS
    <2>3. PICK n : /\ n = [s EXCEPT !.at = IF found = {} THEN "cache" ELSE "parents", !.names = found, !.next = found]
                   /\ Auth!Go(h, n)
      <3>1. Auth!Go(h, [s EXCEPT !.at = IF found = {} THEN "cache" ELSE "parents", !.names = found, !.next = found])
        BY <1>3, <1>4, <1>6, <2>2 DEF Auth!GetRolesForUser
      <3> QED
        BY <3>1, Zenon
    <2>4. /\ found \subseteq Auth!Reach(r.user, ever) /\ found \subseteq Roles
          /\ \A e \in always : e[1] = r.user => e[2] \in found
      <3>1. found = {x \in Roles : <<r.user, x>> \in grants}
        BY <2>2 DEF Auth!Holding
      <3>2. \A x \in found : x \in Auth!Reach(r.user, ever)
        BY <1>2, <3>1, Reached
      <3>3. \A e \in grants : e[1] = r.user => e[2] \in found
        BY <1>1, <3>1 DEF AuthEdges
      <3> QED
        BY <3>1, <3>2, <3>3
    <2>5. n \in AuthRequest
      <3>1. PICK a \in {"cache", "parents"} : a = IF found = {} THEN "cache" ELSE "parents"
        OBVIOUS
      <3>2. n = [s EXCEPT !.at = a, !.names = found, !.next = found]
        BY <2>3, <3>1
      <3>3. found \subseteq Roles /\ s \in AuthRequest
        BY <1>4, <2>4
      <3>4. PICK m : m = [s EXCEPT !.names = found, !.next = found]
        OBVIOUS
      <3>5. m \in AuthRequest
        BY <3>3, <3>4 DEF AuthRequest
      <3>6. n = [m EXCEPT !.at = a]
        BY <3>2, <3>3, <3>4 DEF AuthRequest
      <3> QED
        BY <3>5, <3>6 DEF AuthRequest
    <2>6. /\ n.at \in {"cache", "parents"} /\ (n.at = "cache" => found = {})
          /\ n.user = r.user /\ n.names = found /\ n.next = found /\ n.asked = {}
          /\ n.always = always /\ n.ever = ever
      BY <1>4, <2>1, <2>3 DEF AuthRequest
    <2>7. Equipped(n) /\ Loaded(n)
      BY <2>1, <2>4, <2>6 DEF Equipped, Loaded
    <2>8. Careful => Timely(n)
      BY <1>5, <2>1, <2>6 DEF Timely
    <2> QED
      BY <2>1, <2>3, <2>5, <2>7, <2>8, AuthRead
  <1>7. CASE Auth!GetRolesByIds(h)
    <2>1. r.at = "parents" /\ Auth!Reading(h) /\ UNCHANGED entries /\ r.user \in Users
      BY <1>1, <1>7 DEF Auth!GetRolesByIds, Auth!Seen, AuthRequest, Equipped
    <2>2. PICK found : found = Auth!Above(s)
      OBVIOUS
    <2>3. PICK n : /\ n = [s EXCEPT !.at = IF found = {} THEN "cache" ELSE "parents",
                                     !.names = @ \cup found, !.asked = @ \cup s.next, !.next = found]
                   /\ Auth!Go(h, n)
      <3>1. Auth!Go(h, [s EXCEPT !.at = IF found = {} THEN "cache" ELSE "parents",
                                 !.names = @ \cup found, !.asked = @ \cup s.next, !.next = found])
        BY <1>3, <1>4, <1>7, <2>2 DEF Auth!GetRolesByIds
      <3> QED
        BY <3>1, Zenon
    <2>4. /\ r.names \subseteq Auth!Reach(r.user, r.ever) /\ r.next \subseteq r.names /\ r.names \subseteq r.asked \cup r.next
          /\ \A e \in r.always : e[1] = r.user \/ e[1] \in r.asked => e[2] \in r.names
      BY <1>1, <2>1 DEF Loaded
    <2>5. r.names \subseteq Auth!Reach(r.user, ever)
      BY <1>2, <2>4, Reached
    <2>6. /\ found \subseteq Auth!Reach(r.user, ever) /\ found \subseteq Roles
          /\ \A e \in always : e[1] \in r.next \ r.asked => e[2] \in found
      <3>1. found = {x \in Roles : \E y \in r.next \ r.asked : <<y, x>> \in grants}
        BY <1>4, <2>2 DEF Auth!Above, Auth!Holding
      <3>2. \A x \in found : x \in Auth!Reach(r.user, ever)
        <4> SUFFICES ASSUME NEW x \in found PROVE x \in Auth!Reach(r.user, ever)
          OBVIOUS
        <4>1. PICK y \in r.next : <<y, x>> \in grants
          BY <3>1
        <4> QED
          BY <1>2, <2>4, <2>5, <4>1, Reached
      <3>3. \A e \in grants : e[1] \in r.next \ r.asked => e[2] \in found
        BY <1>1, <3>1 DEF AuthEdges
      <3> QED
        BY <3>1, <3>2, <3>3
    <2>7. n \in AuthRequest
      <3>1. PICK a \in {"cache", "parents"} : a = IF found = {} THEN "cache" ELSE "parents"
        OBVIOUS
      <3>2. n = [s EXCEPT !.at = a, !.names = @ \cup found, !.asked = @ \cup s.next, !.next = found]
        BY <2>3, <3>1
      <3>3. found \subseteq Roles /\ s \in AuthRequest
        BY <1>4, <2>6
      <3>4. PICK m : m = [s EXCEPT !.names = @ \cup found, !.asked = @ \cup s.next, !.next = found]
        OBVIOUS
      <3>5. m \in AuthRequest
        BY <3>3, <3>4 DEF AuthRequest
      <3>6. n = [m EXCEPT !.at = a]
        BY <3>2, <3>3, <3>4 DEF AuthRequest
      <3> QED
        BY <3>5, <3>6 DEF AuthRequest
    <2>8. /\ n.at \in {"cache", "parents"} /\ (n.at = "cache" => found = {})
          /\ n.user = r.user /\ n.names = r.names \cup found /\ n.next = found /\ n.asked = r.asked \cup r.next
          /\ n.always = always /\ n.ever = ever
      BY <1>4, <2>1, <2>3 DEF AuthRequest
    <2>9. Equipped(n)
      BY <2>1, <2>8 DEF Equipped
    <2>10. Loaded(n)
      <3>1. n.names \subseteq Auth!Reach(n.user, n.ever)
        BY <2>5, <2>6, <2>8
      <3>2. \A e \in n.always : e[1] = n.user \/ e[1] \in n.asked => e[2] \in n.names
        BY <2>4, <2>6, <2>8
      <3>3. n.next \subseteq n.names /\ n.names \subseteq n.asked \cup n.next /\ (n.at = "cache" => n.names \subseteq n.asked)
        BY <2>4, <2>8
      <3> QED
        BY <2>8, <3>1, <3>2, <3>3 DEF Loaded
    <2>11. Careful => Timely(n)
      BY <1>5, <2>1, <2>8 DEF Timely
    <2> QED
      BY <2>1, <2>3, <2>7, <2>9, <2>10, <2>11, AuthRead
  <1> QED
    BY <1>6, <1>7

\* While a request is under way, served alone, nothing stale is in the cache.
LEMMA AuthCurrent ==
  ASSUME AuthInv, NEW h \in Slots, req[h].at \notin {"idle", "clearAll"}
  PROVE  /\ req[h] \in AuthRequest /\ Equipped(req[h]) /\ Loaded(req[h]) /\ req[h] # Auth!Idle
         /\ Careful => UsersCurrent /\ RolesCurrent /\ Timely(req[h])
  <1>1. req[h] \in AuthRequest /\ Equipped(req[h]) /\ Loaded(req[h]) /\ req[h] # Auth!Idle
    BY AuthIdle DEF AuthInv, AuthTypes
  <1>2. ASSUME Careful PROVE UsersCurrent /\ RolesCurrent /\ Timely(req[h])
    <2>1. \A k \in Slots : req[k].at = "clearAll" => k = h
      BY <1>1, <1>2, AuthIdle DEF AuthInv, OneLoad
    <2> QED
      BY <1>2, <2>1 DEF AuthInv, OneLoad
  <1> QED
    BY <1>1, <1>2

\* The cache loses entries, and nothing is written: what is left is as current as it was.
LEMMA AuthForgets ==
  ASSUME \A k \in Auth!Keys : entries'[k].value \in {entries[k].value, None}, UNCHANGED <<rows, version, grants>>
  PROVE  /\ \A k \in Auth!Keys : Auth!Hit(k)' => Auth!Hit(k)
         /\ UsersCurrent => UsersCurrent'
         /\ RolesCurrent => RolesCurrent'
  <1>1. \A k \in Auth!Keys : Auth!Hit(k)' => Auth!Hit(k) /\ entries'[k].value = entries[k].value
    BY DEF Auth!Hit
  <1>2. UsersCurrent => UsersCurrent'
    BY <1>1 DEF UsersCurrent, Auth!UserCurrent, Auth!Keys
  <1>3. RolesCurrent => RolesCurrent'
    BY <1>1 DEF RolesCurrent, Auth!RolesCurrent, Auth!Keys, Auth!Reach, Auth!Closed
  <1> QED
    BY <1>1, <1>2, <1>3

LEMMA AuthPut ==
  ASSUME Auth!Constants, AuthTypes, NEW k \in Auth!Keys, NEW v \in Nat \cup (SUBSET Roles), Auth!Put(k, v)
  PROVE  /\ entries' \in [Auth!Keys -> AuthEntry]
         /\ entries'[k].value = v /\ \A j \in Auth!Keys \ {k} : entries'[j] = entries[j]
  <1>1. PICK e : e = [value |-> v, left |-> TTL]
    OBVIOUS
  <1>2. v \in Nat \cup {None} \cup (SUBSET Roles)
    OBVIOUS
  <1>3. e \in AuthEntry /\ e.value = v
    BY <1>1, <1>2 DEF Auth!Constants, AuthEntry
  <1>4. entries' = [entries EXCEPT ![k] = e]
    BY <1>1 DEF Auth!Put
  <1> QED
    BY <1>3, <1>4 DEF AuthTypes

LEMMA AuthDel ==
  ASSUME AuthTypes, NEW ks, Auth!Del(ks)
  PROVE  /\ entries' \in [Auth!Keys -> AuthEntry]
         /\ \A k \in Auth!Keys : entries'[k].value = IF k \in ks THEN None ELSE entries[k].value
  BY EmptyEntry DEF Auth!Del, AuthTypes

LEMMA AuthClear ==
  ASSUME Auth!Clear
  PROVE  /\ entries' \in [Auth!Keys -> AuthEntry] /\ \A k \in Auth!Keys : entries'[k].value = None
         /\ UsersCurrent' /\ RolesCurrent'
  <1>1. entries' \in [Auth!Keys -> AuthEntry] /\ \A k \in Auth!Keys : entries'[k].value = None
    BY EmptyEntry DEF Auth!Clear
  <1> QED
    BY <1>1 DEF UsersCurrent, RolesCurrent, Auth!UserCurrent, Auth!RolesCurrent, Auth!Hit, Auth!Keys

\* A session that was found puts the user of its row into the cache.
LEMMA AuthIncludeUser ==
  ASSUME Auth!Constants, AuthInv, NEW h \in Slots, Auth!IncludeUser(h)
  PROVE  AuthInv'
  <1> DEFINE r == req[h]
             v == version[r.user]
  <1>1. r.at = "include" /\ UNCHANGED <<load, rows, version, grants>> /\ AuthTypes /\ Auth!Reading(h)
    BY DEF Auth!IncludeUser, Auth!Reading, AuthInv
  <1>2. /\ r \in AuthRequest /\ Equipped(r) /\ Loaded(r) /\ r # Auth!Idle
        /\ Careful => UsersCurrent /\ RolesCurrent /\ Timely(r)
    BY <1>1, AuthCurrent
  <1>3. r.token \in Tokens /\ r.user = Owner[r.token] /\ r.user \in Users /\ r.token \in Auth!Keys /\ v \in UserVersion
    BY <1>1, <1>2 DEF Equipped, AuthTypes, Auth!Constants, Auth!Keys
  <1>9. CASE v = None
    <2>1. UNCHANGED entries /\ Auth!Go(h, Auth!Idle)
      BY <1>9 DEF Auth!IncludeUser, Auth!End
    <2> QED
      BY <1>1, <2>1, AuthIdle, AuthRead
  <1>10. CASE v # None
    <2>0. v \in Nat /\ Auth!Put(r.token, v)
      BY <1>3, <1>10 DEF Auth!IncludeUser, UserVersion
    <2>4. /\ entries' \in [Auth!Keys -> AuthEntry] /\ entries'[r.token].value = v
          /\ \A j \in Auth!Keys \ {r.token} : entries'[j] = entries[j]
      BY <1>1, <1>3, <2>0, AuthPut
    <2>5. PICK n : n = [r EXCEPT !.at = "user"] /\ req' = [req EXCEPT ![h] = n]
      BY <1>10, Zenon DEF Auth!IncludeUser, Auth!Go
    <2>6. n \in AuthRequest
      BY <1>2, <2>5 DEF AuthRequest
    <2>7. Equipped(n) /\ Loaded(n) /\ Timely(n)'
      BY <1>1, <1>2, <1>3, <2>5 DEF AuthRequest, Equipped, Loaded, Timely
    <2>8. ASSUME Careful PROVE UsersCurrent' /\ RolesCurrent'
      <3>1. r.token \in rows
        BY <1>1, <1>2, <2>8 DEF Timely
      <3>2. UsersCurrent'
        BY <1>1, <1>2, <1>3, <2>4, <2>8, <3>1 DEF UsersCurrent, Auth!UserCurrent, Auth!Hit, Auth!Keys
      <3>3. \A u \in Users : entries'[u] = entries[u]
        BY <1>3, <2>4 DEF Auth!Constants, Auth!Keys
      <3>4. RolesCurrent'
        BY <1>1, <1>2, <2>8, <3>3 DEF RolesCurrent, Auth!RolesCurrent, Auth!Hit, Auth!Reach, Auth!Closed
      <3> QED
        BY <3>2, <3>4
    <2> QED
      BY <1>1, <1>2, <2>4, <2>5, <2>6, <2>7, <2>8, AuthStep DEF AuthTypes
  <1> QED
    BY <1>9, <1>10

\* A load of roles, served alone, ends with exactly the roles the user has.
LEMMA AuthCacheRoles ==
  ASSUME Auth!Constants, AuthInv, NEW h \in Slots, Auth!CacheRoles(h)
  PROVE  AuthInv'
  <1> DEFINE r == req[h]
  <1>1. /\ r.at = "cache" /\ UNCHANGED <<load, rows, version, grants>> /\ AuthTypes
        /\ Auth!Put(r.user, r.names) /\ req' = [req EXCEPT ![h] = Auth!Idle]
    BY DEF Auth!CacheRoles, Auth!Reading, Auth!End, Auth!Go, AuthInv
  <1>2. /\ r \in AuthRequest /\ Equipped(r) /\ Loaded(r) /\ r # Auth!Idle
        /\ Careful => UsersCurrent /\ RolesCurrent /\ Timely(r)
    BY <1>1, AuthCurrent
  <1>3. r.user \in Users /\ r.user \in Auth!Keys /\ r.names \in Nat \cup (SUBSET Roles)
    BY <1>1, <1>2 DEF Equipped, AuthRequest, Auth!Keys
  <1>4. /\ entries' \in [Auth!Keys -> AuthEntry] /\ entries'[r.user].value = r.names
        /\ \A j \in Auth!Keys \ {r.user} : entries'[j] = entries[j]
    BY <1>1, <1>3, AuthPut
  <1>5. ASSUME Careful PROVE UsersCurrent' /\ RolesCurrent'
    <2>1. \A t \in Tokens : entries'[t] = entries[t]
      BY <1>3, <1>4 DEF Auth!Constants, Auth!Keys
    <2>2. UsersCurrent'
      BY <1>1, <1>2, <1>5, <2>1 DEF UsersCurrent, Auth!UserCurrent, Auth!Hit
    <2>3. r.always = grants /\ r.ever = grants /\ grants \in SUBSET AuthEdges
      BY <1>1, <1>2, <1>5 DEF Timely, AuthTypes
    <2>4. r.names = Auth!Reach(r.user, grants)
      <3>1. r.names \subseteq Auth!Reach(r.user, grants) /\ Auth!Closed(r.names, r.user, grants)
        BY <1>1, <1>2, <2>3 DEF Loaded, Auth!Closed
      <3>2. r.names \in SUBSET Roles
        BY <1>2 DEF AuthRequest
      <3> QED
        BY <2>3, <3>1, <3>2, Reached
    <2>5. RolesCurrent'
      <3>1. \A u \in Users : Auth!Reach(u, grants)' = Auth!Reach(u, grants)
        BY <1>1 DEF Auth!Reach, Auth!Closed
      <3> QED
        BY <1>2, <1>4, <1>5, <2>4, <3>1 DEF RolesCurrent, Auth!RolesCurrent, Auth!Hit, Auth!Keys
    <2> QED
      BY <2>2, <2>5
  <1>6. Timely(Auth!Idle)'
    BY AuthIdle DEF Timely
  <1> QED
    BY <1>1, <1>2, <1>4, <1>5, <1>6, AuthIdle, AuthStep DEF AuthTypes

\* Requests that take entries from the cache before they write.
LEMMA AuthRemoves ==
  ASSUME Auth!Constants, AuthInv, NEW h \in Slots, Auth!DelSession(h) \/ Auth!ForgetUser(h) \/ Auth!ClearRoles(h)
  PROVE  AuthInv'
  <1> DEFINE r == req[h]
  <1>1. /\ r.at \in {"forget", "clear"} /\ UNCHANGED <<load, rows, version, grants>> /\ AuthTypes
    BY DEF Auth!DelSession, Auth!ForgetUser, Auth!ClearRoles, Auth!Reading, AuthInv
  <1>2. /\ r \in AuthRequest /\ Equipped(r) /\ Loaded(r) /\ r # Auth!Idle
        /\ Careful => UsersCurrent /\ RolesCurrent /\ Timely(r)
    BY <1>1, AuthCurrent
  <1>3. PICK n : n = [r EXCEPT !.at = "write"] /\ req' = [req EXCEPT ![h] = n]
    BY Zenon DEF Auth!DelSession, Auth!ForgetUser, Auth!ClearRoles, Auth!Go
  <1>4. n \in AuthRequest
    BY <1>2, <1>3 DEF AuthRequest
  <1>5. n.at = "write" /\ n.kind = r.kind /\ n.token = r.token /\ n.user = r.user /\ n.edge = r.edge
    BY <1>2, <1>3 DEF AuthRequest
  <1>6. Equipped(n) /\ Loaded(n)
    BY <1>1, <1>2, <1>5 DEF Equipped, Loaded
  <1>7. /\ entries' \in [Auth!Keys -> AuthEntry]
        /\ \A k \in Auth!Keys : entries'[k].value \in {entries[k].value, None}
        /\ Careful => Timely(n)'
    <2>1. CASE Auth!DelSession(h)
      <3>1. r.kind = "logOut" /\ Auth!Del({r.token}) /\ r.token \in Auth!Keys
        BY <1>1, <1>2, <2>1 DEF Auth!DelSession, Equipped, Auth!Keys
      <3>2. /\ entries' \in [Auth!Keys -> AuthEntry]
            /\ \A k \in Auth!Keys : entries'[k].value = IF k \in {r.token} THEN None ELSE entries[k].value
        BY <1>1, <3>1, AuthDel
      <3> QED
        BY <1>5, <3>1, <3>2 DEF Timely, Auth!Unannounced, Auth!Hit
    <2>2. CASE Auth!ForgetUser(h)
      <3>1. r.kind \in {"user", "password"} /\ Auth!Del({t \in rows : Owner[t] = r.user})
        BY <1>1, <1>2, <2>2 DEF Auth!ForgetUser, Equipped
      <3>2. /\ entries' \in [Auth!Keys -> AuthEntry]
            /\ \A k \in Auth!Keys :
                  entries'[k].value = IF k \in {t \in rows : Owner[t] = r.user} THEN None ELSE entries[k].value
        BY <1>1, <3>1, AuthDel
      <3>3. ASSUME Careful, NEW t \in Tokens, Owner[t] = r.user PROVE ~ Auth!Hit(t)'
        BY <1>2, <3>2, <3>3 DEF UsersCurrent, Auth!UserCurrent, Auth!Hit, Auth!Keys
      <3> QED
        BY <1>5, <3>1, <3>2, <3>3 DEF Timely, Auth!Unannounced
    <2>3. CASE Auth!ClearRoles(h)
      <3>1. r.kind = "role" /\ Auth!Clear
        BY <1>1, <1>2, <2>3 DEF Auth!ClearRoles, Equipped
      <3>2. entries' \in [Auth!Keys -> AuthEntry] /\ \A k \in Auth!Keys : entries'[k].value = None
        BY <3>1, AuthClear
      <3> QED
        BY <1>5, <3>1, <3>2 DEF Timely, Auth!Unannounced, Auth!Hit, Auth!Keys
    <2> QED
      BY <2>1, <2>2, <2>3
  <1>8. Careful => UsersCurrent' /\ RolesCurrent'
    BY <1>1, <1>2, <1>7, AuthForgets
  <1> QED
    BY <1>1, <1>2, <1>3, <1>4, <1>6, <1>7, <1>8, AuthStep DEF AuthTypes

\* The write itself, of a session, a user or a role.
LEMMA AuthWrite ==
  ASSUME Auth!Constants, AuthInv, NEW h \in Slots, Auth!Write(h)
  PROVE  AuthInv'
  <1> DEFINE r == req[h]
  <1>1. r.at = "write" /\ UNCHANGED <<load, entries, writes>> /\ AuthTypes
    BY DEF Auth!Write, AuthInv
  <1>2. /\ r \in AuthRequest /\ Equipped(r) /\ Loaded(r) /\ r # Auth!Idle
        /\ Careful => UsersCurrent /\ RolesCurrent /\ Timely(r)
    BY <1>1, AuthCurrent
  <1>3. /\ rows' = IF r.kind \in {"logOut", "duplicate"} THEN rows \ {r.token} ELSE rows
        /\ r.kind \in {"user", "password", "direct"} => version' = [version EXCEPT ![r.user] = Auth!Changed(@)]
        /\ r.kind = "deleteUser" => version' = [version EXCEPT ![r.user] = None]
        /\ r.kind \notin {"user", "password", "direct", "deleteUser"} => version' = version
        /\ r.kind = "role" => grants' = Auth!Flip(r.edge)
        /\ r.kind = "deleteRole" => grants' = Auth!Without(r.edge[1])
        /\ r.kind \notin {"role", "deleteRole"} => grants' = grants
    BY DEF Auth!Write
  <1>4. PICK n : /\ req' = [req EXCEPT ![h] = n]
                 /\ n = IF r.kind = "password" /\ version[r.user] # None THEN [r EXCEPT !.at = "follow"] ELSE Auth!Idle
    <2>1. CASE r.kind = "password" /\ version[r.user] # None
      BY <2>1, Zenon DEF Auth!Write, Auth!Go
    <2>2. CASE ~ (r.kind = "password" /\ version[r.user] # None)
      BY <2>2, Zenon DEF Auth!Write, Auth!Go, Auth!End
    <2> QED
      BY <2>1, <2>2
  <1>5. /\ n \in AuthRequest /\ Equipped(n) /\ Loaded(n)
        /\ n = Auth!Idle \/ (n.at = "follow" /\ r.kind = "password" /\ n.user = r.user)
    <2>1. CASE r.kind = "password" /\ version[r.user] # None
      <3>1. n = [r EXCEPT !.at = "follow"]
        BY <1>4, <2>1
      <3>2. n \in AuthRequest /\ n.at = "follow" /\ n.user = r.user
        BY <1>2, <3>1 DEF AuthRequest
      <3> QED
        BY <1>1, <1>2, <2>1, <3>2 DEF Equipped, Loaded
    <2>2. CASE ~ (r.kind = "password" /\ version[r.user] # None)
      BY <1>4, <2>2, AuthIdle
    <2> QED
      BY <2>1, <2>2
  <1>6. rows' \subseteq Tokens /\ version' \in [Users -> UserVersion] /\ grants' \subseteq AuthEdges
    <2>1. rows' \subseteq Tokens
      BY <1>1, <1>3 DEF AuthTypes
    <2>2. version' \in [Users -> UserVersion]
      <3>1. r.kind \in {"user", "password", "direct", "deleteUser"} => r.user \in Users /\ version[r.user] \in UserVersion
        BY <1>1, <1>2 DEF Equipped, AuthTypes
      <3>2. \A v \in UserVersion : Auth!Changed(v) \in UserVersion
        BY DEF Auth!Changed, UserVersion
      <3>3. None \in UserVersion
        BY DEF UserVersion
      <3> QED
        BY <1>1, <1>3, <3>1, <3>2, <3>3 DEF AuthTypes
    <2>3. grants' \subseteq AuthEdges
      BY <1>1, <1>2, <1>3 DEF AuthTypes, Equipped, Auth!Flip, Auth!Without
    <2> QED
      BY <2>1, <2>2, <2>3
  <1>7. ASSUME Careful PROVE Timely(n)' /\ UsersCurrent' /\ RolesCurrent'
    <2>1. /\ r.kind \notin Auth!Unannounced
          /\ r.kind = "logOut" => ~ Auth!Hit(r.token)
          /\ r.kind = "role" => \A u \in Users : ~ Auth!Hit(u)
          /\ r.kind \in {"user", "password"} => \A t \in Tokens : Owner[t] = r.user => ~ Auth!Hit(t)
      BY <1>1, <1>2, <1>7 DEF Timely
    <2>2. \A k : Auth!Hit(k)' = Auth!Hit(k)
      BY <1>1 DEF Auth!Hit
    <2>3. UsersCurrent'
      <3> SUFFICES ASSUME NEW t \in Tokens, Auth!Hit(t) PROVE t \in rows' /\ entries[t].value = version'[Owner[t]]
        BY <1>1, <2>2 DEF UsersCurrent, Auth!UserCurrent
      <3>1. t \in rows /\ entries[t].value = version[Owner[t]] /\ Owner[t] \in Users
        BY <1>2, <1>7 DEF UsersCurrent, Auth!UserCurrent, Auth!Constants
      <3>2. t \in rows'
        BY <1>3, <2>1, <3>1 DEF Auth!Unannounced
      <3>3. version'[Owner[t]] = version[Owner[t]]
        BY <1>1, <1>3, <2>1, <3>1 DEF AuthTypes, Auth!Unannounced
      <3> QED
        BY <3>1, <3>2, <3>3
    <2>4. RolesCurrent'
      <3>1. CASE r.kind = "role"
        BY <2>1, <2>2, <3>1 DEF RolesCurrent, Auth!RolesCurrent
      <3>2. CASE r.kind # "role"
        BY <1>1, <1>2, <1>3, <1>7, <2>1, <2>2, <3>2 DEF RolesCurrent, Auth!RolesCurrent, Auth!Reach, Auth!Closed, Auth!Unannounced
      <3> QED
        BY <3>1, <3>2
    <2>5. Timely(n)'
      <3>1. CASE n = Auth!Idle
        BY <3>1, AuthIdle DEF Timely
      <3>2. CASE n.at = "follow" /\ r.kind = "password" /\ n.user = r.user
        BY <2>1, <2>2, <3>2 DEF Timely
      <3> QED
        BY <1>5, <3>1, <3>2
    <2> QED
      BY <2>3, <2>4, <2>5
  <1> QED
    BY <1>1, <1>2, <1>4, <1>5, <1>6, <1>7, AuthStep DEF AuthTypes

\* After a new password the user's sessions go, and a purge takes all of them and the cache.
LEMMA AuthEnds ==
  ASSUME Auth!Constants, AuthInv, NEW h \in Slots, Auth!ClearSessions(h) \/ Auth!PurgeRows(h) \/ Auth!PurgeCache(h)
  PROVE  AuthInv'
  <1> DEFINE r == req[h]
  <1>1. AuthTypes /\ r \in AuthRequest
    BY DEF AuthInv, AuthTypes
  <1>2. Timely(Auth!Idle)'
    BY AuthIdle DEF Timely
  <1>3. CASE Auth!ClearSessions(h)
    <2>1. /\ r.at = "follow" /\ rows' = {t \in rows : Owner[t] # r.user} /\ req' = [req EXCEPT ![h] = Auth!Idle]
          /\ UNCHANGED <<load, version, grants, entries>>
      BY <1>3 DEF Auth!ClearSessions, Auth!End, Auth!Go
    <2>2. r # Auth!Idle /\ (Careful => UsersCurrent /\ RolesCurrent /\ Timely(r))
      BY <2>1, AuthCurrent
    <2>3. Careful => UsersCurrent' /\ RolesCurrent'
      BY <2>1, <2>2 DEF Timely, UsersCurrent, RolesCurrent, Auth!UserCurrent, Auth!RolesCurrent, Auth!Hit,
         Auth!Reach, Auth!Closed
    <2>4. rows' \subseteq Tokens
      BY <1>1, <2>1 DEF AuthTypes
    <2> QED
      BY <1>1, <1>2, <2>1, <2>2, <2>3, <2>4, AuthIdle, AuthStep DEF AuthTypes
  <1>4. CASE Auth!PurgeRows(h)
    <2>1. r.at = "purge" /\ rows' = {} /\ UNCHANGED <<load, version, grants, entries>>
      BY <1>4 DEF Auth!PurgeRows
    <2>2. r # Auth!Idle /\ (Careful => RolesCurrent)
      BY <2>1, AuthCurrent
    <2>3. PICK n : n = [r EXCEPT !.at = "clearAll"] /\ req' = [req EXCEPT ![h] = n]
      BY <1>4, Zenon DEF Auth!PurgeRows, Auth!Go
    <2>4. n \in AuthRequest /\ n.at = "clearAll"
      BY <1>1, <2>3 DEF AuthRequest
    <2>5. Equipped(n) /\ Loaded(n) /\ Timely(n)'
      BY <2>4 DEF Equipped, Loaded, Timely
    <2>6. Careful => RolesCurrent'
      BY <2>1, <2>2 DEF RolesCurrent, Auth!RolesCurrent, Auth!Hit, Auth!Reach, Auth!Closed
    <2> QED
      BY <1>1, <2>1, <2>2, <2>3, <2>4, <2>5, <2>6, AuthStep DEF AuthTypes
  <1>5. CASE Auth!PurgeCache(h)
    <2>1. /\ r.at = "clearAll" /\ Auth!Clear /\ req' = [req EXCEPT ![h] = Auth!Idle]
          /\ UNCHANGED <<load, rows, version, grants>> /\ r # Auth!Idle
      BY <1>5, AuthIdle DEF Auth!PurgeCache, Auth!Reading, Auth!End, Auth!Go
    <2>2. entries' \in [Auth!Keys -> AuthEntry] /\ UsersCurrent' /\ RolesCurrent'
      BY <2>1, AuthClear
    <2> QED
      BY <1>1, <1>2, <2>1, <2>2, AuthIdle, AuthStep DEF AuthTypes
  <1> QED
    BY <1>3, <1>4, <1>5

\* Entries age and lapse.
LEMMA AuthTick == ASSUME Auth!Constants, AuthInv, Auth!Tick PROVE AuthInv'
  <1>1. /\ AuthTypes /\ UNCHANGED <<load, rows, version, grants, req>>
        /\ entries' = [k \in Auth!Keys |-> Auth!Aged(entries[k])]
    BY DEF Auth!Tick, AuthInv
  <1>2. ASSUME NEW e \in AuthEntry PROVE Auth!Aged(e) \in AuthEntry /\ Auth!Aged(e).value \in {e.value, None}
    <2>1. CASE e.left = 1
      BY <2>1, EmptyEntry DEF Auth!Aged
    <2>2. CASE e.left # 1
      <3>1. PICK left \in Nat : Auth!Aged(e) = [e EXCEPT !.left = left]
        BY <2>2 DEF Auth!Aged, AuthEntry
      <3> QED
        BY <3>1 DEF AuthEntry
    <2> QED
      BY <2>1, <2>2
  <1>3. /\ entries' \in [Auth!Keys -> AuthEntry]
        /\ \A k \in Auth!Keys : entries'[k].value \in {entries[k].value, None}
    BY <1>1, <1>2 DEF AuthTypes
  <1>4. /\ \A k \in Auth!Keys : Auth!Hit(k)' => Auth!Hit(k)
        /\ UsersCurrent => UsersCurrent'
        /\ RolesCurrent => RolesCurrent'
    BY <1>1, <1>3, AuthForgets
  <1>5. AuthTypes' /\ (Careful' <=> Careful)
    BY <1>1, <1>3 DEF AuthTypes, Careful
  <1>6. (\A h \in Slots : Equipped(req[h]) /\ Loaded(req[h]))'
    BY <1>1 DEF AuthInv, Equipped, Loaded, Auth!Reach, Auth!Closed
  <1>7. ASSUME Careful PROVE OneLoad'
    <2>1. OneLoad
      BY <1>7 DEF AuthInv
    <2>2. ASSUME NEW h \in Slots PROVE Timely(req[h])'
      <3>1. Timely(req[h]) /\ req[h] \in AuthRequest /\ Equipped(req[h])
        BY <1>1, <2>1 DEF AuthInv, OneLoad, AuthTypes
      <3>2. req[h].kind = "logOut" /\ req[h].at = "write" => req[h].token \in Auth!Keys
        BY <3>1 DEF Equipped, Auth!Keys
      <3> QED
        BY <1>1, <1>4, <3>1, <3>2 DEF Timely, Auth!Keys
    <2>3. \A g, h \in Slots : req'[g] # Auth!Idle /\ req'[h] # Auth!Idle => g = h
      BY <1>1, <2>1 DEF OneLoad
    <2>4. UsersCurrent' \/ \E h \in Slots : req'[h].at = "clearAll"
      BY <1>1, <1>4, <2>1 DEF OneLoad
    <2>5. RolesCurrent'
      BY <1>4, <2>1 DEF OneLoad
    <2> QED
      BY <2>2, <2>3, <2>4, <2>5 DEF OneLoad
  <1> QED
    BY <1>5, <1>6, <1>7 DEF AuthInv

\* A session runs out: the cache does not know, which is why Careful excludes it.
LEMMA AuthLapse == ASSUME AuthInv, NEW t \in Tokens, Auth!Lapse(t) PROVE AuthInv'
  <1>1. "lapse" \in load.offers /\ rows' = rows \ {t} /\ UNCHANGED <<load, version, grants, entries, req>>
    BY DEF Auth!Lapse
  <1>2. AuthTypes' /\ ~ Careful'
    BY <1>1 DEF AuthInv, AuthTypes, Careful, Auth!Unannounced
  <1> QED
    BY <1>1, <1>2 DEF AuthInv, Equipped, Loaded, Auth!Reach, Auth!Closed

LEMMA AuthStays == ASSUME AuthInv, UNCHANGED Auth!vars PROVE AuthInv'
  <1>1. UNCHANGED <<load, rows, version, grants, entries, req>>
    BY DEF Auth!vars
  <1>2. \A h \in Slots : Equipped(req[h])' = Equipped(req[h]) /\ Loaded(req[h])' = Loaded(req[h])
    BY <1>1 DEF Equipped, Loaded, Auth!Reach, Auth!Closed
  <1>3. \A h \in Slots : Timely(req[h])' = Timely(req[h])
    BY <1>1 DEF Timely, Auth!Hit
  <1>4. OneLoad' = OneLoad
    BY <1>1, <1>3 DEF OneLoad, UsersCurrent, RolesCurrent, Auth!UserCurrent, Auth!RolesCurrent, Auth!Hit,
       Auth!Reach, Auth!Closed
  <1> QED
    BY <1>1, <1>2, <1>4 DEF AuthInv, AuthTypes, Careful

LEMMA AuthNext == ASSUME Auth!Constants, AuthInv, [Auth!Next]_(Auth!vars) PROVE AuthInv'
  <1>1. CASE Auth!Tick
    BY <1>1, AuthTick
  <1>2. CASE \E t \in Tokens : Auth!Lapse(t)
    BY <1>2, AuthLapse
  <1>3. ASSUME NEW h \in Slots, Auth!Authenticate(h) PROVE AuthInv'
    BY <1>3, AuthAuthenticate
  <1>4. ASSUME NEW h \in Slots, Auth!Step(h) PROVE AuthInv'
    BY <1>4, AuthSession, AuthLevel, AuthIncludeUser, AuthCacheRoles, AuthRemoves, AuthWrite, AuthEnds DEF Auth!Step
  <1>5. ASSUME NEW h \in Slots,
               \/ Auth!LogOut(h) \/ Auth!LogInElsewhere(h) \/ Auth!ChangeUser(h) \/ Auth!ChangeDirectly(h)
               \/ Auth!ChangeRole(h) \/ Auth!DeleteRole(h) \/ Auth!Purge(h)
        PROVE  AuthInv'
    BY <1>5, AuthWriting
  <1>6. CASE UNCHANGED Auth!vars
    BY <1>6, AuthStays
  <1> QED
    BY <1>1, <1>2, <1>3, <1>4, <1>5, <1>6 DEF Auth!Next

\* What the invariant says of the roles of a load that ends, and of the cache between requests.
LEMMA AuthHolds == ASSUME AuthInv PROVE CachesHold
  <1>1. Auth!RolesWereHeld
    <2> SUFFICES ASSUME NEW h \in Slots, req[h].at = "cache"
                 PROVE  /\ Auth!Reach(req[h].user, req[h].always) \subseteq req[h].names
                        /\ req[h].names \subseteq Auth!Reach(req[h].user, req[h].ever)
      BY DEF Auth!RolesWereHeld
    <2>1. req[h] \in AuthRequest /\ Loaded(req[h])
      BY DEF AuthInv, AuthTypes
    <2>2. req[h].names \subseteq Auth!Reach(req[h].user, req[h].ever)
      BY <2>1 DEF Loaded
    <2>3. /\ Auth!Closed(req[h].names, req[h].user, req[h].always)
          /\ req[h].names \in SUBSET Roles /\ req[h].always \in SUBSET AuthEdges
      BY <2>1 DEF Loaded, AuthRequest, Auth!Closed
    <2> QED
      BY <2>2, <2>3, Reached
  <1>2. Auth!ExactBetweenRequests
    <2>1. ASSUME Careful, Auth!AtRest PROVE Auth!CachesExact
      BY <2>1, AuthIdle DEF AuthInv, OneLoad, Auth!AtRest, Auth!CachesExact, UsersCurrent, RolesCurrent
    <2> QED
      BY <2>1 DEF Auth!ExactBetweenRequests, Careful
  <1> QED
    BY <1>1, <1>2 DEF CachesHold

(***************************************************************************)
(* However many requests are served at a time, the roles a load puts into  *)
(* the cache (Auth.prototype._loadRoles and _getAllRolesNamesForRoleIds)   *)
(* contain every role the user had all the while and only roles reached by *)
(* relations there were meanwhile.  Where requests are served one by one   *)
(* and none is of those that leave the cache alone (deletions of roles and *)
(* users, sessions that end without a log-out, writes of users that go     *)
(* past RestWrite), the cache holds, between them, what the database does. *)
(***************************************************************************)
THEOREM CachesAreRight ==
  ASSUME Auth!Constants
  PROVE  Auth!Spec => []CachesHold
  <1>1. Auth!Init => AuthInv
    BY AuthAtStart
  <1>2. AuthInv /\ [Auth!Next]_(Auth!vars) => AuthInv'
    BY AuthNext
  <1>3. AuthInv => CachesHold
    BY AuthHolds
  <1> QED
    BY <1>1, <1>2, <1>3, PTL DEF Auth!Spec

-----------------------------------------------------------------------------
(***************************************************************************)
(* Pushes.                                                                 *)
(***************************************************************************)
LEMMA Quotient ==
  ASSUME NEW a \in Nat, NEW b \in Nat \ {0}
  PROVE  (a \div b) \in Nat /\ b * (a \div b) <= a /\ a < b * (a \div b) + b
  OBVIOUS

LEMMA Remainder ==
  ASSUME NEW a \in Nat, NEW b \in Nat \ {0}
  PROVE  a = b * (a \div b) + (a % b) /\ (a \div b) \in Nat /\ a % b \in Nat /\ a % b < b
  OBVIOUS

LEMMA Multiples ==
  ASSUME NEW b \in Nat \ {0}
  PROVE  /\ \A q \in Nat : q * b \in Nat /\ (q * b) % b = 0
         /\ \A s \in Nat : s % b = 0 => \E q \in Nat : s = q * b
  <1>1. ASSUME NEW q \in Nat PROVE q * b \in Nat /\ (q * b) % b = 0
    <2>1. q * b \in Nat
      OBVIOUS
    <2>2. PICK p \in Nat, r \in Nat : q * b = b * p + r /\ r < b /\ r = (q * b) % b
      BY <2>1, Remainder
    <2>3. CASE q > p
      <3>1. b * q >= b * (p + 1)
        BY <2>3
      <3> QED
        BY <2>2, <3>1
    <2>4. CASE q < p
      <3>1. b * p >= b * (q + 1)
        BY <2>4
      <3> QED
        BY <2>2, <3>1
    <2>5. CASE q = p
      <3>1. q * b = b * p
        BY <2>5
      <3>2. r = 0
        BY <2>1, <2>2, <3>1
      <3> QED
        BY <2>1, <2>2, <3>2
    <2> QED
      BY <2>3, <2>4, <2>5
  <1>2. ASSUME NEW s \in Nat, s % b = 0 PROVE \E q \in Nat : s = q * b
    <2>1. s = b * (s \div b) + (s % b) /\ (s \div b) \in Nat
      BY Remainder
    <2>2. s = (s \div b) * b
      BY <1>2, <2>1
    <2> QED
      BY <2>1, <2>2
  <1> QED
    BY <1>1, <1>2

\* Batches begin a whole batch apart, and every place in the order is on the page of just one.
LEMMA PagesApart ==
  ASSUME NEW b \in Nat \ {0}, NEW s \in Nat, NEW t \in Nat, s % b = 0, t % b = 0, s < t
  PROVE  s + b <= t
  <1>1. PICK p \in Nat, q \in Nat : s = p * b /\ t = q * b
    BY Multiples
  <1>2. p < q
    BY <1>1
  <1>3. (p + 1) * b <= q * b
    BY <1>2
  <1> QED
    BY <1>1, <1>3

LEMMA PageOfPlace ==
  ASSUME NEW b \in Nat \ {0}, NEW place \in Nat
  PROVE  \E s \in Nat : s % b = 0 /\ s <= place /\ place \in s..(s + b - 1)
  <1>1. (place \div b) \in Nat /\ b * (place \div b) <= place /\ place < b * (place \div b) + b
    BY Quotient
  <1>2. PICK q \in Nat : b * q <= place /\ place < b * q + b
    BY <1>1
  <1>3. (q * b) \in Nat /\ (q * b) % b = 0 /\ q * b <= place /\ place < q * b + b
    BY <1>2, Multiples
  <1> QED
    BY <1>3

\* As many batches as it takes.
LEMMA BatchesAreEnough ==
  ASSUME NEW b \in Nat \ {0}, NEW count \in Nat
  PROVE  LET n == (count + b - 1) \div b IN
         n \in Nat /\ count <= n * b /\ (n - 1) * b < count /\ (count = 0 => n = 0)
  <1>1. count + b - 1 \in Nat
    OBVIOUS
  <1>2. PICK n \in Nat : b * n <= count + b - 1 /\ count + b - 1 < b * n + b /\ n = (count + b - 1) \div b
    BY <1>1, Quotient
  <1>3. count <= n * b /\ (n - 1) * b < count
    BY <1>2
  <1>4. count = 0 => n = 0
    BY <1>2
  <1> QED
    BY <1>2, <1>3, <1>4

-----------------------------------------------------------------------------
PushStatus ==
  [st : {None, "scheduled", "pending", "running", "succeeded", "failed"}, count : Int \cup {None},
   numSent : Nat, numFailed : Nat]
TrackOf(g, answers) == [kind : {"track"}, results : [g -> answers]]
Tracks == UNION {TrackOf(g, p.answers) : g \in SUBSET PushIds, p \in Pushes}
PushUpdate ==
  {[kind |-> "complete"], [kind |-> "fail"]} \cup [kind : {"running"}, batches : Nat] \cup Tracks
PushTypes ==
  /\ push \in Pushes /\ rows \in [PushIds -> Delivery!Device \cup {None}]
  /\ stage \in {"store", "badge", "count", "end"} /\ status \in PushStatus
  /\ batches \in [Delivery!Skips -> Delivery!Batch \cup {None}]
  /\ updates \in [Delivery!Handlers -> Seq(PushUpdate)]
  /\ sent \in [PushIds -> Nat] /\ stayed \subseteq Delivery!Wanted

\* The instance has definitions of its own of what is finite and how many there are.
LEMMA CountsAreCounts ==
  \A S : Delivery!Cardinality(S) = Cardinality(S) /\ (Delivery!IsFiniteSet(S) <=> IsFiniteSet(S))
  BY DEF Delivery!Cardinality, Cardinality, Delivery!IsFiniteSet, IsFiniteSet

LEMMA DevicesAreFinite ==
  ASSUME Delivery!Constants
  PROVE  IsFiniteSet(PushIds) /\ PushIds \subseteq Nat /\ BatchSize \in Nat \ {0} /\ Cardinality(PushIds) \in Nat
  <1>1. Delivery!IsFiniteSet(PushIds) /\ PushIds \subseteq Nat /\ BatchSize \in Nat \ {0}
    BY DEF Delivery!Constants
  <1> QED
    BY <1>1, CountsAreCounts, FS_CardinalityType

LEMMA SkipsAre ==
  ASSUME Delivery!Constants
  PROVE  /\ Delivery!Skips = {n \in 0..Cardinality(PushIds) : n % BatchSize = 0}
         /\ Cardinality(PushIds) \in Nat /\ BatchSize \in Nat \ {0} /\ Delivery!Skips \subseteq Nat
         /\ IsFiniteSet(Delivery!Skips)
         /\ \A s \in Delivery!Skips : s # Delivery!Controller
         /\ Delivery!Handlers = Delivery!Skips \cup {Delivery!Controller}
  <1>1. Cardinality(PushIds) \in Nat /\ BatchSize \in Nat \ {0}
    BY DevicesAreFinite
  <1>2. Delivery!Skips = {n \in 0..Cardinality(PushIds) : n % BatchSize = 0}
    BY CountsAreCounts DEF Delivery!Skips
  <1>3. IsFiniteSet(Delivery!Skips)
    <2>1. IsFiniteSet(0..Cardinality(PushIds))
      BY <1>1, FS_Interval
    <2> QED
      BY <1>2, <2>1, FS_Subset
  <1> QED
    BY <1>1, <1>2, <1>3 DEF Delivery!Controller, Delivery!Handlers

LEMMA UpdatesAre ==
  ASSUME NEW u \in PushUpdate
  PROVE  /\ u.kind \in {"complete", "fail", "running", "track"}
         /\ u.kind = "running" => u.batches \in Nat
         /\ u.kind = "track" => DOMAIN u.results \in SUBSET PushIds
  <1>1. CASE u \in {[kind |-> "complete"], [kind |-> "fail"]}
    BY <1>1
  <1>2. CASE u \in [kind : {"running"}, batches : Nat]
    BY <1>2
  <1>3. CASE u \in Tracks
    <2>1. PICK g \in SUBSET PushIds, p \in Pushes : u \in TrackOf(g, p.answers)
      BY <1>3 DEF Tracks
    <2> QED
      BY <2>1 DEF TrackOf
  <1> QED
    BY <1>1, <1>2, <1>3 DEF PushUpdate

LEMMA CompleteIsUpdate ==
  /\ Delivery!Complete \in PushUpdate /\ Delivery!Complete.kind = "complete"
  /\ [kind |-> "fail"] \in PushUpdate
  /\ \A n \in Nat : Delivery!SetRunning(n) \in PushUpdate /\ Delivery!SetRunning(n).kind = "running"
                    /\ Delivery!SetRunning(n).batches = n
  BY DEF PushUpdate, Delivery!Complete, Delivery!SetRunning

\* What one update makes of the row.
LEMMA UpdatedIs ==
  ASSUME Delivery!Constants, status \in PushStatus, NEW u \in PushUpdate
  PROVE  LET new == Delivery!Updated(u) IN
         /\ new \in PushStatus
         /\ u.kind = "running" => new.st = "running" /\ new.count = u.batches
         /\ u.kind = "complete" => new.st = "succeeded" /\ new.count = None
         /\ u.kind = "fail" => new.st = "failed" /\ new.count = status.count
         /\ u.kind = "track" =>
              /\ new.st = status.st /\ new.count = Delivery!Less(status.count)
              /\ new.numSent + new.numFailed = status.numSent + status.numFailed + Cardinality(DOMAIN u.results)
         /\ u.kind # "track" => new.numSent = status.numSent /\ new.numFailed = status.numFailed
  <1>1. PICK new : new = Delivery!Updated(u)
    OBVIOUS
  <1>2. u.kind \in {"complete", "fail", "running", "track"}
    BY UpdatesAre
  <1>3. CASE u.kind = "running"
    <2>1. u.batches \in Int
      BY <1>3, UpdatesAre
    <2>2. new = [status EXCEPT !.st = "running", !.count = u.batches]
      BY <1>1, <1>3 DEF Delivery!Updated
    <2> QED
      BY <1>1, <1>3, <2>1, <2>2 DEF PushStatus
  <1>4. CASE u.kind = "complete"
    <2>1. new = [status EXCEPT !.st = "succeeded", !.count = None]
      BY <1>1, <1>4 DEF Delivery!Updated
    <2> QED
      BY <1>1, <1>4, <2>1 DEF PushStatus
  <1>5. CASE u.kind = "fail"
    <2>1. new = [status EXCEPT !.st = "failed"]
      BY <1>1, <1>5 DEF Delivery!Updated
    <2> QED
      BY <1>1, <1>5, <2>1 DEF PushStatus
  <1>6. CASE u.kind = "track"
    <2>1. PICK all : all = Cardinality(DOMAIN u.results)
      OBVIOUS
    <2>2. PICK yes : yes = Delivery!Transmitted(u.results)
      OBVIOUS
    <2>3. all \in Nat /\ yes \in Nat /\ yes <= all
      <3>1. IsFiniteSet(DOMAIN u.results)
        BY <1>6, UpdatesAre, DevicesAreFinite, FS_Subset
      <3>2. PICK S \in SUBSET (DOMAIN u.results) : yes = Cardinality(S)
        BY <2>2, CountsAreCounts DEF Delivery!Transmitted
      <3>3. IsFiniteSet(S) /\ Cardinality(S) <= all
        BY <2>1, <3>1, FS_Subset
      <3> QED
        BY <2>1, <3>1, <3>2, <3>3, FS_CardinalityType
    <2>4. PICK less : less = Delivery!Less(status.count)
      OBVIOUS
    <2>5. less \in Int
      BY <2>4 DEF Delivery!Less, PushStatus
    <2>6. Delivery!Tracked(u) = [status EXCEPT !.count = less, !.numSent = @ + yes, !.numFailed = @ + all - yes]
      <3>1. all = Delivery!Cardinality(DOMAIN u.results)
        BY <2>1, CountsAreCounts
      <3> QED
        BY <2>2, <2>4, <3>1, Zenon DEF Delivery!Tracked
    <2>7. new = Delivery!Tracked(u)
      BY <1>1, <1>6 DEF Delivery!Updated
    <2>8. /\ status.numSent \in Nat /\ status.numFailed \in Nat
          /\ status.numSent + yes \in Nat /\ status.numFailed + all - yes \in Nat
      BY <2>3 DEF PushStatus
    <2>9. new = [status EXCEPT !.count = less, !.numSent = @ + yes, !.numFailed = @ + all - yes]
      BY <2>6, <2>7
    <2>10. /\ new \in PushStatus /\ new.st = status.st /\ new.count = less
           /\ new.numSent = status.numSent + yes /\ new.numFailed = status.numFailed + all - yes
      BY <2>5, <2>8, <2>9 DEF PushStatus
    <2>11. new.numSent + new.numFailed = status.numSent + status.numFailed + all
      BY <2>3, <2>8, <2>10
    <2> QED
      BY <1>1, <1>6, <2>1, <2>4, <2>10, <2>11
  <1> QED
    BY <1>2, <1>3, <1>4, <1>5, <1>6

\* The installations: what happened is remembered, and who stayed is still wanted.
LEMMA RowsMove ==
  ASSUME Delivery!Constants, PushTypes, Delivery!Next
  PROVE  /\ happened \subseteq happened' /\ push' = push
         /\ rows' \in [PushIds -> Delivery!Device \cup {None}]
         /\ stayed' \subseteq stayed /\ stayed' \subseteq Delivery!Wanted'
         /\ "came" \notin happened' => Delivery!Wanted' \subseteq Delivery!Wanted
         /\ {"came", "left"} \cap happened' = {} => Delivery!Wanted' = Delivery!Wanted /\ stayed' = stayed
  <1>1. /\ rows \in [PushIds -> Delivery!Device \cup {None}] /\ stayed \subseteq Delivery!Wanted
        /\ \A i \in PushIds : i \in Delivery!Wanted <=> rows[i] # None /\ rows[i].token
        /\ Delivery!Wanted \subseteq PushIds
        /\ None \notin Delivery!Device
    BY DEF PushTypes, Delivery!Wanted, Delivery!Constants
  <1>2. \A i \in PushIds : i \in Delivery!Wanted' <=> rows'[i] # None /\ rows'[i].token
    BY DEF Delivery!Wanted
  <1>3. Delivery!Wanted' \subseteq PushIds
    BY DEF Delivery!Wanted
  <1>4. CASE UNCHANGED rows /\ happened \subseteq happened' /\ push' = push /\ stayed' = stayed
    BY <1>1, <1>4 DEF Delivery!Wanted
  <1>5. CASE Delivery!BadgeUpdate
    <2>1. /\ rows' = [i \in PushIds |-> IF i \in Delivery!Wanted THEN [rows[i] EXCEPT !.badge = Delivery!Badge(@)] ELSE rows[i]]
          /\ happened' = happened /\ push' = push /\ stayed' = stayed
      BY <1>5 DEF Delivery!BadgeUpdate, Delivery!Then
    <2>2. ASSUME NEW i \in Delivery!Wanted
          PROVE  /\ rows'[i] = [rows[i] EXCEPT !.badge = Delivery!Badge(@)] /\ rows[i] \in Delivery!Device
                 /\ rows'[i] \in Delivery!Device /\ rows'[i].token
      <3>1. rows'[i] = [rows[i] EXCEPT !.badge = Delivery!Badge(@)] /\ rows[i] \in Delivery!Device /\ rows[i].token
        BY <1>1, <2>1, Zenon
      <3>2. Delivery!Badge(rows[i].badge) \in Nat
        BY <3>1 DEF Delivery!Badge, Delivery!Device
      <3>3. PICK b \in Nat : rows'[i] = [rows[i] EXCEPT !.badge = b]
        BY <3>1, <3>2, Zenon
      <3>4. rows'[i] \in Delivery!Device /\ rows'[i].token
        BY <3>1, <3>3 DEF Delivery!Device
      <3> QED
        BY <3>1, <3>4
    <2>3. \A i \in PushIds \ Delivery!Wanted : rows'[i] = rows[i]
      BY <2>1
    <2>4. DOMAIN rows' = PushIds /\ rows' = [i \in PushIds |-> rows'[i]]
      BY <2>1
    <2>5. rows' \in [PushIds -> Delivery!Device \cup {None}]
      <3>1. \A i \in PushIds : rows'[i] \in Delivery!Device \cup {None}
        BY <1>1, <2>2, <2>3
      <3> QED
        BY <2>4, <3>1
    <2>6. Delivery!Wanted' = Delivery!Wanted
      BY <1>1, <1>2, <1>3, <2>2, <2>3
    <2> QED
      BY <1>1, <2>1, <2>5, <2>6
  <1>6. CASE Delivery!RemoveTokens
    <2>1. /\ rows' = [i \in PushIds |-> IF i \in invalid /\ rows[i] # None THEN [rows[i] EXCEPT !.token = FALSE] ELSE rows[i]]
          /\ happened' = happened \cup {"left"} /\ push' = push /\ stayed' = stayed \ invalid
      BY <1>6 DEF Delivery!RemoveTokens
    <2>2. ASSUME NEW i \in PushIds, i \in invalid, rows[i] # None
          PROVE  rows'[i] \in Delivery!Device /\ ~ rows'[i].token
      <3>1. rows'[i] = [rows[i] EXCEPT !.token = FALSE] /\ rows[i] \in Delivery!Device
        BY <1>1, <2>1, <2>2, Zenon
      <3> QED
        BY <3>1 DEF Delivery!Device
    <2>3. \A i \in PushIds : ~ (i \in invalid /\ rows[i] # None) => rows'[i] = rows[i]
      BY <2>1
    <2>4. DOMAIN rows' = PushIds /\ rows' = [i \in PushIds |-> rows'[i]]
      BY <2>1
    <2>5. rows' \in [PushIds -> Delivery!Device \cup {None}]
      <3>1. \A i \in PushIds : rows'[i] \in Delivery!Device \cup {None}
        BY <1>1, <2>2, <2>3
      <3> QED
        BY <2>4, <3>1
    <2>6. Delivery!Wanted' \subseteq Delivery!Wanted /\ Delivery!Wanted \ invalid \subseteq Delivery!Wanted'
      BY <1>1, <1>2, <1>3, <2>2, <2>3
    <2> QED
      BY <1>1, <2>1, <2>5, <2>6
  <1>7. ASSUME NEW i \in PushIds, Delivery!Register(i) PROVE
             /\ rows' \in [PushIds -> Delivery!Device \cup {None}] /\ happened' = happened \cup {"came"}
             /\ push' = push /\ stayed' = stayed /\ stayed \subseteq Delivery!Wanted'
    <2>1. PICK l \in Locales \cup {None} : rows' = [rows EXCEPT ![i] = [token |-> TRUE, locale |-> l, badge |-> 0]]
      BY <1>7 DEF Delivery!Register
    <2>2. [token |-> TRUE, locale |-> l, badge |-> 0] \in Delivery!Device
      BY DEF Delivery!Device
    <2>3. happened' = happened \cup {"came"} /\ push' = push /\ stayed' = stayed /\ rows[i] = None
      BY <1>7 DEF Delivery!Register
    <2>4. rows' \in [PushIds -> Delivery!Device \cup {None}]
      BY <1>1, <2>1, <2>2
    <2>5. \A j \in PushIds \ {i} : rows'[j] = rows[j]
      BY <1>1, <2>1
    <2> QED
      BY <1>1, <1>2, <2>3, <2>4, <2>5
  <1>8. ASSUME NEW i \in PushIds, Delivery!Unregister(i) PROVE
             /\ rows' \in [PushIds -> Delivery!Device \cup {None}] /\ happened' = happened \cup {"left"}
             /\ push' = push /\ stayed' = stayed \ {i} /\ stayed' \subseteq Delivery!Wanted'
             /\ Delivery!Wanted' \subseteq Delivery!Wanted
    <2>1. rows' = [rows EXCEPT ![i] = None] /\ happened' = happened \cup {"left"} /\ push' = push /\ stayed' = stayed \ {i}
      BY <1>8 DEF Delivery!Unregister
    <2>2. rows' \in [PushIds -> Delivery!Device \cup {None}] /\ rows'[i] = None /\ \A j \in PushIds \ {i} : rows'[j] = rows[j]
      BY <1>1, <2>1
    <2> QED
      BY <1>1, <1>2, <1>3, <2>1, <2>2
  <1>9. CASE Delivery!SetInitial \/ Delivery!Enqueue \/ Delivery!Fail
    BY <1>4, <1>9 DEF Delivery!SetInitial, Delivery!Enqueue, Delivery!Fail, Delivery!Then
  <1>10. CASE \E s \in Delivery!Skips : Delivery!Serve(s)
    <2>1. UNCHANGED rows /\ happened \subseteq happened' /\ push' = push /\ stayed' = stayed
      BY <1>10 DEF Delivery!Serve
    <2> QED
      BY <1>4, <2>1
  <1>11. CASE \E s \in Delivery!Skips : \E g \in SUBSET PushIds : Delivery!Answer(s, g) \/ Delivery!NoAnswer(s, g)
    <2>1. UNCHANGED rows /\ happened \subseteq happened' /\ push' = push /\ stayed' = stayed
      BY <1>11 DEF Delivery!Answer, Delivery!NoAnswer, Delivery!Unsent
    <2> QED
      BY <1>4, <2>1
  <1>12. CASE \E h \in Delivery!Handlers : Delivery!Update(h)
    <2>1. UNCHANGED rows /\ happened \subseteq happened' /\ push' = push /\ stayed' = stayed
      BY <1>12 DEF Delivery!Update
    <2> QED
      BY <1>4, <2>1
  <1> QED
    BY <1>1, <1>5, <1>6, <1>7, <1>8, <1>9, <1>10, <1>11, <1>12 DEF Delivery!Next, Delivery!Step

LEMMA GroupsAreGroups ==
  ASSUME NEW S \in SUBSET PushIds
  PROVE  Delivery!Groups(S) \in SUBSET (SUBSET PushIds)
  <1>1. \A T \in SUBSET PushIds : Delivery!ByBadge(T) \in SUBSET (SUBSET PushIds)
    BY DEF Delivery!ByBadge
  <1>2. Delivery!ByLocale(S) \in SUBSET (SUBSET PushIds)
    BY DEF Delivery!ByLocale
  <1>3. PICK bodies \in SUBSET (SUBSET PushIds) :
          Delivery!Groups(S) = IF push.badge = "increment" THEN UNION {Delivery!ByBadge(g) : g \in bodies} ELSE bodies
    BY <1>2 DEF Delivery!Groups
  <1>4. UNION {Delivery!ByBadge(g) : g \in bodies} \in SUBSET (SUBSET PushIds)
    BY <1>1
  <1> QED
    BY <1>3, <1>4

\* A served batch leaves as many sendings open as there are groups; an update is the first of its queue.
LEMMA QueueTypes ==
  ASSUME Delivery!Constants, PushTypes, NEW h \in Delivery!Handlers, Delivery!Update(h)
  PROVE  /\ Head(updates[h]) \in PushUpdate /\ Tail(updates[h]) \in Seq(PushUpdate) /\ updates[h] # <<>>
         /\ status' = Delivery!Updated(Head(updates[h]))
         /\ updates' = [updates EXCEPT ![h] = IF Delivery!IsLast(Head(updates[h]))
                                              THEN Append(Tail(@), Delivery!Complete) ELSE Tail(@)]
         /\ updates' \in [Delivery!Handlers -> Seq(PushUpdate)]
         /\ updates'[h] = IF Delivery!IsLast(Head(updates[h])) THEN Append(Tail(updates[h]), Delivery!Complete)
                          ELSE Tail(updates[h])
         /\ \A k \in Delivery!Handlers \ {h} : updates'[k] = updates[k]
         /\ UNCHANGED <<push, rows, stage, batches, sent, stayed>>
  <1>1. updates[h] # <<>> /\ updates[h] \in Seq(PushUpdate) /\ UNCHANGED <<push, rows, stage, batches, sent, stayed>>
    BY DEF Delivery!Update, PushTypes
  <1>2. Head(updates[h]) \in PushUpdate /\ Tail(updates[h]) \in Seq(PushUpdate)
    BY <1>1, HeadTailProperties
  <1>3. status' = Delivery!Updated(Head(updates[h]))
    BY Zenon DEF Delivery!Update
  <1>4. updates' = [updates EXCEPT ![h] = IF Delivery!IsLast(Head(updates[h]))
                                          THEN Append(Tail(@), Delivery!Complete) ELSE Tail(@)]
    BY Zenon DEF Delivery!Update
  <1>5. PICK q : q = IF Delivery!IsLast(Head(updates[h])) THEN Append(Tail(updates[h]), Delivery!Complete)
                     ELSE Tail(updates[h])
    OBVIOUS
  <1>6. q \in Seq(PushUpdate)
    <2>1. Append(Tail(updates[h]), Delivery!Complete) \in Seq(PushUpdate)
      BY <1>2, CompleteIsUpdate, AppendProperties
    <2> QED
      BY <1>2, <1>5, <2>1
  <1>7. updates' = [updates EXCEPT ![h] = q]
    BY <1>4, <1>5, Zenon
  <1>8. updates \in [Delivery!Handlers -> Seq(PushUpdate)]
    BY DEF PushTypes
  <1>9. updates' \in [Delivery!Handlers -> Seq(PushUpdate)] /\ updates'[h] = q
        /\ \A k \in Delivery!Handlers \ {h} : updates'[k] = updates[k]
    BY <1>6, <1>7, <1>8
  <1> QED
    BY <1>1, <1>2, <1>3, <1>4, <1>5, <1>9

LEMMA QueueGrows ==
  ASSUME PushTypes, NEW h \in Delivery!Handlers, NEW u \in PushUpdate, NEW new,
         new = [updates EXCEPT ![h] = Append(@, u)]
  PROVE  /\ new \in [Delivery!Handlers -> Seq(PushUpdate)] /\ new[h] = Append(updates[h], u)
         /\ \A k \in Delivery!Handlers \ {h} : new[k] = updates[k]
  <1>1. updates \in [Delivery!Handlers -> Seq(PushUpdate)]
    BY DEF PushTypes
  <1>2. Append(updates[h], u) \in Seq(PushUpdate)
    BY <1>1, AppendProperties
  <1> QED
    BY <1>1, <1>2

\* The batches cut, and the first update.
LEMMA EnqueueIs ==
  ASSUME Delivery!Constants, PushTypes, Delivery!Enqueue
  PROVE  \E n \in Nat : \E count \in Nat : \E u \in PushUpdate :
         /\ count = Cardinality(Delivery!Wanted) /\ count <= Cardinality(PushIds)
         /\ count <= n * BatchSize /\ (n - 1) * BatchSize < count /\ (count = 0 => n = 0)
         /\ u.kind = IF count = 0 THEN "complete" ELSE "running"
         /\ u.kind = "running" => u.batches = n
         /\ updates' = [updates EXCEPT ![Delivery!Controller] = Append(@, u)]
         /\ batches' \in [Delivery!Skips -> Delivery!Batch \cup {None}]
         /\ \A s \in Delivery!Skips : batches'[s] = IF s < n * BatchSize THEN [st |-> "queued", open |-> {}] ELSE None
  <1>1. PICK count : count = Cardinality(Delivery!Wanted)
    OBVIOUS
  <1>2. count \in Nat /\ count <= Cardinality(PushIds) /\ BatchSize \in Nat \ {0}
    <2>1. Delivery!Wanted \in SUBSET PushIds
      BY DEF Delivery!Wanted
    <2>2. IsFiniteSet(Delivery!Wanted)
      BY <2>1, DevicesAreFinite, FS_Subset
    <2> QED
      BY <1>1, <2>1, <2>2, DevicesAreFinite, FS_Subset, FS_CardinalityType
  <1>3. PICK n : n = Delivery!BatchesFor(count)
    OBVIOUS
  <1>4. n \in Nat /\ count <= n * BatchSize /\ (n - 1) * BatchSize < count /\ (count = 0 => n = 0)
    BY <1>2, <1>3, BatchesAreEnough DEF Delivery!BatchesFor
  <1>5. PICK u : u = IF count = 0 THEN Delivery!Complete ELSE Delivery!SetRunning(n)
    OBVIOUS
  <1>6. u \in PushUpdate /\ u.kind = (IF count = 0 THEN "complete" ELSE "running") /\ (u.kind = "running" => u.batches = n)
    BY <1>4, <1>5, CompleteIsUpdate
  <1>7. count = Delivery!Cardinality(Delivery!Wanted)
    BY <1>1, CountsAreCounts
  <1>8. /\ updates' = [updates EXCEPT ![Delivery!Controller] = Append(@, u)]
        /\ batches' = [s \in Delivery!Skips |-> IF s < n * BatchSize THEN [st |-> "queued", open |-> {}] ELSE None]
    BY <1>3, <1>5, <1>7, Zenon DEF Delivery!Enqueue
  <1>9. [st |-> "queued", open |-> {}] \in Delivery!Batch
    BY DEF Delivery!Batch
  <1>10. /\ batches' \in [Delivery!Skips -> Delivery!Batch \cup {None}]
         /\ \A s \in Delivery!Skips : batches'[s] = IF s < n * BatchSize THEN [st |-> "queued", open |-> {}] ELSE None
    BY <1>8, <1>9
  <1> QED
    BY <1>1, <1>2, <1>4, <1>6, <1>8, <1>10

\* What serving a batch finds and sends.
LEMMA ServeIs ==
  ASSUME Delivery!Constants, PushTypes, NEW s \in Delivery!Skips, Delivery!Serve(s)
  PROVE  \E found \in SUBSET PushIds : \E open \in SUBSET (SUBSET PushIds) :
         /\ found = Delivery!Page(s) /\ open = IF found = {} THEN {} ELSE Delivery!Groups(found)
         /\ batches[s] # None /\ batches[s].st = "queued"
         /\ batches' \in [Delivery!Skips -> Delivery!Batch \cup {None}]
         /\ batches'[s] \in Delivery!Batch /\ batches'[s].st = "served" /\ batches'[s].open = open
         /\ \A t \in Delivery!Skips \ {s} : batches'[t] = batches[t]
         /\ sent' \in [PushIds -> Nat]
         /\ \A i \in PushIds : sent'[i] = sent[i] + (IF i \in found THEN 1 ELSE 0)
         /\ happened' = happened \cup (IF found = {} THEN {"nobody"} ELSE {})
                                 \cup (IF Delivery!Overdue(s) THEN {"disorder"} ELSE {})
         /\ UNCHANGED <<push, rows, stage, status, updates, stayed>>
  <1>1. PICK found : found = Delivery!Page(s)
    OBVIOUS
  <1>2. PICK open : open = IF found = {} THEN {} ELSE Delivery!Groups(found)
    OBVIOUS
  <1>3. found \in SUBSET PushIds
    BY <1>1 DEF Delivery!Page, Delivery!Wanted
  <1>4. open \in SUBSET (SUBSET PushIds)
    BY <1>2, <1>3, GroupsAreGroups
  <1>5. /\ batches[s] # None /\ batches[s].st = "queued" /\ UNCHANGED <<push, rows, stage, status, updates, stayed>>
        /\ happened' = happened \cup (IF found = {} THEN {"nobody"} ELSE {})
                                 \cup (IF Delivery!Overdue(s) THEN {"disorder"} ELSE {})
    BY <1>1 DEF Delivery!Serve
  <1>6. PICK b : b = [st |-> "served", open |-> open]
    OBVIOUS
  <1>7. b \in Delivery!Batch /\ b.st = "served" /\ b.open = open
    BY <1>4, <1>6 DEF Delivery!Batch
  <1>8. batches' = [batches EXCEPT ![s] = b]
    BY <1>1, <1>2, <1>6, Zenon DEF Delivery!Serve
  <1>9. sent' = [i \in PushIds |-> sent[i] + IF i \in found THEN 1 ELSE 0]
    BY <1>1, Zenon DEF Delivery!Serve
  <1>10. /\ batches' \in [Delivery!Skips -> Delivery!Batch \cup {None}] /\ batches'[s] = b
         /\ \A t \in Delivery!Skips \ {s} : batches'[t] = batches[t]
    BY <1>7, <1>8 DEF PushTypes
  <1>11. sent' \in [PushIds -> Nat] /\ \A i \in PushIds : sent'[i] = sent[i] + (IF i \in found THEN 1 ELSE 0)
    <2>1. \A i \in PushIds : sent[i] + (IF i \in found THEN 1 ELSE 0) \in Nat
      BY DEF PushTypes
    <2> QED
      BY <1>9, <2>1
  <1> QED
    BY <1>2, <1>1, <1>3, <1>4, <1>5, <1>7, <1>10, <1>11

LEMMA AnswerIs ==
  ASSUME Delivery!Constants, PushTypes, NEW s \in Delivery!Skips, NEW g \in SUBSET PushIds,
         Delivery!Answer(s, g) \/ Delivery!NoAnswer(s, g)
  PROVE  /\ batches[s] \in Delivery!Batch /\ g \in batches[s].open
         /\ batches' \in [Delivery!Skips -> Delivery!Batch \cup {None}] /\ batches'[s] # None
         /\ batches'[s].st = batches[s].st /\ batches'[s].open = batches[s].open \ {g}
         /\ \A t \in Delivery!Skips \ {s} : batches'[t] = batches[t]
         /\ UNCHANGED <<push, rows, stage, status, sent, stayed>>
         /\ Delivery!Answer(s, g) => /\ happened' = happened
                                     /\ \E u \in PushUpdate : /\ u.kind = "track" /\ DOMAIN u.results = g
                                                              /\ updates' = [updates EXCEPT ![s] = Append(@, u)]
         /\ Delivery!NoAnswer(s, g) => updates' = updates /\ happened' = happened \cup {"unanswered"}
  <1>1. /\ batches[s] # None /\ g \in batches[s].open
        /\ batches' = [batches EXCEPT ![s].open = @ \ {g}]
        /\ UNCHANGED <<push, rows, stage, status, sent, stayed>>
    BY DEF Delivery!Answer, Delivery!NoAnswer, Delivery!Unsent
  <1>2. batches[s] \in Delivery!Batch
    BY <1>1 DEF PushTypes
  <1>3. PICK b : b = [batches[s] EXCEPT !.open = @ \ {g}]
    OBVIOUS
  <1>4. b \in Delivery!Batch /\ b.st = batches[s].st /\ b.open = batches[s].open \ {g}
    BY <1>2, <1>3 DEF Delivery!Batch
  <1>5. batches' = [batches EXCEPT ![s] = b]
    BY <1>1, <1>3, Zenon
  <1>6. /\ batches' \in [Delivery!Skips -> Delivery!Batch \cup {None}] /\ batches'[s] = b
        /\ \A t \in Delivery!Skips \ {s} : batches'[t] = batches[t]
    BY <1>4, <1>5 DEF PushTypes
  <1>7. b # None
    BY <1>4 DEF Delivery!Constants
  <1>8. ASSUME Delivery!Answer(s, g)
        PROVE  /\ happened' = happened
               /\ \E u \in PushUpdate : /\ u.kind = "track" /\ DOMAIN u.results = g
                                        /\ updates' = [updates EXCEPT ![s] = Append(@, u)]
    <2>1. PICK results \in [g -> push.answers] :
            updates' = [updates EXCEPT ![s] = Append(@, [kind |-> "track", results |-> results])]
      BY <1>8, Zenon DEF Delivery!Answer
    <2>2. PICK u : u = [kind |-> "track", results |-> results]
      OBVIOUS
    <2>3. push \in Pushes
      BY DEF PushTypes
    <2>4. u \in TrackOf(g, push.answers) /\ u.kind = "track" /\ DOMAIN u.results = g
      BY <2>2 DEF TrackOf
    <2>5. u \in Tracks
      BY <2>3, <2>4 DEF Tracks
    <2>6. u \in PushUpdate
      BY <2>5 DEF PushUpdate
    <2>7. updates' = [updates EXCEPT ![s] = Append(@, u)]
      BY <2>1, <2>2, Zenon
    <2> QED
      BY <1>8, <2>4, <2>6, <2>7 DEF Delivery!Answer, Delivery!Unsent
  <1>9. Delivery!NoAnswer(s, g) => updates' = updates /\ happened' = happened \cup {"unanswered"}
    BY DEF Delivery!NoAnswer
  <1> QED
    BY <1>1, <1>2, <1>4, <1>6, <1>7, <1>8, <1>9

\* Before anything is cut: the status is stored, badges are written, or a call fails.
LEMMA EarlyIs ==
  ASSUME Delivery!Constants, PushTypes
  PROVE  /\ Delivery!SetInitial =>
              /\ stage = "store" /\ status' \in PushStatus
              /\ status'.st = IF push.scheduled THEN "scheduled" ELSE "pending"
              /\ status'.count = status.count /\ status'.numSent = status.numSent /\ status'.numFailed = status.numFailed
              /\ stage' \in {"badge", "end", "count"} /\ (stage' = "count" => ~ push.scheduled)
              /\ UNCHANGED <<push, batches, updates, sent, happened>>
         /\ Delivery!BadgeUpdate =>
              /\ stage = "badge" /\ stage' \in {"count", "end"} /\ (stage' = "count" => ~ push.scheduled)
              /\ UNCHANGED <<push, status, batches, updates, sent, happened>>
         /\ Delivery!Fail =>
              /\ stage \in {"badge", "count"} /\ stage' = "end"
              /\ UNCHANGED <<push, status, batches, sent, happened>>
              /\ \E u \in PushUpdate : u.kind = "fail" /\ updates' = [updates EXCEPT ![Delivery!Controller] = Append(@, u)]
  <1>1. ASSUME Delivery!SetInitial
        PROVE  /\ stage = "store" /\ status' \in PushStatus
               /\ status'.st = IF push.scheduled THEN "scheduled" ELSE "pending"
               /\ status'.count = status.count /\ status'.numSent = status.numSent /\ status'.numFailed = status.numFailed
               /\ stage' \in {"badge", "end", "count"} /\ (stage' = "count" => ~ push.scheduled)
               /\ UNCHANGED <<push, batches, updates, sent, happened>>
    <2>1. PICK st \in {"scheduled", "pending"} : st = IF push.scheduled THEN "scheduled" ELSE "pending"
      OBVIOUS
    <2>2. status' = [status EXCEPT !.st = st]
      BY <1>1, <2>1 DEF Delivery!SetInitial
    <2>3. /\ status' \in PushStatus /\ status'.st = st
          /\ status'.count = status.count /\ status'.numSent = status.numSent /\ status'.numFailed = status.numFailed
      BY <2>2 DEF PushTypes, PushStatus
    <2>4. stage = "store" /\ UNCHANGED <<push, batches, updates, sent, happened>>
          /\ stage' = CASE push.badge # None -> "badge" [] push.scheduled -> "end" [] OTHER -> "count"
      BY <1>1 DEF Delivery!SetInitial, Delivery!Then
    <2> QED
      BY <2>1, <2>3, <2>4
  <1>2. ASSUME Delivery!BadgeUpdate
        PROVE  /\ stage = "badge" /\ stage' \in {"count", "end"} /\ (stage' = "count" => ~ push.scheduled)
               /\ UNCHANGED <<push, status, batches, updates, sent, happened>>
    BY <1>2 DEF Delivery!BadgeUpdate, Delivery!Then
  <1>3. ASSUME Delivery!Fail
        PROVE  /\ stage \in {"badge", "count"} /\ stage' = "end"
               /\ UNCHANGED <<push, status, batches, sent, happened>>
               /\ \E u \in PushUpdate : u.kind = "fail" /\ updates' = [updates EXCEPT ![Delivery!Controller] = Append(@, u)]
    <2>1. stage \in {"badge", "count"} /\ stage' = "end" /\ UNCHANGED <<push, status, batches, sent, happened>>
      BY <1>3 DEF Delivery!Fail, Delivery!Then
    <2>2. PICK u : u = [kind |-> "fail"]
      OBVIOUS
    <2>3. u \in PushUpdate /\ u.kind = "fail"
      BY <2>2, CompleteIsUpdate
    <2>4. updates' = [updates EXCEPT ![Delivery!Controller] = Append(@, u)]
      BY <1>3, <2>2, Zenon DEF Delivery!Fail
    <2> QED
      BY <2>1, <2>3, <2>4
  <1> QED
    BY <1>1, <1>2, <1>3

\* Others come and go.
LEMMA ElsewhereIs ==
  ASSUME Delivery!RemoveTokens \/ \E i \in PushIds : Delivery!Register(i) \/ Delivery!Unregister(i)
  PROVE  /\ UNCHANGED <<push, stage, status, batches, updates, sent>>
         /\ happened' \subseteq happened \cup {"came", "left"}
  BY DEF Delivery!RemoveTokens, Delivery!Register, Delivery!Unregister

LEMMA PushTyped ==
  ASSUME Delivery!Constants, PushTypes, Delivery!Next
  PROVE  PushTypes'
  <1>1. /\ push' \in Pushes /\ rows' \in [PushIds -> Delivery!Device \cup {None}] /\ stayed' \subseteq Delivery!Wanted'
    BY RowsMove DEF PushTypes
  <1> DEFINE Rest == /\ stage \in {"store", "badge", "count", "end"} /\ status \in PushStatus
                     /\ batches \in [Delivery!Skips -> Delivery!Batch \cup {None}]
                     /\ updates \in [Delivery!Handlers -> Seq(PushUpdate)] /\ sent \in [PushIds -> Nat]
  <1>2. Rest
    BY DEF PushTypes
  <1>3. Delivery!Controller \in Delivery!Handlers /\ Delivery!Skips \subseteq Delivery!Handlers
    BY SkipsAre
  <1>4. ASSUME Delivery!SetInitial \/ Delivery!BadgeUpdate PROVE Rest'
    BY <1>2, <1>4, EarlyIs
  <1>5. ASSUME Delivery!Fail PROVE Rest'
    <2>1. PICK u \in PushUpdate : updates' = [updates EXCEPT ![Delivery!Controller] = Append(@, u)]
      BY <1>5, EarlyIs
    <2> QED
      BY <1>2, <1>3, <1>5, <2>1, EarlyIs, QueueGrows
  <1>6. ASSUME Delivery!Enqueue PROVE Rest'
    <2>1. PICK u \in PushUpdate : updates' = [updates EXCEPT ![Delivery!Controller] = Append(@, u)]
      BY <1>6, EnqueueIs
    <2>2. batches' \in [Delivery!Skips -> Delivery!Batch \cup {None}]
      BY <1>6, EnqueueIs
    <2>3. updates' \in [Delivery!Handlers -> Seq(PushUpdate)]
      BY <1>3, <2>1, QueueGrows
    <2>4. UNCHANGED status /\ stage' = "end" /\ sent' = sent
      BY <1>6 DEF Delivery!Enqueue, Delivery!Then
    <2> QED
      BY <1>2, <2>2, <2>3, <2>4
  <1>7. ASSUME NEW s \in Delivery!Skips, Delivery!Serve(s) PROVE Rest'
    BY <1>2, <1>7, ServeIs
  <1>8. ASSUME NEW s \in Delivery!Skips, NEW g \in SUBSET PushIds, Delivery!Answer(s, g) \/ Delivery!NoAnswer(s, g)
        PROVE  Rest'
    <2>1. batches' \in [Delivery!Skips -> Delivery!Batch \cup {None}] /\ UNCHANGED <<stage, status, sent>>
      BY <1>8, AnswerIs
    <2>2. updates' \in [Delivery!Handlers -> Seq(PushUpdate)]
      <3>1. CASE Delivery!NoAnswer(s, g)
        BY <1>2, <1>8, <3>1, AnswerIs
      <3>2. CASE Delivery!Answer(s, g)
        <4>1. PICK u \in PushUpdate : updates' = [updates EXCEPT ![s] = Append(@, u)]
          BY <3>2, AnswerIs
        <4> QED
          BY <1>3, <4>1, QueueGrows
      <3> QED
        BY <1>8, <3>1, <3>2
    <2> QED
      BY <1>2, <2>1, <2>2
  <1>9. ASSUME NEW h \in Delivery!Handlers, Delivery!Update(h) PROVE Rest'
    <2>1. Head(updates[h]) \in PushUpdate /\ status' = Delivery!Updated(Head(updates[h]))
          /\ updates' \in [Delivery!Handlers -> Seq(PushUpdate)] /\ UNCHANGED <<stage, batches, sent>>
      BY <1>9, QueueTypes
    <2>2. Delivery!Updated(Head(updates[h])) \in PushStatus
      BY <1>2, <2>1, UpdatedIs
    <2> QED
      BY <1>2, <2>1, <2>2
  <1>10. ASSUME Delivery!RemoveTokens \/ \E i \in PushIds : Delivery!Register(i) \/ Delivery!Unregister(i) PROVE Rest'
    BY <1>2, <1>10, ElsewhereIs
  <1>11. Rest'
    BY <1>4, <1>5, <1>6, <1>7, <1>8, <1>9, <1>10 DEF Delivery!Next, Delivery!Step
  <1> QED
    BY <1>1, <1>11 DEF PushTypes

-----------------------------------------------------------------------------
\* An installation's place in the order of those a push is for, and the batch it is in.
OnPage(i, s) == Delivery!Before(i) \in s..(s + BatchSize - 1)
Queued(s) == batches[s] # None /\ batches[s].st = "queued"
Handed(s) == batches[s] # None /\ batches[s].st = "served"
Undisturbed == {"came", "left"} \cap happened = {}

\* The queue has been given the push.
Started ==
  \/ status.st \in {"running", "succeeded"}
  \/ \E h \in Delivery!Handlers : \E k \in 1..Len(updates[h]) : updates[h][k].kind # "fail"
  \/ \E s \in Delivery!Skips : batches[s] # None

\* Undisturbed, an installation has been sent to when the batch of its place was served, and
\* there is such a batch; in order, those sent to have their places before every open batch.
PushOrder ==
  /\ Started => stage = "end"
  /\ stage # "end" => \A i \in PushIds : sent[i] = 0
  /\ Undisturbed =>
       /\ stayed = Delivery!Wanted
       /\ \A i \in stayed, s \in Delivery!Skips : OnPage(i, s) => sent[i] = IF Handed(s) THEN 1 ELSE 0
       /\ Started => \A i \in stayed, s \in Delivery!Skips : OnPage(i, s) => batches[s] # None
  /\ {"came", "disorder"} \cap happened = {} =>
       \A i \in stayed : \/ sent[i] = 0
                         \/ sent[i] = 1 /\ \A s \in Delivery!Skips : Queued(s) => Delivery!Before(i) < s

LEMMA Places ==
  ASSUME Delivery!Constants
  PROVE  /\ \A i \in PushIds : Delivery!Before(i) \in 0..Cardinality(PushIds)
         /\ \A i \in PushIds : Delivery!Before(i)' \in 0..Cardinality(PushIds)
         /\ \A i \in Delivery!Wanted : i \in PushIds /\ Delivery!Before(i) < Cardinality(Delivery!Wanted)
         /\ Delivery!Wanted' \subseteq Delivery!Wanted => \A i \in PushIds : Delivery!Before(i)' <= Delivery!Before(i)
         /\ Delivery!Wanted' = Delivery!Wanted => \A i \in PushIds : Delivery!Before(i)' = Delivery!Before(i)
  <1>1. IsFiniteSet(PushIds) /\ PushIds \subseteq Nat /\ Cardinality(PushIds) \in Nat
    BY DevicesAreFinite
  <1>2. Delivery!Wanted \in SUBSET PushIds /\ Delivery!Wanted' \in SUBSET PushIds
    BY DEF Delivery!Wanted
  <1>3. IsFiniteSet(Delivery!Wanted) /\ Cardinality(Delivery!Wanted) \in Nat
    BY <1>1, <1>2, FS_Subset, FS_CardinalityType
  <1> DEFINE Early(i) == {j \in Delivery!Wanted : j < i}
  <1>4. \A i : Delivery!Before(i) = Cardinality(Early(i)) /\ Delivery!Before(i)' = Cardinality(Early(i)')
    BY CountsAreCounts DEF Delivery!Before
  <1>5. ASSUME NEW i \in PushIds PROVE Delivery!Before(i) \in 0..Cardinality(PushIds) /\ IsFiniteSet(Early(i))
    <2>1. Early(i) \in SUBSET PushIds
      BY <1>2
    <2>2. IsFiniteSet(Early(i)) /\ Cardinality(Early(i)) <= Cardinality(PushIds) /\ Cardinality(Early(i)) \in Nat
      <3> HIDE DEF Early
      <3> QED
        BY <1>1, <2>1, FS_Subset, FS_CardinalityType
    <2> QED
      BY <1>1, <1>4, <2>2
  <1>9. ASSUME NEW i \in PushIds PROVE Delivery!Before(i)' \in 0..Cardinality(PushIds)
    <2>1. Early(i)' \in SUBSET PushIds
      BY <1>2
    <2>2. PICK S \in SUBSET PushIds : Delivery!Before(i)' = Cardinality(S)
      BY <1>4, <2>1
    <2>3. Cardinality(S) <= Cardinality(PushIds) /\ Cardinality(S) \in Nat
      BY <1>1, FS_Subset, FS_CardinalityType
    <2> QED
      BY <1>1, <2>2, <2>3
  <1>6. ASSUME NEW i \in Delivery!Wanted PROVE i \in PushIds /\ Delivery!Before(i) < Cardinality(Delivery!Wanted)
    <2>1. i \in PushIds /\ ~ (i < i)
      BY <1>1, <1>2
    <2>2. Early(i) \in SUBSET Delivery!Wanted /\ Early(i) # Delivery!Wanted
      BY <2>1, <1>6
    <2>3. IsFiniteSet(Early(i)) /\ Cardinality(Early(i)) <= Cardinality(Delivery!Wanted)
          /\ Cardinality(Delivery!Wanted) # Cardinality(Early(i)) /\ Cardinality(Early(i)) \in Nat
      <3> HIDE DEF Early
      <3> QED
        BY <1>3, <2>2, FS_Subset, FS_CardinalityType
    <2> QED
      BY <1>3, <1>4, <2>1, <2>3
  <1>7. ASSUME NEW i \in PushIds, Delivery!Wanted' \subseteq Delivery!Wanted PROVE Delivery!Before(i)' <= Delivery!Before(i)
    <2>1. Early(i)' \in SUBSET Early(i)
      BY <1>7
    <2>2. IsFiniteSet(Early(i))
      BY <1>5
    <2>3. Cardinality(Early(i)') <= Cardinality(Early(i))
      <3>1. \A S, T : IsFiniteSet(S) /\ T \in SUBSET S => Cardinality(T) <= Cardinality(S)
        BY FS_Subset
      <3> HIDE DEF Early
      <3> QED
        BY <2>1, <2>2, <3>1
    <2> QED
      BY <1>4, <2>3
  <1>8. Delivery!Wanted' = Delivery!Wanted => \A i \in PushIds : Delivery!Before(i)' = Delivery!Before(i)
    BY <1>4
  <1> QED
    BY <1>5, <1>6, <1>7, <1>8, <1>9

\* Every place is on one page, which the installations there may be have.
LEMMA OnePage ==
  ASSUME Delivery!Constants, NEW i \in PushIds
  PROVE  /\ \E s \in Delivery!Skips : OnPage(i, s) /\ s <= Delivery!Before(i)
         /\ \A s, t \in Delivery!Skips : OnPage(i, s) /\ OnPage(i, t) => s = t
         /\ \A s, t \in Delivery!Skips : OnPage(i, s) /\ s < t => Delivery!Before(i) < t
  <1>1. Delivery!Before(i) \in 0..Cardinality(PushIds) /\ Cardinality(PushIds) \in Nat /\ BatchSize \in Nat \ {0}
    BY Places, DevicesAreFinite
  <1>2. PICK place \in Nat : place = Delivery!Before(i)
    BY <1>1
  <1>3. PICK s \in Nat : s % BatchSize = 0 /\ s <= place /\ place \in s..(s + BatchSize - 1)
    BY <1>1, PageOfPlace
  <1>4. s \in Delivery!Skips /\ OnPage(i, s)
    BY <1>1, <1>2, <1>3, SkipsAre DEF OnPage
  <1>5. ASSUME NEW t \in Delivery!Skips, NEW u \in Delivery!Skips, OnPage(i, t), t < u PROVE Delivery!Before(i) < u
    <2>1. t \in Nat /\ u \in Nat /\ t % BatchSize = 0 /\ u % BatchSize = 0
      BY SkipsAre
    <2>2. t + BatchSize <= u
      BY <1>1, <1>5, <2>1, PagesApart
    <2>3. place < t + BatchSize
      BY <1>1, <1>2, <1>5, <2>1 DEF OnPage
    <2> QED
      BY <1>1, <1>2, <2>1, <2>2, <2>3
  <1>6. ASSUME NEW t \in Delivery!Skips, NEW u \in Delivery!Skips, OnPage(i, t), OnPage(i, u), t # u PROVE FALSE
    <2>1. t \in Nat /\ u \in Nat /\ t <= place /\ u <= place
      BY <1>1, <1>2, <1>6, SkipsAre DEF OnPage
    <2>2. t < u \/ u < t
      BY <1>6, <2>1
    <2>3. ~ (t < u) /\ ~ (u < t)
      BY <1>2, <1>5, <1>6, <2>1
    <2> QED
      BY <2>2, <2>3
  <1> QED
    BY <1>2, <1>3, <1>4, <1>5, <1>6

LEMMA StartedOnce ==
  ASSUME Delivery!Constants, PushTypes, Delivery!Next, ~ Delivery!Enqueue, Started'
  PROVE  Started
  <1>1. /\ \A s \in Delivery!Skips : s \in Delivery!Handlers
        /\ Delivery!Controller \in Delivery!Handlers
        /\ \A h \in Delivery!Handlers : updates[h] \in Seq(PushUpdate)
    BY SkipsAre DEF PushTypes
  <1>2. CASE Delivery!SetInitial
    BY <1>2, EarlyIs DEF Started
  <1>3. CASE Delivery!BadgeUpdate
    BY <1>3, EarlyIs DEF Started
  <1>4. CASE Delivery!Fail
    <2>1. PICK u \in PushUpdate : u.kind = "fail" /\ updates' = [updates EXCEPT ![Delivery!Controller] = Append(@, u)]
      BY <1>4, EarlyIs
    <2>2. /\ updates'[Delivery!Controller] = Append(updates[Delivery!Controller], u)
          /\ \A h \in Delivery!Handlers \ {Delivery!Controller} : updates'[h] = updates[h]
      BY <1>1, <2>1, QueueGrows
    <2>3. UNCHANGED <<status, batches>>
      BY <1>4, EarlyIs
    <2>4. ASSUME NEW h \in Delivery!Handlers, NEW k \in 1..Len(updates'[h]), updates'[h][k].kind # "fail"
          PROVE  Started
      <3>1. CASE h = Delivery!Controller
        <4>1. updates[h] \in Seq(PushUpdate) /\ updates'[h] = Append(updates[h], u)
          BY <1>1, <2>2, <3>1
        <4>2. k \in 1..Len(updates[h]) /\ updates'[h][k] = updates[h][k]
          BY <2>1, <2>4, <4>1, AppendProperties
        <4> QED
          BY <2>4, <4>2 DEF Started
      <3>2. CASE h # Delivery!Controller
        BY <2>2, <2>4, <3>2 DEF Started
      <3> QED
        BY <3>1, <3>2
    <2> QED
      BY <2>3, <2>4 DEF Started
  <1>5. ASSUME NEW s \in Delivery!Skips, Delivery!Serve(s) PROVE Started
    BY <1>5 DEF Started, Delivery!Serve
  <1>6. ASSUME NEW s \in Delivery!Skips, NEW g \in SUBSET PushIds, Delivery!Answer(s, g) \/ Delivery!NoAnswer(s, g)
        PROVE  Started
    BY <1>6 DEF Started, Delivery!Answer, Delivery!NoAnswer
  <1>7. ASSUME NEW h \in Delivery!Handlers, Delivery!Update(h) PROVE Started
    <2>1. PICK u : u = Head(updates[h])
      OBVIOUS
    <2>2. u \in PushUpdate /\ updates[h] # <<>> /\ updates[h] \in Seq(PushUpdate)
      BY <1>1, <1>7, <2>1, QueueTypes
    <2>3. u = updates[h][1] /\ 1 \in 1..Len(updates[h])
      BY <2>1, <2>2, HeadTailProperties
    <2>4. CASE u.kind # "fail"
      BY <2>3, <2>4 DEF Started
    <2>5. CASE u.kind = "fail"
      <3>1. ~ Delivery!IsLast(u)
        BY <2>5 DEF Delivery!IsLast
      <3>2. updates'[h] = Tail(updates[h]) /\ (\A k \in Delivery!Handlers \ {h} : updates'[k] = updates[k]) /\ batches' = batches
        BY <1>7, <2>1, <3>1, QueueTypes
      <3>3. status'.st = "failed"
        <4>1. status' = Delivery!Updated(u) /\ status \in PushStatus
          BY <1>7, <2>1, QueueTypes DEF PushTypes
        <4> QED
          BY <2>2, <2>5, <4>1, UpdatedIs
      <3>4. ASSUME NEW j \in Delivery!Handlers, NEW k \in 1..Len(updates'[j]), updates'[j][k].kind # "fail"
            PROVE  Started
        <4>1. CASE j = h
          <5>1. k + 1 \in 1..Len(updates[h]) /\ updates'[h][k] = updates[h][k + 1]
            <6>1. PICK n \in Nat : n = Len(updates[h])
              BY <2>2
            <6>2. updates'[h] = Tail(updates[h]) /\ Len(Tail(updates[h])) = n - 1
                  /\ \A m \in 1..(n - 1) : Tail(updates[h])[m] = updates[h][m + 1]
              BY <2>2, <3>2, <6>1, HeadTailProperties
            <6>3. k \in 1..(n - 1)
              BY <3>4, <4>1, <6>2
            <6> QED
              BY <6>1, <6>2, <6>3
          <5> QED
            BY <3>4, <4>1, <5>1 DEF Started
        <4>2. CASE j # h
          BY <3>2, <3>4, <4>2 DEF Started
        <4> QED
          BY <4>1, <4>2
      <3> QED
        BY <3>2, <3>3, <3>4 DEF Started
    <2> QED
      BY <2>4, <2>5
  <1>8. CASE Delivery!RemoveTokens \/ \E i \in PushIds : Delivery!Register(i) \/ Delivery!Unregister(i)
    BY <1>8, ElsewhereIs DEF Started
  <1> QED
    BY <1>2, <1>3, <1>4, <1>5, <1>6, <1>7, <1>8 DEF Delivery!Next, Delivery!Step

\* A step that sends to nobody and cuts nothing leaves the order as it is.
LEMMA OrderStays ==
  ASSUME Delivery!Constants, PushTypes, PushOrder, Delivery!Next, ~ Delivery!Enqueue, sent' = sent,
         \A s \in Delivery!Skips : /\ batches'[s] = None <=> batches[s] = None
                                   /\ Queued(s)' <=> Queued(s)
                                   /\ Handed(s)' <=> Handed(s),
         stage = "end" => stage' = "end"
  PROVE  PushOrder'
  <1>1. /\ happened \subseteq happened' /\ stayed' \subseteq stayed /\ stayed' \subseteq Delivery!Wanted'
        /\ "came" \notin happened' => Delivery!Wanted' \subseteq Delivery!Wanted
        /\ {"came", "left"} \cap happened' = {} => Delivery!Wanted' = Delivery!Wanted /\ stayed' = stayed
    BY RowsMove
  <1>2. stayed \subseteq PushIds
    BY DEF PushTypes, Delivery!Wanted
  <1>3. Started' => Started
    BY StartedOnce
  <1>4. ASSUME Undisturbed' PROVE
          /\ stayed' = Delivery!Wanted'
          /\ \A i \in stayed', s \in Delivery!Skips : OnPage(i, s)' => sent'[i] = IF Handed(s)' THEN 1 ELSE 0
          /\ Started' => \A i \in stayed', s \in Delivery!Skips : OnPage(i, s)' => batches'[s] # None
    <2>1. Undisturbed /\ Delivery!Wanted' = Delivery!Wanted /\ stayed' = stayed
      BY <1>1, <1>4 DEF Undisturbed
    <2>2. \A i \in stayed : Delivery!Before(i)' = Delivery!Before(i)
      BY <1>2, <2>1, Places
    <2>3. \A i \in stayed, s \in Delivery!Skips : OnPage(i, s)' <=> OnPage(i, s)
      BY <2>2 DEF OnPage
    <2> QED
      BY <1>3, <2>1, <2>3 DEF PushOrder
  <1>5. ASSUME {"came", "disorder"} \cap happened' = {}, NEW i \in stayed' PROVE
          \/ sent'[i] = 0
          \/ sent'[i] = 1 /\ \A s \in Delivery!Skips : Queued(s)' => Delivery!Before(i)' < s
    <2>1. Delivery!Before(i)' <= Delivery!Before(i)
      BY <1>1, <1>2, <1>5, Places
    <2>2. Delivery!Before(i) \in Nat /\ Delivery!Before(i)' \in Nat
      <3>1. Delivery!Before(i) \in Nat
        BY <1>1, <1>2, DevicesAreFinite, Places
      <3>2. Delivery!Before(i)' \in Nat
        BY <1>1, <1>2, DevicesAreFinite, Places
      <3> QED
        BY <3>1, <3>2
    <2>3. \A s \in Delivery!Skips : s \in Nat
      BY SkipsAre
    <2> QED
      BY <1>1, <1>5, <2>1, <2>2, <2>3 DEF PushOrder
  <1>6. Started' => stage' = "end"
    BY <1>3 DEF PushOrder
  <1>7. stage' # "end" => \A i \in PushIds : sent'[i] = 0
    BY DEF PushOrder
  <1> QED
    BY <1>4, <1>5, <1>6, <1>7 DEF PushOrder, Undisturbed

LEMMA OrderServed ==
  ASSUME Delivery!Constants, PushTypes, PushOrder, NEW s \in Delivery!Skips, Delivery!Serve(s)
  PROVE  PushOrder'
  <1>1. PICK found \in SUBSET PushIds : \E open \in SUBSET (SUBSET PushIds) :
         /\ found = Delivery!Page(s) /\ open = IF found = {} THEN {} ELSE Delivery!Groups(found)
         /\ batches[s] # None /\ batches[s].st = "queued"
         /\ batches' \in [Delivery!Skips -> Delivery!Batch \cup {None}]
         /\ batches'[s] \in Delivery!Batch /\ batches'[s].st = "served" /\ batches'[s].open = open
         /\ \A t \in Delivery!Skips \ {s} : batches'[t] = batches[t]
         /\ sent' \in [PushIds -> Nat]
         /\ \A i \in PushIds : sent'[i] = sent[i] + (IF i \in found THEN 1 ELSE 0)
         /\ happened' = happened \cup (IF found = {} THEN {"nobody"} ELSE {})
                                 \cup (IF Delivery!Overdue(s) THEN {"disorder"} ELSE {})
         /\ UNCHANGED <<push, rows, stage, status, updates, stayed>>
    BY ServeIs
  <1>2. batches'[s] # None
    BY <1>1 DEF Delivery!Constants
  <1>3. \A t \in Delivery!Skips : batches'[t] = None <=> batches[t] = None
    BY <1>1, <1>2
  <1>4. Handed(s)' /\ ~ Handed(s) /\ Queued(s) /\ ~ Queued(s)'
    BY <1>1, <1>2 DEF Handed, Queued
  <1>5. \A t \in Delivery!Skips \ {s} : (Handed(t)' <=> Handed(t)) /\ (Queued(t)' <=> Queued(t))
    BY <1>1 DEF Handed, Queued
  <1>6. /\ Delivery!Wanted' = Delivery!Wanted /\ stayed' = stayed
        /\ stayed \subseteq Delivery!Wanted /\ Delivery!Wanted \subseteq PushIds
    BY <1>1 DEF Delivery!Wanted, PushTypes
  <1>7. \A i \in PushIds : Delivery!Before(i)' = Delivery!Before(i) /\ Delivery!Before(i) \in Nat
    BY <1>6, Places, DevicesAreFinite
  <1>8. \A i \in PushIds, t \in Delivery!Skips : OnPage(i, t)' <=> OnPage(i, t)
    BY <1>7 DEF OnPage
  <1>9. \A i \in Delivery!Wanted : i \in found <=> OnPage(i, s)
    BY <1>1 DEF Delivery!Page, OnPage
  <1>10. Started /\ Started' /\ stage' = "end"
    BY <1>1, <1>2 DEF Started, PushOrder
  <1>11. Undisturbed' => Undisturbed
    BY <1>1 DEF Undisturbed
  <1>12. ASSUME Undisturbed', NEW i \in stayed, NEW t \in Delivery!Skips, OnPage(i, t)
         PROVE  sent'[i] = IF Handed(t)' THEN 1 ELSE 0
    <2>1. i \in PushIds /\ i \in Delivery!Wanted
      BY <1>6
    <2>2. sent[i] = IF Handed(t) THEN 1 ELSE 0
      BY <1>11, <1>12 DEF PushOrder
    <2>3. sent'[i] = sent[i] + (IF i \in found THEN 1 ELSE 0)
      BY <1>1, <2>1
    <2>4. CASE t = s
      BY <1>4, <1>9, <1>12, <2>1, <2>2, <2>3, <2>4
    <2>5. CASE t # s
      <3>1. i \notin found
        BY <1>9, <1>12, <2>1, <2>5, OnePage
      <3>2. Handed(t)' <=> Handed(t)
        BY <1>5, <2>5
      <3> QED
        BY <2>2, <2>3, <3>1, <3>2
    <2> QED
      BY <2>4, <2>5
  <1>13. ASSUME Undisturbed' PROVE
          /\ stayed' = Delivery!Wanted'
          /\ \A i \in stayed', t \in Delivery!Skips : OnPage(i, t)' => sent'[i] = IF Handed(t)' THEN 1 ELSE 0
          /\ Started' => \A i \in stayed', t \in Delivery!Skips : OnPage(i, t)' => batches'[t] # None
    BY <1>3, <1>6, <1>8, <1>10, <1>11, <1>12, <1>13 DEF PushOrder
  <1>14. ASSUME {"came", "disorder"} \cap happened' = {}, NEW i \in stayed' PROVE
          \/ sent'[i] = 0
          \/ sent'[i] = 1 /\ \A t \in Delivery!Skips : Queued(t)' => Delivery!Before(i)' < t
    <2>1. {"came", "disorder"} \cap happened = {} /\ ~ Delivery!Overdue(s)
      BY <1>1, <1>14
    <2>2. i \in PushIds /\ i \in Delivery!Wanted /\ i \in stayed
      BY <1>6
    <2>3. \/ sent[i] = 0
          \/ sent[i] = 1 /\ \A t \in Delivery!Skips : Queued(t) => Delivery!Before(i) < t
      BY <2>1, <2>2 DEF PushOrder
    <2>4. CASE i \notin found
      <3>1. sent'[i] = sent[i]
        <4>1. sent[i] \in Nat
          BY <2>2 DEF PushTypes
        <4> QED
          BY <1>1, <2>2, <2>4, <4>1
      <3> QED
        BY <1>4, <1>5, <1>7, <2>2, <2>3, <3>1
    <2>5. CASE i \in found
      <3>1. OnPage(i, s)
        BY <1>9, <2>2, <2>5
      <3>2. s <= Delivery!Before(i) /\ s \in Nat
        BY <1>7, <2>2, <3>1, SkipsAre, DevicesAreFinite DEF OnPage
      <3>3. sent[i] = 0
        BY <1>4, <1>7, <2>2, <2>3, <3>2
      <3>4. sent'[i] = 1
        BY <1>1, <2>2, <2>5, <3>3
      <3>5. ASSUME NEW t \in Delivery!Skips, Queued(t)' PROVE Delivery!Before(i) < t
        <4>1. t # s /\ Queued(t)
          BY <1>4, <1>5, <3>5
        <4>2. ~ (t < s)
          BY <2>1, <4>1 DEF Delivery!Overdue, Queued
        <4>3. s < t
          BY <4>1, <4>2, <3>2, SkipsAre
        <4> QED
          BY <2>2, <3>1, <4>3, OnePage
      <3> QED
        BY <1>7, <2>2, <3>4, <3>5
    <2> QED
      BY <2>4, <2>5
  <1> QED
    BY <1>10, <1>13, <1>14 DEF PushOrder, Undisturbed

LEMMA OrderCut ==
  ASSUME Delivery!Constants, PushTypes, PushOrder, Delivery!Enqueue
  PROVE  PushOrder'
  <1>1. PICK n \in Nat, count \in Nat :
         /\ count = Cardinality(Delivery!Wanted) /\ count <= n * BatchSize
         /\ \A s \in Delivery!Skips : batches'[s] = IF s < n * BatchSize THEN [st |-> "queued", open |-> {}] ELSE None
    BY EnqueueIs
  <1>2. stage = "count" /\ stage' = "end" /\ UNCHANGED <<rows, status, sent, stayed, happened>>
    BY DEF Delivery!Enqueue, Delivery!Then
  <1>3. Delivery!Wanted' = Delivery!Wanted /\ stayed \subseteq Delivery!Wanted /\ Delivery!Wanted \subseteq PushIds
    BY <1>2 DEF Delivery!Wanted, PushTypes
  <1>4. /\ \A i \in PushIds : Delivery!Before(i)' = Delivery!Before(i) /\ Delivery!Before(i) \in Nat
        /\ \A i \in Delivery!Wanted : Delivery!Before(i) < count
    BY <1>1, <1>3, Places, DevicesAreFinite
  <1>5. \A i \in PushIds : sent[i] = 0
    BY <1>2 DEF PushOrder
  <1>6. [st |-> "queued", open |-> {}] \in Delivery!Batch
    BY DEF Delivery!Batch
  <1>7. \A s \in Delivery!Skips : /\ ~ Handed(s)'
                                  /\ s < n * BatchSize => batches'[s] # None
    BY <1>1, <1>6 DEF Handed, Delivery!Constants
  <1>8. ASSUME NEW i \in stayed, NEW s \in Delivery!Skips, OnPage(i, s)' PROVE batches'[s] # None
    <2>1. s <= Delivery!Before(i) /\ Delivery!Before(i) < count /\ s \in Nat /\ Delivery!Before(i) \in Nat
      BY <1>3, <1>4, <1>8, SkipsAre DEF OnPage
    <2>2. n * BatchSize \in Nat
      BY DevicesAreFinite
    <2>3. s < n * BatchSize
      BY <1>1, <2>1, <2>2
    <2> QED
      BY <1>7, <2>3
  <1> QED
    BY <1>2, <1>3, <1>5, <1>7, <1>8 DEF PushOrder, Undisturbed

LEMMA OrderKept ==
  ASSUME Delivery!Constants, PushTypes, PushOrder, Delivery!Next
  PROVE  PushOrder'
  <1>1. CASE Delivery!Enqueue
    BY <1>1, OrderCut
  <1>2. CASE \E s \in Delivery!Skips : Delivery!Serve(s)
    BY <1>2, OrderServed
  <1>3. CASE ~ Delivery!Enqueue /\ UNCHANGED <<sent, batches>> /\ (stage = "end" => stage' = "end")
    BY <1>3, OrderStays DEF Queued, Handed
  <1>4. ~ (Delivery!Enqueue /\ stage # "count")
    BY DEF Delivery!Enqueue
  <1>5. CASE (Delivery!SetInitial \/ Delivery!BadgeUpdate \/ Delivery!Fail) /\ ~ Delivery!Enqueue
    <2>1. UNCHANGED <<sent, batches>> /\ (stage = "end" => stage' = "end")
      BY <1>5, EarlyIs
    <2> QED
      BY <1>3, <1>5, <2>1
  <1>6. CASE (Delivery!RemoveTokens \/ \E i \in PushIds : Delivery!Register(i) \/ Delivery!Unregister(i)) /\ ~ Delivery!Enqueue
    <2>1. UNCHANGED <<sent, batches, stage>>
      BY <1>6, ElsewhereIs
    <2> QED
      BY <1>3, <1>6, <2>1
  <1>7. CASE (\E h \in Delivery!Handlers : Delivery!Update(h)) /\ ~ Delivery!Enqueue
    <2>1. UNCHANGED <<sent, batches, stage>>
      BY <1>7 DEF Delivery!Update
    <2> QED
      BY <1>3, <1>7, <2>1
  <1>8. ASSUME NEW s \in Delivery!Skips, NEW g \in SUBSET PushIds, Delivery!Answer(s, g) \/ Delivery!NoAnswer(s, g),
               ~ Delivery!Enqueue
        PROVE  PushOrder'
    <2>1. /\ batches[s] \in Delivery!Batch /\ batches'[s] # None /\ batches'[s].st = batches[s].st
          /\ \A t \in Delivery!Skips \ {s} : batches'[t] = batches[t]
          /\ UNCHANGED <<stage, sent>>
      BY <1>8, AnswerIs
    <2>2. batches[s] # None
      BY <2>1 DEF Delivery!Constants
    <2>3. \A t \in Delivery!Skips : /\ batches'[t] = None <=> batches[t] = None
                                    /\ Queued(t)' <=> Queued(t)
                                    /\ Handed(t)' <=> Handed(t)
      BY <2>1, <2>2 DEF Queued, Handed
    <2> QED
      BY <1>8, <2>1, <2>3, OrderStays
  <1> QED
    BY <1>1, <1>2, <1>5, <1>6, <1>7, <1>8 DEF Delivery!Next, Delivery!Step

LEMMA OrderReaches ==
  ASSUME Delivery!Constants, PushTypes, PushOrder
  PROVE  Delivery!ReachedOnce
  <1> SUFFICES ASSUME NEW i \in stayed
               PROVE  /\ stage = "end" /\ Delivery!Served /\ status.st \in {"running", "succeeded"} /\ Undisturbed
                           => sent[i] = 1
                      /\ {"came", "disorder"} \cap happened = {} => sent[i] <= 1
    BY DEF Delivery!ReachedOnce, Undisturbed
  <1>1. i \in PushIds
    BY DEF PushTypes, Delivery!Wanted
  <1>2. PICK s \in Delivery!Skips : OnPage(i, s)
    BY <1>1, OnePage
  <1>3. ASSUME Delivery!Served, status.st \in {"running", "succeeded"}, Undisturbed PROVE sent[i] = 1
    BY <1>2, <1>3 DEF PushOrder, Started, Delivery!Served, Handed
  <1> QED
    BY <1>3 DEF PushOrder

-----------------------------------------------------------------------------
\* With one body for all, a batch is one call of the adapter and one update: what is still
\* awaited of each, whose results are still to be counted, and what was lost for good.
Tracking(s) == updates[s] # <<>> /\ Head(updates[s]).kind = "track"
Completing(s) == updates[s] # <<>> /\ Head(updates[s]).kind = "complete"
Unsettled(s) == Queued(s) \/ (batches[s] # None /\ batches[s].open # {}) \/ Tracking(s)
Awaited == {s \in Delivery!Skips : Unsettled(s)}
Outs(s) == IF Tracking(s) THEN DOMAIN Head(updates[s]).results
           ELSE IF batches[s] # None THEN UNION batches[s].open ELSE {}
LostForGood == happened \cap {"nobody", "unanswered", "overtaken"} # {}
Owed == Cardinality(Awaited) + (IF LostForGood THEN 1 ELSE 0)

Shape(s) ==
  /\ updates[s] # <<>> => /\ Handed(s) /\ batches[s].open = {} /\ Tail(updates[s]) = <<>>
                          /\ Tracking(s) \/ Completing(s)
  /\ batches[s] # None => batches[s].open = {} \/ (Handed(s) /\ \E g : batches[s].open = {g})

LEMMA ShapeElsewhere ==
  ASSUME NEW s, batches'[s] = batches[s], updates'[s] = updates[s], Shape(s)
  PROVE  /\ Shape(s)' /\ Outs(s)' = Outs(s)
         /\ (Unsettled(s)' <=> Unsettled(s)) /\ (Completing(s)' <=> Completing(s)) /\ (Tracking(s)' <=> Tracking(s))
  BY DEF Shape, Outs, Unsettled, Completing, Tracking, Queued, Handed

\* A batch nobody published has neither sendings nor updates.
LEMMA ShapeUncut ==
  ASSUME NEW s, batches[s] = None, Shape(s)
  PROVE  updates[s] = <<>> /\ Outs(s) = {} /\ ~ Unsettled(s) /\ ~ Completing(s)
  BY DEF Shape, Outs, Unsettled, Completing, Tracking, Queued, Handed

LEMMA ShapeServed ==
  ASSUME Delivery!Constants, PushTypes, Delivery!OneBody, NEW s \in Delivery!Skips, Delivery!Serve(s), Shape(s)
  PROVE  \E found \in SUBSET PushIds :
         /\ Shape(s)' /\ Unsettled(s) /\ Outs(s) = {} /\ Outs(s)' = found
         /\ ~ Completing(s)' /\ (Unsettled(s)' <=> found # {})
         /\ \A t \in Delivery!Skips \ {s} : batches'[t] = batches[t]
         /\ \A i \in PushIds : sent'[i] = sent[i] + (IF i \in found THEN 1 ELSE 0)
         /\ happened' \subseteq happened \cup (IF found = {} THEN {"nobody"} ELSE {}) \cup {"disorder"}
         /\ happened \subseteq happened'
         /\ UNCHANGED <<push, rows, stage, status, updates, stayed>>
  <1>1. PICK found \in SUBSET PushIds : \E open \in SUBSET (SUBSET PushIds) :
         /\ found = Delivery!Page(s) /\ open = IF found = {} THEN {} ELSE Delivery!Groups(found)
         /\ batches[s] # None /\ batches[s].st = "queued"
         /\ batches' \in [Delivery!Skips -> Delivery!Batch \cup {None}]
         /\ batches'[s] \in Delivery!Batch /\ batches'[s].st = "served" /\ batches'[s].open = open
         /\ \A t \in Delivery!Skips \ {s} : batches'[t] = batches[t]
         /\ sent' \in [PushIds -> Nat]
         /\ \A i \in PushIds : sent'[i] = sent[i] + (IF i \in found THEN 1 ELSE 0)
         /\ happened' = happened \cup (IF found = {} THEN {"nobody"} ELSE {})
                                 \cup (IF Delivery!Overdue(s) THEN {"disorder"} ELSE {})
         /\ UNCHANGED <<push, rows, stage, status, updates, stayed>>
    BY ServeIs
  <1>2. Delivery!Groups(found) = {found}
    BY DEF Delivery!Groups, Delivery!OneBody
  <1>3. batches'[s].open = IF found = {} THEN {} ELSE {found}
    BY <1>1, <1>2
  <1>4. /\ batches'[s] # None /\ batches'[s].st = "served" /\ updates'[s] = updates[s]
        /\ batches[s] # None /\ batches[s].st = "queued"
    BY <1>1 DEF Delivery!Constants
  <1>5. updates[s] = <<>> /\ batches[s].open = {}
    BY <1>4 DEF Shape, Handed
  <1>6. Unsettled(s) /\ Outs(s) = {} /\ ~ Completing(s)' /\ ~ Tracking(s)'
    BY <1>4, <1>5 DEF Unsettled, Queued, Outs, Tracking, Completing
  <1>7. Shape(s)' /\ Outs(s)' = found /\ (Unsettled(s)' <=> found # {})
    BY <1>3, <1>4, <1>5, <1>6 DEF Shape, Unsettled, Queued, Handed, Outs
  <1>8. /\ \A t \in Delivery!Skips \ {s} : batches'[t] = batches[t]
        /\ \A i \in PushIds : sent'[i] = sent[i] + (IF i \in found THEN 1 ELSE 0)
        /\ UNCHANGED <<push, rows, stage, status, updates, stayed>>
    BY <1>1
  <1>9. /\ happened' \subseteq happened \cup (IF found = {} THEN {"nobody"} ELSE {}) \cup {"disorder"}
        /\ happened \subseteq happened'
    BY <1>1
  <1> QED
    BY <1>6, <1>7, <1>8, <1>9

LEMMA ShapeAnswered ==
  ASSUME Delivery!Constants, PushTypes, Delivery!OneBody, NEW s \in Delivery!Skips, NEW g \in SUBSET PushIds,
         Delivery!Answer(s, g) \/ Delivery!NoAnswer(s, g), Shape(s)
  PROVE  /\ Shape(s)' /\ Unsettled(s) /\ ~ Completing(s)'
         /\ \A t \in Delivery!Skips \ {s} : batches'[t] = batches[t] /\ updates'[t] = updates[t]
         /\ updates'[Delivery!Controller] = updates[Delivery!Controller]
         /\ UNCHANGED <<push, rows, stage, status, sent, stayed>>
         /\ \/ happened' = happened /\ Unsettled(s)' /\ Outs(s)' = Outs(s)
            \/ happened' = happened \cup {"unanswered"} /\ ~ Unsettled(s)'
  <1>1. /\ batches[s] \in Delivery!Batch /\ g \in batches[s].open
        /\ batches'[s] # None /\ batches'[s].st = batches[s].st /\ batches'[s].open = batches[s].open \ {g}
        /\ \A t \in Delivery!Skips \ {s} : batches'[t] = batches[t]
        /\ UNCHANGED <<push, rows, stage, status, sent, stayed>>
    BY AnswerIs
  <1>2. batches[s] # None /\ Handed(s) /\ batches[s].open = {g} /\ updates[s] = <<>>
    BY <1>1 DEF Shape, Delivery!Constants
  <1>3. Unsettled(s) /\ Outs(s) = g
    BY <1>2 DEF Unsettled, Outs, Tracking
  <1>4. batches'[s].open = {} /\ Handed(s)' /\ ~ Queued(s)'
    BY <1>1, <1>2 DEF Handed, Queued
  <1>5. ASSUME Delivery!NoAnswer(s, g)
        PROVE  updates' = updates /\ Shape(s)' /\ ~ Completing(s)' /\ ~ Unsettled(s)' /\ happened' = happened \cup {"unanswered"}
    <2>1. updates' = updates /\ happened' = happened \cup {"unanswered"}
      BY <1>5, AnswerIs
    <2>2. ~ Tracking(s)' /\ ~ Completing(s)' /\ updates'[s] = <<>>
      BY <1>2, <2>1 DEF Tracking, Completing
    <2> QED
      BY <1>1, <1>4, <2>1, <2>2 DEF Shape, Unsettled
  <1>6. ASSUME Delivery!Answer(s, g)
        PROVE  /\ \A h \in Delivery!Handlers \ {s} : updates'[h] = updates[h]
               /\ Shape(s)' /\ ~ Completing(s)' /\ Unsettled(s)' /\ Outs(s)' = g /\ happened' = happened
    <2>1. PICK u \in PushUpdate : u.kind = "track" /\ DOMAIN u.results = g /\ updates' = [updates EXCEPT ![s] = Append(@, u)]
      BY <1>6, AnswerIs
    <2>2. s \in Delivery!Handlers
      BY SkipsAre
    <2>3. updates'[s] = Append(updates[s], u) /\ \A h \in Delivery!Handlers \ {s} : updates'[h] = updates[h]
      BY <2>1, <2>2, QueueGrows
    <2>4. updates'[s] = <<u>>
      BY <1>2, <2>3
    <2>5. Head(updates'[s]) = u /\ Tail(updates'[s]) = <<>> /\ updates'[s] # <<>>
      BY <2>4
    <2>6. Tracking(s)' /\ ~ Completing(s)'
      BY <2>1, <2>5 DEF Tracking, Completing
    <2>7. Shape(s)' /\ Unsettled(s)'
      BY <1>1, <1>4, <2>5, <2>6 DEF Shape, Unsettled
    <2>8. Outs(s)' = g
      BY <2>1, <2>5, <2>6 DEF Outs
    <2> QED
      BY <1>6, <2>3, <2>6, <2>7, <2>8, AnswerIs
  <1>7. Delivery!Controller \in Delivery!Handlers /\ Delivery!Controller # s /\ Delivery!Skips \subseteq Delivery!Handlers
    BY SkipsAre
  <1> QED
    BY <1>1, <1>3, <1>5, <1>6, <1>7

LEMMA ShapeUpdated ==
  ASSUME Delivery!Constants, PushTypes, NEW s \in Delivery!Skips, Delivery!Update(s), Shape(s)
  PROVE  /\ \A t \in Delivery!Skips \ {s} : batches'[t] = batches[t] /\ updates'[t] = updates[t]
         /\ updates'[Delivery!Controller] = updates[Delivery!Controller]
         /\ UNCHANGED <<push, rows, stage, batches, sent, stayed>>
         /\ Shape(s)' /\ ~ Unsettled(s)' /\ Outs(s)' = {}
         /\ \/ /\ Tracking(s) /\ ~ Completing(s) /\ Unsettled(s) /\ Outs(s) \in SUBSET PushIds
               /\ status'.st = status.st /\ status'.count = Delivery!Less(status.count)
               /\ status'.numSent + status'.numFailed = status.numSent + status.numFailed + Cardinality(Outs(s))
               /\ Completing(s)' <=> Delivery!Less(status.count) = 0
               /\ happened' = IF status.st = "pending" THEN happened \cup {"overtaken"} ELSE happened
            \/ /\ Completing(s) /\ ~ Tracking(s) /\ ~ Unsettled(s) /\ Outs(s) = {} /\ updates'[s] = <<>>
               /\ status'.st = "succeeded" /\ happened' = happened
               /\ status'.numSent = status.numSent /\ status'.numFailed = status.numFailed
  <1>1. /\ s \in Delivery!Handlers /\ Delivery!Controller \in Delivery!Handlers /\ Delivery!Controller # s
        /\ Delivery!Skips \subseteq Delivery!Handlers
    BY SkipsAre
  <1>2. PICK u : u = Head(updates[s])
    OBVIOUS
  <1>3. /\ u \in PushUpdate /\ updates[s] # <<>> /\ status' = Delivery!Updated(u) /\ status \in PushStatus
        /\ updates'[s] = IF Delivery!IsLast(u) THEN Append(Tail(updates[s]), Delivery!Complete) ELSE Tail(updates[s])
        /\ \A k \in Delivery!Handlers \ {s} : updates'[k] = updates[k]
        /\ UNCHANGED <<push, rows, stage, batches, sent, stayed>>
    BY <1>1, <1>2, QueueTypes DEF PushTypes
  <1>4. /\ Handed(s) /\ batches[s].open = {} /\ Tail(updates[s]) = <<>> /\ u.kind \in {"track", "complete"}
        /\ Tracking(s) <=> u.kind = "track"
        /\ Completing(s) <=> u.kind = "complete"
    BY <1>2, <1>3 DEF Shape, Tracking, Completing
  <1>5. updates'[s] = IF Delivery!IsLast(u) THEN <<Delivery!Complete>> ELSE <<>>
    <2>1. Append(<<>>, Delivery!Complete) = <<Delivery!Complete>>
      OBVIOUS
    <2> QED
      BY <1>3, <1>4, <2>1
  <1>6. /\ Completing(s)' <=> Delivery!IsLast(u)
        /\ ~ Tracking(s)' /\ Handed(s)' /\ ~ Queued(s)' /\ ~ Queued(s)
        /\ updates'[s] # <<>> => Tail(updates'[s]) = <<>>
    <2>1. CASE Delivery!IsLast(u)
      <3>1. updates'[s] = <<Delivery!Complete>>
        BY <1>5, <2>1
      <3>2. Head(updates'[s]) = Delivery!Complete /\ Tail(updates'[s]) = <<>> /\ updates'[s] # <<>>
        BY <3>1
      <3> QED
        BY <1>3, <1>4, <2>1, <3>2, CompleteIsUpdate DEF Completing, Tracking, Handed, Queued
    <2>2. CASE ~ Delivery!IsLast(u)
      BY <1>3, <1>4, <1>5, <2>2 DEF Completing, Tracking, Handed, Queued
    <2> QED
      BY <2>1, <2>2
  <1>7. Shape(s)' /\ ~ Unsettled(s)' /\ Outs(s)' = {}
    <2>1. batches'[s] = batches[s] /\ batches[s].open = {} /\ UNION {} = {}
      BY <1>3, <1>4
    <2>2. ~ Unsettled(s)'
      BY <1>6, <2>1 DEF Unsettled
    <2>3. Outs(s)' = {}
      BY <1>6, <2>1 DEF Outs
    <2>4. updates'[s] # <<>> => Completing(s)'
      BY <1>5, <1>6
    <2> QED
      BY <1>6, <2>1, <2>2, <2>3, <2>4 DEF Shape
  <1>8. happened' = IF u.kind = "track" /\ status.st = "pending" THEN happened \cup {"overtaken"} ELSE happened
    BY <1>2 DEF Delivery!Update
  <1>9. CASE u.kind = "track"
    <2>1. Outs(s) = DOMAIN u.results /\ Unsettled(s)
      BY <1>2, <1>4, <1>9 DEF Outs, Unsettled
    <2>2. Outs(s) \in SUBSET PushIds
      BY <1>3, <1>9, <2>1, UpdatesAre
    <2>3. /\ status'.st = status.st /\ status'.count = Delivery!Less(status.count)
          /\ status'.numSent + status'.numFailed = status.numSent + status.numFailed + Cardinality(Outs(s))
      BY <1>3, <1>9, <2>1, UpdatedIs
    <2>4. Delivery!IsLast(u) <=> Delivery!Less(status.count) = 0
      BY <1>9 DEF Delivery!IsLast
    <2> QED
      BY <1>1, <1>3, <1>4, <1>6, <1>7, <1>8, <1>9, <2>1, <2>2, <2>3, <2>4
  <1>10. CASE u.kind = "complete"
    <2>1. ~ Unsettled(s) /\ Outs(s) = {}
      BY <1>4, <1>6, <1>10 DEF Unsettled, Outs
    <2>2. status'.st = "succeeded" /\ status'.numSent = status.numSent /\ status'.numFailed = status.numFailed
      BY <1>3, <1>10, UpdatedIs
    <2>3. ~ Delivery!IsLast(u)
      BY <1>10 DEF Delivery!IsLast
    <2>4. updates'[s] = <<>>
      BY <1>5, <2>3
    <2> QED
      BY <1>1, <1>3, <1>4, <1>7, <1>8, <1>10, <2>1, <2>2, <2>4
  <1> QED
    BY <1>4, <1>9, <1>10

\* The controller's only update.
LEMMA ControllerUpdated ==
  ASSUME Delivery!Constants, PushTypes, Delivery!Update(Delivery!Controller),
         Tail(updates[Delivery!Controller]) = <<>>, Head(updates[Delivery!Controller]).kind # "track"
  PROVE  \E u \in PushUpdate :
         /\ u = Head(updates[Delivery!Controller]) /\ updates[Delivery!Controller] # <<>>
         /\ updates'[Delivery!Controller] = <<>>
         /\ \A s \in Delivery!Skips : batches'[s] = batches[s] /\ updates'[s] = updates[s]
         /\ UNCHANGED <<push, rows, stage, batches, sent, stayed, happened>>
         /\ u.kind \in {"running", "complete", "fail"} /\ (u.kind = "running" => u.batches \in Nat)
         /\ u.kind = "running" => status'.st = "running" /\ status'.count = u.batches
         /\ u.kind = "complete" => status'.st = "succeeded" /\ status'.count = None
         /\ u.kind = "fail" => status'.st = "failed" /\ status'.count = status.count
         /\ status'.numSent = status.numSent /\ status'.numFailed = status.numFailed
  <1>1. Delivery!Controller \in Delivery!Handlers /\ Delivery!Skips \subseteq Delivery!Handlers
        /\ \A s \in Delivery!Skips : s # Delivery!Controller
    BY SkipsAre
  <1>2. PICK u : u = Head(updates[Delivery!Controller])
    OBVIOUS
  <1>3. ~ Delivery!IsLast(u)
    BY <1>2 DEF Delivery!IsLast
  <1>4. /\ u \in PushUpdate /\ updates[Delivery!Controller] # <<>> /\ status' = Delivery!Updated(u) /\ status \in PushStatus
        /\ updates'[Delivery!Controller] = Tail(updates[Delivery!Controller])
        /\ \A k \in Delivery!Handlers \ {Delivery!Controller} : updates'[k] = updates[k]
        /\ UNCHANGED <<push, rows, stage, batches, sent, stayed>>
    BY <1>1, <1>2, <1>3, QueueTypes DEF PushTypes
  <1>5. u.kind \in {"running", "complete", "fail"} /\ (u.kind = "running" => u.batches \in Nat)
    BY <1>2, <1>4, UpdatesAre
  <1>6. happened' = happened
    BY <1>2, <1>5 DEF Delivery!Update
  <1>7. /\ u.kind = "running" => status'.st = "running" /\ status'.count = u.batches
        /\ u.kind = "complete" => status'.st = "succeeded" /\ status'.count = None
        /\ u.kind = "fail" => status'.st = "failed" /\ status'.count = status.count
        /\ status'.numSent = status.numSent /\ status'.numFailed = status.numFailed
    BY <1>4, <1>5, UpdatedIs
  <1>8. /\ \A s \in Delivery!Skips : batches'[s] = batches[s] /\ updates'[s] = updates[s]
        /\ updates'[Delivery!Controller] = <<>>
        /\ UNCHANGED <<push, rows, stage, batches, sent, stayed, happened>>
    BY <1>1, <1>4, <1>6
  <1> QED
    BY <1>2, <1>4, <1>5, <1>7, <1>8

LEMMA AwaitedAre ==
  ASSUME Delivery!Constants
  PROVE  /\ IsFiniteSet(Awaited) /\ Cardinality(Awaited) \in Nat
         /\ Owed \in Nat /\ (Owed = 0 => Awaited = {} /\ ~ LostForGood)
         /\ IsFiniteSet(Awaited)' /\ Cardinality(Awaited)' \in Nat
  <1>1. Awaited \in SUBSET Delivery!Skips /\ Awaited' \in SUBSET Delivery!Skips
    BY DEF Awaited, Delivery!Skips
  <1>2. IsFiniteSet(Delivery!Skips)
    BY SkipsAre
  <1>3. IsFiniteSet(Awaited) /\ Cardinality(Awaited) \in Nat /\ IsFiniteSet(Awaited') /\ Cardinality(Awaited') \in Nat
    BY <1>1, <1>2, FS_Subset, FS_CardinalityType
  <1>4. Cardinality(Awaited) = 0 => Awaited = {}
    BY <1>3, FS_EmptySet
  <1> QED
    BY <1>3, <1>4 DEF Owed

\* A step of one batch.
LEMMA AwaitedMove ==
  ASSUME Delivery!Constants, NEW s \in Delivery!Skips,
         \A t \in Delivery!Skips \ {s} : batches'[t] = batches[t] /\ updates'[t] = updates[t],
         \A t \in Delivery!Skips : Shape(t), Shape(s)'
  PROVE  /\ \A t \in Delivery!Skips : Shape(t)'
         /\ \A t \in Delivery!Skips \ {s} : (Completing(t)' <=> Completing(t)) /\ Outs(t)' = Outs(t)
         /\ Unsettled(s) => Cardinality(Awaited') = Cardinality(Awaited) - (IF Unsettled(s)' THEN 0 ELSE 1)
         /\ ~ Unsettled(s) /\ ~ Unsettled(s)' => Awaited' = Awaited
  <1>1. ASSUME NEW t \in Delivery!Skips \ {s}
        PROVE  Shape(t)' /\ (Completing(t)' <=> Completing(t)) /\ Outs(t)' = Outs(t) /\ (Unsettled(t)' <=> Unsettled(t))
    BY <1>1, ShapeElsewhere
  <1>2. IsFiniteSet(Awaited) /\ Cardinality(Awaited) \in Nat
    BY AwaitedAre
  <1>3. \A t \in Delivery!Skips : /\ t \in Awaited <=> Unsettled(t)
                                  /\ t \in Awaited' <=> Unsettled(t)'
    BY DEF Awaited, Delivery!Skips
  <1>4. Awaited \subseteq Delivery!Skips /\ Awaited' \subseteq Delivery!Skips
    BY DEF Awaited, Delivery!Skips
  <1>5. ASSUME Unsettled(s) PROVE Cardinality(Awaited') = Cardinality(Awaited) - (IF Unsettled(s)' THEN 0 ELSE 1)
    <2>1. CASE Unsettled(s)'
      <3>1. Awaited' = Awaited
        BY <1>1, <1>3, <1>4, <1>5, <2>1
      <3> QED
        BY <1>2, <2>1, <3>1
    <2>2. CASE ~ Unsettled(s)'
      <3>1. Awaited' = Awaited \ {s} /\ s \in Awaited
        BY <1>1, <1>3, <1>4, <1>5, <2>2
      <3>2. Cardinality(Awaited \ {s}) = Cardinality(Awaited) - 1
        BY <1>2, <3>1, FS_RemoveElement
      <3> QED
        BY <2>2, <3>1, <3>2
    <2> QED
      BY <2>1, <2>2
  <1>6. ~ Unsettled(s) /\ ~ Unsettled(s)' => Awaited' = Awaited
    BY <1>1, <1>3, <1>4
  <1>7. \A t \in Delivery!Skips : Shape(t)'
    BY <1>1
  <1> QED
    BY <1>1, <1>5, <1>6, <1>7

\* No more batches than the update says.
LEMMA CutsAreFew ==
  ASSUME Delivery!Constants, NEW n \in Nat
  PROVE  Cardinality({s \in Delivery!Skips : s < n * BatchSize}) <= n
  <1> DEFINE S == {s \in Delivery!Skips : s < n * BatchSize}
             f == [s \in S |-> s \div BatchSize]
  <1>1. BatchSize \in Nat \ {0}
    BY DevicesAreFinite
  <1>2. ASSUME NEW s \in S PROVE (s \div BatchSize) \in 0..(n - 1) /\ s = BatchSize * (s \div BatchSize)
    <2>1. s \in Nat /\ s % BatchSize = 0 /\ s < n * BatchSize
      BY SkipsAre
    <2>2. PICK q \in Nat, r \in Nat : s = BatchSize * q + r /\ q = s \div BatchSize /\ r = s % BatchSize
      BY <1>1, <2>1, Remainder
    <2>3. s = BatchSize * q
      BY <1>1, <2>1, <2>2
    <2>4. CASE q >= n
      <3>1. BatchSize * q >= BatchSize * n
        BY <1>1, <2>4
      <3> QED
        BY <1>1, <2>1, <2>3, <3>1
    <2> QED
      BY <2>2, <2>3, <2>4
  <1>3. f \in Injection(S, 0..(n - 1))
    <2>1. f \in [S -> 0..(n - 1)]
      BY <1>2
    <2>2. ASSUME NEW s \in S, NEW t \in S, f[s] = f[t] PROVE s = t
      BY <1>2, <2>2
    <2> QED
      BY <2>1, <2>2 DEF Injection, IsInjective
  <1>4. IsFiniteSet(0..(n - 1)) /\ Cardinality(0..(n - 1)) = n
    <2>1. IsFiniteSet(0..(n - 1)) /\ Cardinality(0..(n - 1)) = IF 0 > n - 1 THEN 0 ELSE (n - 1) - 0 + 1
      BY FS_Interval
    <2> QED
      BY <2>1
  <1>5. Cardinality(S) <= Cardinality(0..(n - 1))
    <2> HIDE DEF f, S
    <2> QED
      BY <1>3, <1>4, FS_Injection
  <1> QED
    BY <1>4, <1>5

\* The phases of a push with one body: before its batches are cut, while its status is to
\* become running, while results are counted, when it has succeeded.  The count never falls
\* below what is owed, so it reaches zero only when nothing is.
Ctl == updates[Delivery!Controller]
PushWaiting ==
  /\ \A s \in Delivery!Skips : batches[s] = None
  /\ ~ LostForGood /\ status.st \notin {"running", "succeeded"} /\ status.count = None
  /\ stage \in {"badge", "count"} /\ ~ push.scheduled => status.st = "pending"
  /\ stage = "count" => ~ push.scheduled
  /\ \/ Ctl = <<>>
     \/ stage = "end" /\ Ctl # <<>> /\ Tail(Ctl) = <<>> /\ Head(Ctl).kind \in {"complete", "fail"}
PushCut ==
  /\ stage = "end" /\ status.st = "pending"
  /\ Ctl # <<>> /\ Tail(Ctl) = <<>> /\ Head(Ctl).kind = "running" /\ Owed <= Head(Ctl).batches
  /\ \A s \in Delivery!Skips : ~ Completing(s)
  /\ status.count = None \/ status.count < 0
PushCounting ==
  /\ stage = "end" /\ status.st = "running" /\ Ctl = <<>>
  /\ status.count \in Int /\ Owed <= status.count
  /\ \A s \in Delivery!Skips : Completing(s) => status.count = 0
  /\ \A s, t \in Delivery!Skips : Completing(s) /\ Completing(t) => s = t
PushDone ==
  /\ stage = "end" /\ status.st = "succeeded" /\ "unanswered" \notin happened
  /\ \A h \in Delivery!Handlers : updates[h] = <<>>
  /\ Awaited = {}
PushPhase ==
  /\ \A s \in Delivery!Skips : Shape(s)
  /\ PushWaiting \/ PushCut \/ PushCounting \/ PushDone

\* Where something is unsettled, results are awaited or counted.
LEMMA PhaseUnsettled ==
  ASSUME PushPhase, NEW s \in Delivery!Skips, Unsettled(s)
  PROVE  PushCut \/ PushCounting
  <1>1. ~ PushDone
    BY DEF PushDone, Awaited, Delivery!Skips
  <1>2. ~ PushWaiting
    BY ShapeUncut DEF PushWaiting, PushPhase
  <1> QED
    BY <1>1, <1>2 DEF PushPhase

\* A batch is served, answered or not: what is owed does not grow.
LEMMA PhaseServed ==
  ASSUME Delivery!Constants, PushTypes, PushPhase, NEW s \in Delivery!Skips, Unsettled(s),
         \A t \in Delivery!Skips \ {s} : batches'[t] = batches[t] /\ updates'[t] = updates[t],
         Shape(s)', ~ Completing(s)', Ctl' = Ctl, UNCHANGED <<stage, status>>,
         LostForGood' => LostForGood \/ ~ Unsettled(s)'
  PROVE  PushPhase'
  <1>1. /\ \A t \in Delivery!Skips : Shape(t)'
        /\ \A t \in Delivery!Skips : Completing(t)' => Completing(t)
        /\ Cardinality(Awaited') = Cardinality(Awaited) - (IF Unsettled(s)' THEN 0 ELSE 1)
    BY AwaitedMove DEF PushPhase
  <1>2. Owed' <= Owed
    BY <1>1, AwaitedAre DEF Owed
  <1>3. PICK old \in Nat, new \in Int : old = Owed /\ new = Owed' /\ new <= old
    BY <1>1, <1>2, AwaitedAre DEF Owed
  <1>4. CASE PushCut
    <2>1. Head(Ctl).batches \in Int
      <3>1. Ctl \in Seq(PushUpdate) /\ Ctl # <<>>
        BY <1>4, SkipsAre DEF PushTypes, Ctl, PushCut
      <3>2. Head(Ctl) \in PushUpdate
        BY <3>1, HeadTailProperties
      <3> QED
        BY <1>4, <3>2, UpdatesAre DEF PushCut
    <2>2. Owed' <= Head(Ctl).batches
      BY <1>3, <1>4, <2>1 DEF PushCut
    <2>3. PushCut'
      BY <1>1, <1>4, <2>2 DEF PushCut
    <2> QED
      BY <1>1, <2>3 DEF PushPhase
  <1>5. CASE PushCounting
    <2>1. Owed' <= status.count
      BY <1>3, <1>5 DEF PushCounting
    <2>2. PushCounting'
      BY <1>1, <1>5, <2>1 DEF PushCounting
    <2> QED
      BY <1>1, <2>2 DEF PushPhase
  <1> QED
    BY <1>4, <1>5, PhaseUnsettled

\* A result is counted, or the push completed.
LEMMA PhaseUpdated ==
  ASSUME Delivery!Constants, PushTypes, PushPhase, NEW s \in Delivery!Skips, Delivery!Update(s)
  PROVE  PushPhase'
  <1>1. Shape(s)
    BY DEF PushPhase
  <1>2. /\ \A t \in Delivery!Skips \ {s} : batches'[t] = batches[t] /\ updates'[t] = updates[t]
        /\ Ctl' = Ctl /\ UNCHANGED <<push, rows, stage, batches, sent, stayed>>
        /\ Shape(s)' /\ ~ Unsettled(s)'
    BY <1>1, ShapeUpdated DEF Ctl
  <1>3. /\ \A t \in Delivery!Skips : Shape(t)'
        /\ \A t \in Delivery!Skips \ {s} : Completing(t)' <=> Completing(t)
        /\ Unsettled(s) => Cardinality(Awaited') = Cardinality(Awaited) - 1
        /\ ~ Unsettled(s) => Awaited' = Awaited
    BY <1>2, AwaitedMove DEF PushPhase
  <1>4. CASE Tracking(s)
    <2>1. /\ Unsettled(s) /\ status'.st = status.st /\ status'.count = Delivery!Less(status.count)
          /\ Completing(s)' <=> Delivery!Less(status.count) = 0
          /\ happened' = IF status.st = "pending" THEN happened \cup {"overtaken"} ELSE happened
      BY <1>1, <1>4, ShapeUpdated
    <2>2. PICK c \in Nat, d \in Int : c = Cardinality(Awaited) /\ d = Cardinality(Awaited') /\ d = c - 1
      BY <1>3, <2>1, AwaitedAre
    <2>3. CASE PushCut
      <3>1. LostForGood' /\ status'.st = "pending"
        BY <2>1, <2>3 DEF PushCut, LostForGood
      <3>2. Owed' <= Owed /\ Owed \in Nat /\ Owed' \in Int
        BY <2>2, <3>1 DEF Owed
      <3>3. Head(Ctl).batches \in Int
        <4>1. Ctl \in Seq(PushUpdate) /\ Ctl # <<>>
          BY <2>3, SkipsAre DEF PushTypes, Ctl, PushCut
        <4>2. Head(Ctl) \in PushUpdate
          BY <4>1, HeadTailProperties
        <4> QED
          BY <2>3, <4>2, UpdatesAre DEF PushCut
      <3>4. Owed' <= Head(Ctl).batches
        BY <2>3, <3>2, <3>3 DEF PushCut
      <3>5. status'.count \in Int /\ status'.count < 0
        <4>1. status.count \in Int \cup {None} /\ None \notin Int
          BY DEF PushTypes, PushStatus, Delivery!Constants
        <4> QED
          BY <2>1, <2>3, <4>1 DEF PushCut, Delivery!Less
      <3>6. \A t \in Delivery!Skips : ~ Completing(t)'
        BY <1>3, <2>1, <2>3, <3>5 DEF PushCut
      <3>7. PushCut'
        BY <1>2, <2>3, <3>1, <3>4, <3>5, <3>6 DEF PushCut
      <3> QED
        BY <1>3, <3>7 DEF PushPhase
    <2>4. CASE PushCounting
      <3>1. happened' = happened /\ status'.st = "running"
        BY <2>1, <2>4 DEF PushCounting
      <3>2. LostForGood' <=> LostForGood
        BY <3>1 DEF LostForGood
      <3>3. Owed' = Owed - 1 /\ Owed \in Nat
        BY <2>2, <3>2 DEF Owed
      <3>4. s \in Awaited
        BY <2>1 DEF Awaited, Delivery!Skips
      <3>5. Owed # 0
        BY <3>4, AwaitedAre
      <3>6. status.count \in Int /\ status.count >= 1 /\ status'.count = status.count - 1 /\ Owed' <= status'.count
        <4>1. None \notin Int
          BY DEF Delivery!Constants
        <4>2. PICK count \in Int : count = status.count /\ Owed <= count
          BY <2>4 DEF PushCounting
        <4>3. count >= 1
          BY <3>3, <3>5, <4>2
        <4>4. status'.count = count - 1
          BY <2>1, <4>1, <4>2 DEF Delivery!Less
        <4> QED
          BY <3>3, <4>2, <4>3, <4>4
      <3>7. \A t \in Delivery!Skips \ {s} : ~ Completing(t)'
        BY <1>3, <2>4, <3>6 DEF PushCounting
      <3>8. Completing(s)' => status'.count = 0
        BY <2>1
      <3>9. PushCounting'
        BY <1>2, <2>4, <3>1, <3>6, <3>7, <3>8 DEF PushCounting
      <3> QED
        BY <1>3, <3>9 DEF PushPhase
    <2> QED
      BY <2>1, <2>3, <2>4, PhaseUnsettled
  <1>5. CASE ~ Tracking(s)
    <2>1. /\ Completing(s) /\ ~ Unsettled(s) /\ updates'[s] = <<>>
          /\ status'.st = "succeeded" /\ happened' = happened
      BY <1>1, <1>5, ShapeUpdated
    <2>2. PushCounting
      <3>1. ~ PushCut /\ ~ PushDone
        BY <2>1, SkipsAre DEF PushCut, PushDone, Completing
      <3>2. ~ PushWaiting
        BY <1>1, <2>1, ShapeUncut DEF PushWaiting
      <3> QED
        BY <3>1, <3>2 DEF PushPhase
    <2>3. Owed = 0
      BY <2>1, <2>2, AwaitedAre DEF PushCounting
    <2>4. Awaited = {} /\ ~ LostForGood /\ Awaited' = {}
      BY <1>3, <2>1, <2>3, AwaitedAre
    <2>5. ASSUME NEW t \in Delivery!Skips PROVE updates'[t] = <<>>
      <3>1. CASE t = s
        BY <2>1, <3>1
      <3>2. CASE t # s
        <4>1. ~ Completing(t)
          BY <2>1, <2>2, <3>2 DEF PushCounting
        <4>2. ~ Tracking(t)
          BY <2>4 DEF Awaited, Unsettled, Delivery!Skips
        <4> QED
          BY <1>2, <3>2, <4>1, <4>2 DEF PushPhase, Shape
      <3> QED
        BY <3>1, <3>2
    <2>6. PushDone'
      BY <1>2, <2>1, <2>2, <2>4, <2>5, SkipsAre DEF PushDone, PushCounting, Ctl, LostForGood
    <2> QED
      BY <1>3, <2>6 DEF PushPhase
  <1> QED
    BY <1>4, <1>5

\* What leaves batches and updates of batches alone.
LEMMA PhaseStays ==
  ASSUME PushPhase, \A s \in Delivery!Skips : batches'[s] = batches[s] /\ updates'[s] = updates[s]
  PROVE  /\ \A s \in Delivery!Skips : Shape(s)' /\ Outs(s)' = Outs(s)
         /\ \A s \in Delivery!Skips : Completing(s)' <=> Completing(s)
         /\ Awaited' = Awaited
         /\ (LostForGood' <=> LostForGood) => Owed' = Owed
  <1>1. \A s \in Delivery!Skips : /\ Shape(s)' /\ Outs(s)' = Outs(s)
                                  /\ Completing(s)' <=> Completing(s)
                                  /\ Unsettled(s)' <=> Unsettled(s)
    BY ShapeElsewhere DEF PushPhase
  <1>2. Awaited' = Awaited
    BY <1>1 DEF Awaited, Delivery!Skips
  <1> QED
    BY <1>1, <1>2 DEF Owed

LEMMA PhaseEarly ==
  ASSUME Delivery!Constants, PushTypes, PushPhase,
         Delivery!SetInitial \/ Delivery!BadgeUpdate \/ Delivery!Fail
  PROVE  PushPhase'
  <1>1. Delivery!Controller \in Delivery!Handlers /\ Delivery!Skips \subseteq Delivery!Handlers
        /\ \A s \in Delivery!Skips : s # Delivery!Controller
    BY SkipsAre
  <1>2. stage # "end" /\ UNCHANGED <<push, batches, happened>> /\ status'.count = status.count
    BY EarlyIs
  <1>3. PushWaiting /\ Ctl = <<>>
    BY <1>2 DEF PushPhase, PushWaiting, PushCut, PushCounting, PushDone
  <1>4. \A s \in Delivery!Skips : batches'[s] = None
    BY <1>2, <1>3 DEF PushWaiting
  <1>5. ~ LostForGood' /\ status'.count = None
    BY <1>2, <1>3 DEF PushWaiting, LostForGood
  <1>6. CASE Delivery!SetInitial
    <2>1. /\ status'.st = IF push.scheduled THEN "scheduled" ELSE "pending"
          /\ stage' \in {"badge", "end", "count"} /\ (stage' = "count" => ~ push.scheduled)
          /\ UNCHANGED <<push, updates>>
      BY <1>6, EarlyIs
    <2>2. PushWaiting'
      BY <1>3, <1>4, <1>5, <2>1 DEF PushWaiting, Ctl
    <2>3. \A s \in Delivery!Skips : batches'[s] = batches[s] /\ updates'[s] = updates[s]
      BY <1>2, <2>1
    <2> QED
      BY <2>2, <2>3, PhaseStays DEF PushPhase
  <1>7. CASE Delivery!BadgeUpdate
    <2>1. /\ stage = "badge" /\ stage' \in {"count", "end"} /\ (stage' = "count" => ~ push.scheduled)
          /\ UNCHANGED <<push, status, updates>>
      BY <1>7, EarlyIs
    <2>2. PushWaiting'
      BY <1>3, <1>4, <1>5, <2>1 DEF PushWaiting, Ctl
    <2>3. \A s \in Delivery!Skips : batches'[s] = batches[s] /\ updates'[s] = updates[s]
      BY <1>2, <2>1
    <2> QED
      BY <2>2, <2>3, PhaseStays DEF PushPhase
  <1>8. CASE Delivery!Fail
    <2>1. stage' = "end" /\ UNCHANGED <<push, status>>
      BY <1>8, EarlyIs
    <2>2. PICK u \in PushUpdate : u.kind = "fail" /\ updates' = [updates EXCEPT ![Delivery!Controller] = Append(@, u)]
      BY <1>8, EarlyIs
    <2>3. /\ Ctl' = Append(Ctl, u)
          /\ \A s \in Delivery!Skips : updates'[s] = updates[s]
      BY <1>1, <2>2, QueueGrows DEF Ctl
    <2>4. Ctl' = <<u>>
      BY <1>3, <2>3
    <2>5. Ctl' # <<>> /\ Tail(Ctl') = <<>> /\ Head(Ctl').kind = "fail"
      BY <2>2, <2>4
    <2>6. PushWaiting'
      BY <1>3, <1>4, <1>5, <2>1, <2>5 DEF PushWaiting
    <2>7. \A s \in Delivery!Skips : batches'[s] = batches[s] /\ updates'[s] = updates[s]
      BY <1>2, <2>3
    <2> QED
      BY <2>6, <2>7, PhaseStays DEF PushPhase
  <1> QED
    BY <1>6, <1>7, <1>8

LEMMA PhaseEnqueued ==
  ASSUME Delivery!Constants, PushTypes, PushPhase, Delivery!Enqueue
  PROVE  PushPhase'
  <1>1. Delivery!Controller \in Delivery!Handlers /\ Delivery!Skips \subseteq Delivery!Handlers /\ Delivery!Skips \subseteq Nat
        /\ \A s \in Delivery!Skips : s # Delivery!Controller
    BY SkipsAre
  <1>2. stage = "count" /\ stage' = "end" /\ UNCHANGED <<push, status, happened>>
    BY DEF Delivery!Enqueue, Delivery!Then
  <1>3. PushWaiting /\ Ctl = <<>> /\ status.st = "pending"
    BY <1>2 DEF PushPhase, PushWaiting, PushCut, PushCounting, PushDone
  <1>4. PICK n \in Nat : \E count \in Nat : \E u \in PushUpdate :
         /\ count = Cardinality(Delivery!Wanted) /\ count <= Cardinality(PushIds)
         /\ count <= n * BatchSize /\ (n - 1) * BatchSize < count /\ (count = 0 => n = 0)
         /\ u.kind = IF count = 0 THEN "complete" ELSE "running"
         /\ u.kind = "running" => u.batches = n
         /\ updates' = [updates EXCEPT ![Delivery!Controller] = Append(@, u)]
         /\ batches' \in [Delivery!Skips -> Delivery!Batch \cup {None}]
         /\ \A s \in Delivery!Skips : batches'[s] = IF s < n * BatchSize THEN [st |-> "queued", open |-> {}] ELSE None
    BY EnqueueIs
  <1>5. PICK u \in PushUpdate :
         /\ (u.kind = "complete" /\ n = 0) \/ (u.kind = "running" /\ u.batches = n)
         /\ updates' = [updates EXCEPT ![Delivery!Controller] = Append(@, u)]
    BY <1>4
  <1>6. PICK cut : cut = [st |-> "queued", open |-> {}]
    OBVIOUS
  <1>7. /\ \A s \in Delivery!Skips : batches'[s] = IF s < n * BatchSize THEN cut ELSE None
        /\ cut.st = "queued" /\ cut.open = {} /\ cut # None
    <2>1. cut \in Delivery!Batch
      BY <1>6 DEF Delivery!Batch
    <2> QED
      BY <1>4, <1>6, <2>1 DEF Delivery!Constants
  <1>8. /\ Ctl' = Append(Ctl, u)
        /\ \A s \in Delivery!Skips : updates'[s] = updates[s]
    BY <1>1, <1>5, QueueGrows DEF Ctl
  <1>9. Ctl' = <<u>>
    BY <1>3, <1>8
  <1>10. Ctl' # <<>> /\ Tail(Ctl') = <<>> /\ Head(Ctl') = u
    BY <1>9
  <1>11. \A s \in Delivery!Skips : updates'[s] = <<>>
    BY <1>3, <1>8, ShapeUncut DEF PushWaiting, PushPhase
  <1>12. ASSUME NEW s \in Delivery!Skips
         PROVE  Shape(s)' /\ ~ Completing(s)' /\ (Unsettled(s)' <=> s < n * BatchSize)
    BY <1>7, <1>11, <1>12 DEF Shape, Completing, Tracking, Unsettled, Queued
  <1>13. ~ LostForGood' /\ status'.count = None
    BY <1>2, <1>3 DEF PushWaiting, LostForGood
  <1>14. CASE u.kind = "complete" /\ n = 0
    <2>1. n * BatchSize = 0
      BY <1>14, DevicesAreFinite
    <2>2. \A s \in Delivery!Skips : batches'[s] = None
      BY <1>1, <1>7, <2>1
    <2>3. PushWaiting'
      BY <1>2, <1>3, <1>10, <1>13, <1>14, <2>2 DEF PushWaiting
    <2> QED
      BY <1>12, <2>3 DEF PushPhase
  <1>15. CASE u.kind = "running" /\ u.batches = n
    <2>1. Awaited' = {s \in Delivery!Skips : s < n * BatchSize}
      BY <1>12 DEF Awaited, Delivery!Skips
    <2>2. Cardinality(Awaited') <= n
      BY <2>1, CutsAreFew
    <2>3. Cardinality(Awaited') \in Nat
      BY AwaitedAre
    <2>4. Owed' <= n
      BY <1>13, <2>2, <2>3 DEF Owed
    <2>5. PushCut'
      BY <1>2, <1>3, <1>10, <1>12, <1>13, <1>15, <2>4 DEF PushCut
    <2> QED
      BY <1>12, <2>5 DEF PushPhase
  <1> QED
    BY <1>5, <1>14, <1>15

LEMMA PhaseControlled ==
  ASSUME Delivery!Constants, PushTypes, PushPhase, Delivery!Update(Delivery!Controller)
  PROVE  PushPhase'
  <1>1. Ctl # <<>>
    BY DEF Delivery!Update, Ctl
  <1>2. Delivery!Controller \in Delivery!Handlers
    BY SkipsAre
  <1>3. PushWaiting \/ PushCut
    BY <1>1, <1>2 DEF PushPhase, PushCounting, PushDone, Ctl
  <1>4. Tail(Ctl) = <<>> /\ Head(Ctl).kind \in {"running", "complete", "fail"} /\ stage = "end"
    BY <1>1, <1>3 DEF PushWaiting, PushCut
  <1>5. PICK u \in PushUpdate :
         /\ u = Head(updates[Delivery!Controller]) /\ updates[Delivery!Controller] # <<>>
         /\ updates'[Delivery!Controller] = <<>>
         /\ \A s \in Delivery!Skips : batches'[s] = batches[s] /\ updates'[s] = updates[s]
         /\ UNCHANGED <<push, rows, stage, batches, sent, stayed, happened>>
         /\ u.kind \in {"running", "complete", "fail"} /\ (u.kind = "running" => u.batches \in Nat)
         /\ u.kind = "running" => status'.st = "running" /\ status'.count = u.batches
         /\ u.kind = "complete" => status'.st = "succeeded" /\ status'.count = None
         /\ u.kind = "fail" => status'.st = "failed" /\ status'.count = status.count
         /\ status'.numSent = status.numSent /\ status'.numFailed = status.numFailed
    <2>1. Tail(updates[Delivery!Controller]) = <<>> /\ Head(updates[Delivery!Controller]).kind # "track"
      BY <1>4 DEF Ctl
    <2> QED
      BY <2>1, ControllerUpdated
  <1>6. u = Head(Ctl) /\ Ctl' = <<>> /\ UNCHANGED <<push, stage, happened>> /\ (LostForGood' <=> LostForGood)
    BY <1>5 DEF Ctl, LostForGood
  <1>7. /\ \A s \in Delivery!Skips : Shape(s)'
        /\ \A s \in Delivery!Skips : Completing(s)' <=> Completing(s)
        /\ Awaited' = Awaited /\ Owed' = Owed
    BY <1>5, <1>6, PhaseStays
  <1>8. CASE u.kind = "running"
    <2>1. PushCut
      BY <1>3, <1>6, <1>8, <1>1 DEF PushWaiting
    <2>2. status'.st = "running" /\ status'.count = u.batches /\ u.batches \in Int
      BY <1>5, <1>8
    <2>3. \A s \in Delivery!Skips : ~ Completing(s)'
      BY <1>7, <2>1 DEF PushCut
    <2>4. PushCounting'
      BY <1>4, <1>6, <1>7, <2>1, <2>2, <2>3 DEF PushCut, PushCounting
    <2> QED
      BY <1>7, <2>4 DEF PushPhase
  <1>9. CASE u.kind # "running"
    <2>1. PushWaiting
      BY <1>3, <1>6, <1>9 DEF PushCut
    <2>2. \A s \in Delivery!Skips : batches'[s] = None /\ updates'[s] = <<>> /\ ~ Unsettled(s)
      BY <1>5, <2>1, ShapeUncut DEF PushWaiting, PushPhase
    <2>3. CASE u.kind = "fail"
      <3>1. status'.st = "failed" /\ status'.count = status.count
        BY <1>5, <2>3
      <3>2. PushWaiting'
        BY <1>4, <1>6, <2>1, <2>2, <3>1 DEF PushWaiting
      <3> QED
        BY <1>7, <3>2 DEF PushPhase
    <2>4. CASE u.kind = "complete"
      <3>1. status'.st = "succeeded"
        BY <1>5, <2>4
      <3>2. Awaited' = {}
        BY <1>7, <2>2 DEF Awaited
      <3>3. \A h \in Delivery!Handlers : updates'[h] = <<>>
        BY <1>6, <2>2, SkipsAre DEF Ctl
      <3>4. "unanswered" \notin happened'
        BY <1>6, <2>1 DEF PushWaiting, LostForGood
      <3>5. PushDone'
        BY <1>4, <1>6, <3>1, <3>2, <3>3, <3>4 DEF PushDone
      <3> QED
        BY <1>7, <3>5 DEF PushPhase
    <2> QED
      BY <1>5, <1>9, <2>3, <2>4
  <1> QED
    BY <1>8, <1>9

LEMMA PhaseKept ==
  ASSUME Delivery!Constants, PushTypes, Delivery!OneBody, PushPhase, Delivery!Next
  PROVE  PushPhase'
  <1>1. ASSUME NEW s \in Delivery!Skips, Delivery!Serve(s) PROVE PushPhase'
    <2>1. Shape(s)
      BY DEF PushPhase
    <2>2. PICK found \in SUBSET PushIds :
         /\ Shape(s)' /\ Unsettled(s) /\ Outs(s) = {} /\ Outs(s)' = found
         /\ ~ Completing(s)' /\ (Unsettled(s)' <=> found # {})
         /\ \A t \in Delivery!Skips \ {s} : batches'[t] = batches[t]
         /\ \A i \in PushIds : sent'[i] = sent[i] + (IF i \in found THEN 1 ELSE 0)
         /\ happened' \subseteq happened \cup (IF found = {} THEN {"nobody"} ELSE {}) \cup {"disorder"}
         /\ happened \subseteq happened'
         /\ UNCHANGED <<push, rows, stage, status, updates, stayed>>
      BY <1>1, <2>1, ShapeServed
    <2>3. LostForGood' => LostForGood \/ found = {}
      BY <2>2 DEF LostForGood
    <2>4. /\ \A t \in Delivery!Skips \ {s} : batches'[t] = batches[t] /\ updates'[t] = updates[t]
          /\ Shape(s)' /\ ~ Completing(s)' /\ Ctl' = Ctl /\ UNCHANGED <<stage, status>> /\ Unsettled(s)
          /\ LostForGood' => LostForGood \/ ~ Unsettled(s)'
      BY <2>2, <2>3 DEF Ctl
    <2> QED
      BY <2>4, PhaseServed
  <1>2. ASSUME NEW s \in Delivery!Skips, NEW g \in SUBSET PushIds, Delivery!Answer(s, g) \/ Delivery!NoAnswer(s, g)
        PROVE  PushPhase'
    <2>1. Shape(s)
      BY DEF PushPhase
    <2>2. /\ Shape(s)' /\ Unsettled(s) /\ ~ Completing(s)'
          /\ \A t \in Delivery!Skips \ {s} : batches'[t] = batches[t] /\ updates'[t] = updates[t]
          /\ Ctl' = Ctl /\ UNCHANGED <<stage, status>>
          /\ happened' = happened \/ ~ Unsettled(s)'
      BY <1>2, <2>1, ShapeAnswered DEF Ctl
    <2>3. LostForGood' => LostForGood \/ ~ Unsettled(s)'
      BY <2>2 DEF LostForGood
    <2> QED
      BY <2>2, <2>3, PhaseServed
  <1>3. ASSUME NEW h \in Delivery!Handlers, Delivery!Update(h) PROVE PushPhase'
    BY <1>3, SkipsAre, PhaseUpdated, PhaseControlled
  <1>4. CASE Delivery!RemoveTokens \/ \E i \in PushIds : Delivery!Register(i) \/ Delivery!Unregister(i)
    <2>1. UNCHANGED <<push, stage, status, batches, updates, sent>> /\ happened' \subseteq happened \cup {"came", "left"}
      BY <1>4, ElsewhereIs
    <2>2. happened \subseteq happened'
      BY RowsMove
    <2>3. (LostForGood' <=> LostForGood) /\ ("unanswered" \in happened' => "unanswered" \in happened) /\ Ctl' = Ctl
      BY <2>1, <2>2 DEF LostForGood, Ctl
    <2>4. /\ \A s \in Delivery!Skips : Shape(s)'
          /\ \A s \in Delivery!Skips : Completing(s)' <=> Completing(s)
          /\ Awaited' = Awaited /\ Owed' = Owed
      BY <2>1, <2>3, PhaseStays
    <2>5. PushWaiting => PushWaiting'
      BY <2>1, <2>3 DEF PushWaiting
    <2>6. PushCut => PushCut'
      BY <2>1, <2>3, <2>4 DEF PushCut
    <2>7. PushCounting => PushCounting'
      BY <2>1, <2>3, <2>4 DEF PushCounting
    <2>8. PushDone => PushDone'
      BY <2>1, <2>3, <2>4 DEF PushDone
    <2> QED
      BY <2>4, <2>5, <2>6, <2>7, <2>8 DEF PushPhase
  <1> QED
    BY <1>1, <1>2, <1>3, <1>4, PhaseEarly, PhaseEnqueued DEF Delivery!Next, Delivery!Step

-----------------------------------------------------------------------------
\* What was sent is counted or still to be counted, unless an adapter did not answer.
SendingsOf(a) == UNION {{i} \X (1..a[i]) : i \in PushIds}
Total(f) == UNION {{s} \X f[s] : s \in Delivery!Skips}
OutsOf == [s \in Delivery!Skips |-> Outs(s)]
PushBooks ==
  "unanswered" \notin happened =>
    /\ IsFiniteSet(SendingsOf(sent))
    /\ status.numSent + status.numFailed + Cardinality(Total(OutsOf)) = Cardinality(SendingsOf(sent))

LEMMA SendingsMove ==
  ASSUME Delivery!Constants, NEW a \in [PushIds -> Nat], NEW b \in [PushIds -> Nat], NEW found \in SUBSET PushIds,
         \A i \in PushIds : b[i] = a[i] + (IF i \in found THEN 1 ELSE 0), IsFiniteSet(SendingsOf(a))
  PROVE  IsFiniteSet(SendingsOf(b)) /\ Cardinality(SendingsOf(b)) = Cardinality(SendingsOf(a)) + Cardinality(found)
  <1> DEFINE new == {<<i, a[i] + 1>> : i \in found}
             f == [i \in found |-> <<i, a[i] + 1>>]
  <1>1. IsFiniteSet(found) /\ Cardinality(found) \in Nat
    BY DevicesAreFinite, FS_Subset, FS_CardinalityType
  <1>2. f \in Bijection(found, new)
    <2>1. f \in [found -> new]
      OBVIOUS
    <2>2. \A i, j \in found : f[i] = f[j] => i = j
      OBVIOUS
    <2>3. \A p \in new : \E i \in found : f[i] = p
      OBVIOUS
    <2> QED
      BY <2>1, <2>2, <2>3 DEF Bijection, Injection, IsInjective, Surjection
  <1>3. IsFiniteSet(new) /\ Cardinality(new) = Cardinality(found)
    <2>1. ExistsBijection(found, new)
      <3> HIDE DEF f, new
      <3> QED
        BY <1>2 DEF ExistsBijection
    <2> HIDE DEF f, new
    <2> QED
      BY <1>1, <2>1, FS_Bijection
  <1>4. ASSUME NEW i \in PushIds
        PROVE  (1..b[i]) = (1..a[i]) \cup (IF i \in found THEN {a[i] + 1} ELSE {}) /\ a[i] + 1 \notin 1..a[i]
    <2>1. PICK m \in Nat, n \in Nat : m = a[i] /\ n = b[i] /\ n = m + (IF i \in found THEN 1 ELSE 0)
      OBVIOUS
    <2>2. (1..n) = (1..m) \cup (IF i \in found THEN {m + 1} ELSE {}) /\ m + 1 \notin 1..m
      BY <2>1
    <2> QED
      BY <2>1, <2>2
  <1>5. SendingsOf(b) = SendingsOf(a) \cup new
    <2>1. ASSUME NEW p PROVE p \in SendingsOf(a) <=> \E i \in PushIds : \E k \in 1..a[i] : p = <<i, k>>
      BY DEF SendingsOf
    <2>2. ASSUME NEW p PROVE p \in SendingsOf(b) <=> \E i \in PushIds : \E k \in 1..b[i] : p = <<i, k>>
      BY DEF SendingsOf
    <2>3. ASSUME NEW p, p \in SendingsOf(b) PROVE p \in SendingsOf(a) \/ p \in new
      <3>1. PICK i \in PushIds : \E k \in 1..b[i] : p = <<i, k>>
        BY <2>2, <2>3
      <3>2. PICK k \in 1..b[i] : p = <<i, k>>
        BY <3>1
      <3>3. k \in 1..a[i] \/ (i \in found /\ k = a[i] + 1)
        BY <1>4, <3>2
      <3> QED
        BY <2>1, <3>2, <3>3
    <2>4. ASSUME NEW p, p \in SendingsOf(a) PROVE p \in SendingsOf(b)
      <3>1. PICK i \in PushIds : \E k \in 1..a[i] : p = <<i, k>>
        BY <2>1, <2>4
      <3>2. PICK k \in 1..a[i] : p = <<i, k>>
        BY <3>1
      <3>3. k \in 1..b[i]
        BY <1>4, <3>2
      <3> QED
        BY <2>2, <3>2, <3>3
    <2>5. ASSUME NEW p \in new PROVE p \in SendingsOf(b)
      <3>1. PICK i \in found : p = <<i, a[i] + 1>>
        OBVIOUS
      <3>2. i \in PushIds /\ a[i] + 1 \in 1..b[i]
        BY <1>4, <3>1
      <3> QED
        BY <2>2, <3>1, <3>2
    <2> HIDE DEF new
    <2> QED
      BY <2>3, <2>4, <2>5
  <1>6. SendingsOf(a) \cap new = {}
    <2>1. ASSUME NEW p \in new, p \in SendingsOf(a) PROVE FALSE
      <3>1. PICK i \in PushIds : p = <<i, a[i] + 1>>
        OBVIOUS
      <3>2. PICK j \in PushIds : p \in {j} \X (1..a[j])
        BY <2>1 DEF SendingsOf
      <3>3. j = i /\ a[i] + 1 \in 1..a[i]
        BY <3>1, <3>2
      <3> QED
        BY <1>4, <3>3
    <2> HIDE DEF new
    <2> QED
      BY <2>1
  <1>7. IsFiniteSet(SendingsOf(b)) /\ Cardinality(SendingsOf(b)) = Cardinality(SendingsOf(a)) + Cardinality(new) - Cardinality({})
    <2> HIDE DEF new
    <2>1. /\ IsFiniteSet(SendingsOf(a) \cup new)
          /\ Cardinality(SendingsOf(a) \cup new)
               = Cardinality(SendingsOf(a)) + Cardinality(new) - Cardinality(SendingsOf(a) \cap new)
      BY <1>3, FS_Union
    <2> QED
      BY <1>5, <1>6, <2>1, Zenon
  <1>8. Cardinality({}) = 0 /\ Cardinality(SendingsOf(a)) \in Nat
    BY FS_EmptySet, FS_CardinalityType
  <1> QED
    BY <1>1, <1>3, <1>7, <1>8

LEMMA TotalMove ==
  ASSUME Delivery!Constants, NEW f \in [Delivery!Skips -> SUBSET PushIds], NEW g \in [Delivery!Skips -> SUBSET PushIds],
         NEW s \in Delivery!Skips, \A t \in Delivery!Skips \ {s} : g[t] = f[t]
  PROVE  /\ Cardinality(Total(f)) \in Nat /\ Cardinality(Total(g)) \in Nat
         /\ Cardinality(f[s]) \in Nat /\ Cardinality(g[s]) \in Nat
         /\ Cardinality(Total(g)) + Cardinality(f[s]) = Cardinality(Total(f)) + Cardinality(g[s])
  <1> DEFINE rest == UNION {{t} \X f[t] : t \in Delivery!Skips \ {s}}
  <1>1. IsFiniteSet(PushIds) /\ IsFiniteSet(Delivery!Skips)
    BY DevicesAreFinite, SkipsAre
  <1>2. IsFiniteSet(rest)
    <2>1. IsFiniteSet(Delivery!Skips \X PushIds)
      BY <1>1, FS_Product
    <2>2. rest \in SUBSET (Delivery!Skips \X PushIds)
      OBVIOUS
    <2> HIDE DEF rest
    <2> QED
      BY <2>1, <2>2, FS_Subset
  <1>3. ASSUME NEW D \in SUBSET PushIds
        PROVE  /\ Cardinality(D) \in Nat /\ Cardinality(rest) \in Nat
               /\ Cardinality(rest \cup ({s} \X D)) = Cardinality(rest) + Cardinality(D)
    <2>1. IsFiniteSet(D) /\ Cardinality(D) \in Nat
      BY <1>1, FS_Subset, FS_CardinalityType
    <2>2. IsFiniteSet({s}) /\ Cardinality({s}) = 1
      BY FS_Singleton
    <2>3. IsFiniteSet({s} \X D) /\ Cardinality({s} \X D) = Cardinality({s}) * Cardinality(D)
      BY <2>1, <2>2, FS_Product
    <2>4. Cardinality({s} \X D) = Cardinality(D)
      BY <2>1, <2>2, <2>3
    <2>5. rest \cap ({s} \X D) = {}
      OBVIOUS
    <2>6. Cardinality(rest \cup ({s} \X D)) = Cardinality(rest) + Cardinality({s} \X D) - Cardinality({})
      <3> HIDE DEF rest
      <3> QED
        BY <1>2, <2>3, <2>5, FS_Union
    <2>7. Cardinality({}) = 0 /\ Cardinality(rest) \in Nat
      <3> HIDE DEF rest
      <3> QED
        BY <1>2, FS_EmptySet, FS_CardinalityType
    <2> HIDE DEF rest
    <2> QED
      BY <2>1, <2>4, <2>6, <2>7
  <1>4. Total(f) = rest \cup ({s} \X f[s])
    <2>1. \A p : p \in Total(f) <=> \E t \in Delivery!Skips : p \in {t} \X f[t]
      BY Zenon DEF Total
    <2>2. \A p : p \in rest <=> \E t \in Delivery!Skips \ {s} : p \in {t} \X f[t]
      BY Zenon
    <2> HIDE DEF rest
    <2> QED
      BY <2>1, <2>2, Zenon
  <1>5. Total(g) = rest \cup ({s} \X g[s])
    <2>1. \A p : p \in Total(g) <=> \E t \in Delivery!Skips : p \in {t} \X g[t]
      BY Zenon DEF Total
    <2>2. \A p : p \in rest <=> \E t \in Delivery!Skips \ {s} : p \in {t} \X f[t]
      BY Zenon
    <2>3. \A t \in Delivery!Skips \ {s} : {t} \X g[t] = {t} \X f[t]
      OBVIOUS
    <2>4. \A p : p \in rest <=> \E t \in Delivery!Skips \ {s} : p \in {t} \X g[t]
      <3> HIDE DEF rest
      <3> QED
        BY <2>2, <2>3, Zenon
    <2> HIDE DEF rest
    <2> QED
      BY <2>1, <2>4, Zenon
  <1>6. PICK F \in SUBSET PushIds, G \in SUBSET PushIds : F = f[s] /\ G = g[s]
    OBVIOUS
  <1> HIDE DEF rest
  <1>7. /\ Cardinality(Total(f)) = Cardinality(rest) + Cardinality(F) /\ Cardinality(F) \in Nat
        /\ Cardinality(Total(g)) = Cardinality(rest) + Cardinality(G) /\ Cardinality(G) \in Nat
        /\ Cardinality(rest) \in Nat
    BY <1>3, <1>4, <1>5, <1>6, Zenon
  <1> QED
    BY <1>6, <1>7

LEMMA OutsAre ==
  ASSUME Delivery!Constants, PushTypes, NEW s \in Delivery!Skips
  PROVE  Outs(s) \in SUBSET PushIds
  <1>1. CASE Tracking(s)
    <2>1. updates[s] \in Seq(PushUpdate) /\ updates[s] # <<>>
      BY <1>1, SkipsAre DEF PushTypes, Tracking
    <2>2. Head(updates[s]) \in PushUpdate
      BY <2>1, HeadTailProperties
    <2> QED
      BY <1>1, <2>2, UpdatesAre DEF Outs, Tracking
  <1>2. CASE ~ Tracking(s)
    <2>1. batches[s] # None => UNION batches[s].open \in SUBSET PushIds
      <3>1. batches[s] # None => batches[s] \in Delivery!Batch
        BY DEF PushTypes
      <3> QED
        BY <3>1 DEF Delivery!Batch
    <2> QED
      BY <1>2, <2>1 DEF Outs
  <1> QED
    BY <1>1, <1>2

LEMMA BooksStay ==
  ASSUME PushBooks, \A s \in Delivery!Skips : Outs(s)' = Outs(s), UNCHANGED sent,
         status'.numSent = status.numSent, status'.numFailed = status.numFailed, happened \subseteq happened'
  PROVE  PushBooks'
  <1>1. OutsOf' = OutsOf
    <2>1. OutsOf' = [s \in Delivery!Skips |-> Outs(s)']
      BY DEF OutsOf, Delivery!Skips
    <2>2. [s \in Delivery!Skips |-> Outs(s)'] = [s \in Delivery!Skips |-> Outs(s)]
      OBVIOUS
    <2> QED
      BY <2>1, <2>2, Zenon DEF OutsOf
  <1>2. Total(OutsOf)' = Total(OutsOf) /\ SendingsOf(sent)' = SendingsOf(sent)
    BY <1>1, Zenon DEF Total, SendingsOf, Delivery!Skips
  <1> QED
    BY <1>2 DEF PushBooks

\* A step of one batch moves sendings from those still to be counted to those counted.
LEMMA BooksMove ==
  ASSUME Delivery!Constants, PushTypes, PushTypes', PushBooks, NEW s \in Delivery!Skips,
         \A t \in Delivery!Skips \ {s} : Outs(t)' = Outs(t), happened \subseteq happened',
         NEW found \in SUBSET PushIds, \A i \in PushIds : sent'[i] = sent[i] + (IF i \in found THEN 1 ELSE 0),
         "unanswered" \notin happened' =>
            status'.numSent + status'.numFailed + Cardinality(Outs(s)')
              = status.numSent + status.numFailed + Cardinality(Outs(s)) + Cardinality(found)
  PROVE  PushBooks'
  <1> SUFFICES ASSUME "unanswered" \notin happened'
               PROVE  /\ IsFiniteSet(SendingsOf(sent'))
                      /\ status'.numSent + status'.numFailed + Cardinality(Total(OutsOf')) = Cardinality(SendingsOf(sent'))
    <2>1. SendingsOf(sent)' = SendingsOf(sent') /\ Total(OutsOf)' = Total(OutsOf')
      BY DEF SendingsOf, Total, Delivery!Skips
    <2> QED
      BY <2>1 DEF PushBooks
  <1>1. /\ IsFiniteSet(SendingsOf(sent))
        /\ status.numSent + status.numFailed + Cardinality(Total(OutsOf)) = Cardinality(SendingsOf(sent))
    BY DEF PushBooks
  <1>2. sent \in [PushIds -> Nat] /\ sent' \in [PushIds -> Nat]
    BY DEF PushTypes
  <1>3. /\ IsFiniteSet(SendingsOf(sent'))
        /\ Cardinality(SendingsOf(sent')) = Cardinality(SendingsOf(sent)) + Cardinality(found)
    BY <1>1, <1>2, SendingsMove
  <1>4. OutsOf' = [t \in Delivery!Skips |-> Outs(t)']
    BY DEF OutsOf, Delivery!Skips
  <1>5. \A t \in Delivery!Skips : Outs(t) \in SUBSET PushIds
    BY OutsAre
  <1>6. ASSUME NEW t \in Delivery!Skips PROVE Outs(t)' \in SUBSET PushIds
    <2>1. CASE Tracking(t)'
      <3>1. updates'[t] \in Seq(PushUpdate) /\ updates'[t] # <<>>
        BY <2>1, SkipsAre DEF PushTypes, Tracking
      <3>2. Head(updates'[t]) \in PushUpdate
        BY <3>1, HeadTailProperties
      <3> QED
        BY <2>1, <3>2, UpdatesAre DEF Outs, Tracking
    <2>2. CASE ~ Tracking(t)'
      <3>1. batches'[t] # None => batches'[t] \in Delivery!Batch
        BY DEF PushTypes
      <3>2. batches'[t] # None => UNION batches'[t].open \in SUBSET PushIds
        BY <3>1 DEF Delivery!Batch
      <3> QED
        BY <2>2, <3>2 DEF Outs
    <2> QED
      BY <2>1, <2>2
  <1>7. OutsOf \in [Delivery!Skips -> SUBSET PushIds] /\ OutsOf' \in [Delivery!Skips -> SUBSET PushIds]
    BY <1>4, <1>5, <1>6 DEF OutsOf
  <1>8. \A t \in Delivery!Skips \ {s} : OutsOf'[t] = OutsOf[t]
    BY <1>4 DEF OutsOf
  <1>9. OutsOf[s] = Outs(s) /\ OutsOf'[s] = Outs(s)'
    BY <1>4 DEF OutsOf
  <1>10. /\ Cardinality(Total(OutsOf)) \in Nat /\ Cardinality(Total(OutsOf')) \in Nat
         /\ Cardinality(Outs(s)) \in Nat /\ Cardinality(Outs(s)') \in Nat
         /\ Cardinality(Total(OutsOf')) + Cardinality(Outs(s)) = Cardinality(Total(OutsOf)) + Cardinality(Outs(s)')
    <2> HIDE DEF OutsOf
    <2> QED
      BY <1>7, <1>8, <1>9, TotalMove
  <1>11. /\ status.numSent \in Nat /\ status.numFailed \in Nat /\ status'.numSent \in Nat /\ status'.numFailed \in Nat
         /\ Cardinality(found) \in Nat
    <2>1. Cardinality(found) \in Nat
      BY DevicesAreFinite, FS_Subset, FS_CardinalityType
    <2> QED
      BY <2>1 DEF PushTypes, PushStatus
  <1> QED
    BY <1>1, <1>3, <1>10, <1>11

LEMMA BooksKept ==
  ASSUME Delivery!Constants, PushTypes, Delivery!OneBody, PushPhase, PushBooks, Delivery!Next
  PROVE  PushBooks'
  <1>1. happened \subseteq happened' /\ PushTypes'
    BY RowsMove, PushTyped
  <1>2. ASSUME NEW s \in Delivery!Skips, Delivery!Serve(s) PROVE PushBooks'
    <2>1. Shape(s)
      BY DEF PushPhase
    <2>2. PICK found \in SUBSET PushIds :
         /\ Shape(s)' /\ Unsettled(s) /\ Outs(s) = {} /\ Outs(s)' = found
         /\ ~ Completing(s)' /\ (Unsettled(s)' <=> found # {})
         /\ \A t \in Delivery!Skips \ {s} : batches'[t] = batches[t]
         /\ \A i \in PushIds : sent'[i] = sent[i] + (IF i \in found THEN 1 ELSE 0)
         /\ happened' \subseteq happened \cup (IF found = {} THEN {"nobody"} ELSE {}) \cup {"disorder"}
         /\ happened \subseteq happened'
         /\ UNCHANGED <<push, rows, stage, status, updates, stayed>>
      BY <1>2, <2>1, ShapeServed
    <2>3. \A t \in Delivery!Skips \ {s} : Outs(t)' = Outs(t)
      BY <2>2, ShapeElsewhere DEF PushPhase
    <2>4. status'.numSent + status'.numFailed + Cardinality(Outs(s)')
            = status.numSent + status.numFailed + Cardinality(Outs(s)) + Cardinality(found)
      <3>1. Cardinality(Outs(s)) = 0 /\ Outs(s)' = found /\ status' = status
        BY <2>2, FS_EmptySet
      <3>2. PICK m \in Nat, n \in Nat : m = status.numSent /\ n = status.numFailed
        BY DEF PushTypes, PushStatus
      <3>3. Cardinality(found) \in Nat
        BY DevicesAreFinite, FS_Subset, FS_CardinalityType
      <3> QED
        BY <3>1, <3>2, <3>3
    <2> QED
      BY <1>1, <2>2, <2>3, <2>4, BooksMove
  <1>3. ASSUME NEW s \in Delivery!Skips, NEW g \in SUBSET PushIds, Delivery!Answer(s, g) \/ Delivery!NoAnswer(s, g)
        PROVE  PushBooks'
    <2>1. Shape(s)
      BY DEF PushPhase
    <2>2. /\ \A t \in Delivery!Skips \ {s} : batches'[t] = batches[t] /\ updates'[t] = updates[t]
          /\ UNCHANGED <<status, sent>>
          /\ Outs(s)' = Outs(s) \/ "unanswered" \in happened'
      BY <1>3, <2>1, ShapeAnswered
    <2>3. \A t \in Delivery!Skips \ {s} : Outs(t)' = Outs(t)
      BY <2>2, ShapeElsewhere DEF PushPhase
    <2>4. CASE Outs(s)' = Outs(s)
      BY <1>1, <2>2, <2>3, <2>4, BooksStay
    <2>5. CASE "unanswered" \in happened'
      BY <2>5 DEF PushBooks
    <2> QED
      BY <2>2, <2>4, <2>5
  <1>4. ASSUME NEW s \in Delivery!Skips, Delivery!Update(s) PROVE PushBooks'
    <2>1. Shape(s)
      BY DEF PushPhase
    <2>2. /\ \A t \in Delivery!Skips \ {s} : batches'[t] = batches[t] /\ updates'[t] = updates[t]
          /\ UNCHANGED sent /\ Outs(s)' = {}
          /\ \/ status'.numSent + status'.numFailed = status.numSent + status.numFailed + Cardinality(Outs(s))
             \/ Outs(s) = {} /\ status'.numSent = status.numSent /\ status'.numFailed = status.numFailed
      BY <1>4, <2>1, ShapeUpdated
    <2>3. \A t \in Delivery!Skips \ {s} : Outs(t)' = Outs(t)
      BY <2>2, ShapeElsewhere DEF PushPhase
    <2>4. \A i \in PushIds : sent'[i] = sent[i] + (IF i \in {} THEN 1 ELSE 0)
      <3>1. \A i \in PushIds : sent[i] \in Nat
        BY DEF PushTypes
      <3> QED
        BY <2>2, <3>1
    <2>5. Cardinality({}) = 0 /\ Cardinality(Outs(s)) \in Nat
      <3>1. IsFiniteSet(Outs(s))
        BY OutsAre, DevicesAreFinite, FS_Subset
      <3> QED
        BY <3>1, FS_EmptySet, FS_CardinalityType
    <2>6. /\ status.numSent \in Nat /\ status.numFailed \in Nat /\ status'.numSent \in Nat /\ status'.numFailed \in Nat
      BY <1>1 DEF PushTypes, PushStatus
    <2>7. status'.numSent + status'.numFailed + Cardinality(Outs(s)')
            = status.numSent + status.numFailed + Cardinality(Outs(s)) + Cardinality({})
      BY <2>2, <2>5, <2>6
    <2>8. {} \in SUBSET PushIds
      OBVIOUS
    <2> QED
      BY <1>1, <2>3, <2>4, <2>7, <2>8, BooksMove
  <1>5. CASE Delivery!Update(Delivery!Controller)
    <2>1. Delivery!Controller \in Delivery!Handlers /\ Ctl # <<>>
      BY <1>5, SkipsAre DEF Delivery!Update, Ctl
    <2>2. Tail(Ctl) = <<>> /\ Head(Ctl).kind # "track"
      BY <2>1 DEF PushPhase, PushWaiting, PushCut, PushCounting, PushDone, Ctl
    <2>3. /\ \A s \in Delivery!Skips : batches'[s] = batches[s] /\ updates'[s] = updates[s]
          /\ UNCHANGED sent /\ status'.numSent = status.numSent /\ status'.numFailed = status.numFailed
      BY <1>5, <2>2, ControllerUpdated DEF Ctl
    <2>4. \A s \in Delivery!Skips : Outs(s)' = Outs(s)
      BY <2>3, PhaseStays
    <2> QED
      BY <1>1, <2>3, <2>4, BooksStay
  <1>6. CASE Delivery!SetInitial \/ Delivery!BadgeUpdate \/ Delivery!Fail
    <2>1. /\ UNCHANGED <<batches, sent>> /\ status'.numSent = status.numSent /\ status'.numFailed = status.numFailed
          /\ \A s \in Delivery!Skips : updates'[s] = updates[s]
      <3>1. Delivery!Controller \in Delivery!Handlers /\ Delivery!Skips \subseteq Delivery!Handlers
            /\ \A s \in Delivery!Skips : s # Delivery!Controller
        BY SkipsAre
      <3>2. CASE Delivery!SetInitial \/ Delivery!BadgeUpdate
        BY <3>2, EarlyIs
      <3>3. CASE Delivery!Fail
        <4>1. PICK u \in PushUpdate : updates' = [updates EXCEPT ![Delivery!Controller] = Append(@, u)]
          BY <3>3, EarlyIs
        <4>2. \A s \in Delivery!Skips : updates'[s] = updates[s]
          BY <3>1, <4>1, QueueGrows
        <4> QED
          BY <3>3, <4>2, EarlyIs
      <3> QED
        BY <1>6, <3>2, <3>3
    <2>2. \A s \in Delivery!Skips : Outs(s)' = Outs(s)
      BY <2>1, PhaseStays
    <2> QED
      BY <1>1, <2>1, <2>2, BooksStay
  <1>7. CASE Delivery!Enqueue
    <2>1. stage = "count" /\ UNCHANGED <<status, sent>>
      BY <1>7 DEF Delivery!Enqueue, Delivery!Then
    <2>2. PushWaiting
      BY <2>1 DEF PushPhase, PushWaiting, PushCut, PushCounting, PushDone
    <2>3. \A s \in Delivery!Skips : Outs(s) = {} /\ updates[s] = <<>>
      BY <2>2, ShapeUncut DEF PushWaiting, PushPhase
    <2>4. /\ Delivery!Controller \in Delivery!Handlers /\ Delivery!Skips \subseteq Delivery!Handlers
          /\ \A s \in Delivery!Skips : s # Delivery!Controller
      BY SkipsAre
    <2>5. PICK u \in PushUpdate : updates' = [updates EXCEPT ![Delivery!Controller] = Append(@, u)]
      BY <1>7, EnqueueIs
    <2>6. \A s \in Delivery!Skips : updates'[s] = <<>>
      BY <2>3, <2>4, <2>5, QueueGrows
    <2>7. PICK n \in Nat :
            \A s \in Delivery!Skips : batches'[s] = IF s < n * BatchSize THEN [st |-> "queued", open |-> {}] ELSE None
      BY <1>7, EnqueueIs
    <2>8. \A s \in Delivery!Skips : batches'[s] # None => batches'[s].open = {}
      BY <2>7
    <2>9. \A s \in Delivery!Skips : Outs(s)' = {}
      BY <2>6, <2>8 DEF Outs, Tracking
    <2> QED
      BY <1>1, <2>1, <2>3, <2>9, BooksStay
  <1>8. CASE Delivery!RemoveTokens \/ \E i \in PushIds : Delivery!Register(i) \/ Delivery!Unregister(i)
    <2>1. UNCHANGED <<status, batches, updates, sent>>
      BY <1>8, ElsewhereIs
    <2>2. \A s \in Delivery!Skips : Outs(s)' = Outs(s)
      BY <2>1, PhaseStays
    <2> QED
      BY <1>1, <2>1, <2>2, BooksStay
  <1> QED
    BY <1>2, <1>3, <1>4, <1>5, <1>6, <1>7, <1>8, SkipsAre DEF Delivery!Next, Delivery!Step

-----------------------------------------------------------------------------
PushInv == PushTypes /\ PushOrder /\ (Delivery!OneBody => PushPhase /\ PushBooks)

LEMMA PushAtStart ==
  ASSUME Delivery!Constants, Delivery!Init
  PROVE  PushInv
  <1>1. /\ push \in Pushes /\ rows = push.rows /\ stage = "store"
        /\ batches = [n \in Delivery!Skips |-> None] /\ updates = [h \in Delivery!Handlers |-> <<>>]
        /\ sent = [i \in PushIds |-> 0] /\ stayed = Delivery!Wanted /\ happened = {}
        /\ status = [st |-> None, count |-> None, numSent |-> 0, numFailed |-> 0]
    BY DEF Delivery!Init
  <1>2. rows \in [PushIds -> Delivery!Device \cup {None}]
    BY <1>1 DEF Delivery!Constants
  <1>3. /\ status.st = None /\ status.count = None /\ status.numSent = 0 /\ status.numFailed = 0
        /\ status \in PushStatus /\ None \notin {"running", "succeeded"}
    BY <1>1 DEF PushStatus, Delivery!Constants
  <1>4. /\ \A s \in Delivery!Skips : batches[s] = None
        /\ \A h \in Delivery!Handlers : updates[h] = <<>>
        /\ \A i \in PushIds : sent[i] = 0
    BY <1>1
  <1>5. PushTypes
    <2>1. <<>> \in Seq(PushUpdate)
      OBVIOUS
    <2>2. updates \in [Delivery!Handlers -> Seq(PushUpdate)]
      BY <1>1, <2>1
    <2>3. batches \in [Delivery!Skips -> Delivery!Batch \cup {None}] /\ sent \in [PushIds -> Nat]
      BY <1>1
    <2> QED
      BY <1>1, <1>2, <1>3, <2>2, <2>3 DEF PushTypes
  <1>6. \A h \in Delivery!Handlers : 1..Len(updates[h]) = {}
    BY <1>4
  <1>7. PushOrder
    <2>1. ~ Started
      BY <1>3, <1>4, <1>6 DEF Started
    <2>2. \A s \in Delivery!Skips : ~ Handed(s)
      BY <1>4 DEF Handed
    <2>3. stayed \subseteq PushIds
      BY <1>1 DEF Delivery!Wanted
    <2> QED
      BY <1>1, <1>4, <2>1, <2>2, <2>3 DEF PushOrder
  <1>8. \A s \in Delivery!Skips : updates[s] = <<>>
    BY <1>4, SkipsAre
  <1>9. PushPhase
    <2>1. \A s \in Delivery!Skips : Shape(s)
      BY <1>4, <1>8 DEF Shape
    <2>2. Ctl = <<>> /\ ~ LostForGood
      BY <1>1, <1>4, SkipsAre DEF Ctl, LostForGood
    <2>3. PushWaiting
      BY <1>1, <1>3, <1>4, <2>2 DEF PushWaiting
    <2> QED
      BY <2>1, <2>3 DEF PushPhase
  <1>10. PushBooks
    <2>1. Total(OutsOf) = {}
      <3>1. \A s \in Delivery!Skips : OutsOf[s] = {}
        BY <1>4, <1>8 DEF OutsOf, Outs, Tracking
      <3>2. \A s \in Delivery!Skips : {s} \X OutsOf[s] = {}
        BY <3>1
      <3> QED
        BY <3>2 DEF Total
    <2>2. SendingsOf(sent) = {}
      <3>1. \A i \in PushIds : 1..sent[i] = {}
        BY <1>4
      <3>2. \A i \in PushIds : {i} \X (1..sent[i]) = {}
        BY <3>1
      <3> QED
        BY <3>2 DEF SendingsOf
    <2>3. IsFiniteSet({}) /\ Cardinality({}) = 0
      BY FS_EmptySet
    <2> QED
      BY <1>3, <2>1, <2>2, <2>3 DEF PushBooks
  <1> QED
    BY <1>5, <1>7, <1>9, <1>10 DEF PushInv

LEMMA PushUnmoved ==
  ASSUME PushInv, UNCHANGED Delivery!vars
  PROVE  PushInv'
  <1>1. UNCHANGED <<push, rows, stage, status, batches, updates, invalid, sent, stayed, happened>>
    BY DEF Delivery!vars
  <1>2. PushTypes'
    BY <1>1 DEF PushInv, PushTypes, Delivery!Wanted
  <1>3. PushOrder'
    <2>1. Delivery!Wanted' = Delivery!Wanted
      BY <1>1 DEF Delivery!Wanted
    <2>2. \A i : Delivery!Before(i)' = Delivery!Before(i)
      BY <2>1 DEF Delivery!Before
    <2> QED
      BY <1>1, <2>1, <2>2 DEF PushInv, PushOrder, Undisturbed, Started, OnPage, Handed, Queued
  <1>4. (Delivery!OneBody => PushPhase)'
    <2>1. Delivery!OneBody' <=> Delivery!OneBody
      BY <1>1 DEF Delivery!OneBody
    <2>2. ASSUME PushPhase PROVE PushPhase'
      <3>1. /\ \A s \in Delivery!Skips : Shape(s)'
            /\ \A s \in Delivery!Skips : Completing(s)' <=> Completing(s)
            /\ Awaited' = Awaited /\ (LostForGood' <=> LostForGood) /\ Owed' = Owed
        BY <1>1, <2>2, PhaseStays DEF LostForGood
      <3>2. Ctl' = Ctl
        BY <1>1 DEF Ctl
      <3>3. PushWaiting => PushWaiting'
        BY <1>1, <3>1, <3>2 DEF PushWaiting
      <3>4. PushCut => PushCut'
        BY <1>1, <3>1, <3>2 DEF PushCut
      <3>5. PushCounting => PushCounting'
        BY <1>1, <3>1, <3>2 DEF PushCounting
      <3>6. PushDone => PushDone'
        BY <1>1, <3>1, <3>2 DEF PushDone
      <3> QED
        BY <2>2, <3>1, <3>3, <3>4, <3>5, <3>6 DEF PushPhase
    <2> QED
      BY <2>1, <2>2 DEF PushInv
  <1>5. (Delivery!OneBody => PushBooks)'
    <2>1. Delivery!OneBody' <=> Delivery!OneBody
      BY <1>1 DEF Delivery!OneBody
    <2>2. ASSUME PushPhase, PushBooks PROVE PushBooks'
      <3>1. \A s \in Delivery!Skips : Outs(s)' = Outs(s)
        BY <1>1, <2>2, PhaseStays
      <3> QED
        BY <1>1, <2>2, <3>1, BooksStay
    <2> QED
      BY <2>1, <2>2 DEF PushInv
  <1> QED
    BY <1>2, <1>3, <1>4, <1>5 DEF PushInv

LEMMA PushNext ==
  ASSUME Delivery!Constants, PushInv, Delivery!Next
  PROVE  PushInv'
  <1>1. PushTypes' /\ PushOrder'
    BY PushTyped, OrderKept DEF PushInv
  <1>2. Delivery!OneBody' <=> Delivery!OneBody
    BY RowsMove DEF PushInv, Delivery!OneBody
  <1> QED
    BY <1>1, <1>2, PhaseKept, BooksKept DEF PushInv

LEMMA PushHolds ==
  ASSUME Delivery!Constants, PushInv
  PROVE  SucceededAndReached
  <1>1. Delivery!ReachedOnce
    BY OrderReaches DEF PushInv
  <1>2. ASSUME Delivery!OneBody, status.st = "succeeded"
        PROVE  /\ Delivery!Served /\ \A h \in Delivery!Handlers : updates[h] = <<>>
               /\ status.numSent + status.numFailed = Delivery!Cardinality(Delivery!Sendings)
    <2>1. PushDone /\ PushBooks /\ \A s \in Delivery!Skips : Shape(s)
      BY <1>2 DEF PushInv, PushPhase, PushWaiting, PushCut, PushCounting
    <2>2. \A s \in Delivery!Skips : ~ Unsettled(s) /\ updates[s] = <<>>
      BY <2>1, SkipsAre DEF PushDone, Awaited
    <2>3. ASSUME NEW s \in Delivery!Skips, batches[s] # None PROVE batches[s].st = "served" /\ batches[s].open = {}
      <3>1. batches[s] \in Delivery!Batch
        BY <2>3 DEF PushInv, PushTypes
      <3> QED
        BY <2>2, <2>3, <3>1 DEF Unsettled, Queued, Delivery!Batch
    <2>4. \A s \in Delivery!Skips : OutsOf[s] = {}
      <3>1. ASSUME NEW s \in Delivery!Skips PROVE Outs(s) = {}
        BY <2>2, <2>3 DEF Outs, Tracking
      <3> QED
        BY <3>1 DEF OutsOf
    <2>5. Total(OutsOf) = {}
      <3>1. \A s \in Delivery!Skips : {s} \X OutsOf[s] = {}
        BY <2>4
      <3> QED
        BY <3>1 DEF Total
    <2>6. status.numSent + status.numFailed = Cardinality(SendingsOf(sent))
      <3>1. status.numSent \in Nat /\ status.numFailed \in Nat
        BY DEF PushInv, PushTypes, PushStatus
      <3>2. status.numSent + status.numFailed + Cardinality({}) = Cardinality(SendingsOf(sent))
        BY <2>1, <2>5 DEF PushDone, PushBooks
      <3> QED
        BY <3>1, <3>2, FS_EmptySet
    <2>7. Delivery!Sendings = SendingsOf(sent)
      BY DEF Delivery!Sendings, SendingsOf
    <2> QED
      BY <2>1, <2>3, <2>6, <2>7, CountsAreCounts DEF Delivery!Served, PushDone
  <1> QED
    BY <1>1, <1>2 DEF SucceededAndReached, Delivery!SucceededWhenSent

(***************************************************************************)
(* However many installations there are, however they come and go and in   *)
(* whatever order the batches PushQueue cut are served, PushWorker sends a *)
(* push once to everybody it is for while nobody comes or leaves, and not  *)
(* twice if batches are served in their order while nobody comes; and the  *)
(* count StatusHandler keeps makes a push with one body succeed only when  *)
(* every batch was answered and each sending is counted in the row.        *)
(***************************************************************************)
THEOREM PushesReachAndSucceed ==
  ASSUME Delivery!Constants
  PROVE  Delivery!Spec => []SucceededAndReached
  <1>1. Delivery!Init => PushInv
    BY PushAtStart
  <1>2. PushInv /\ [Delivery!Next]_(Delivery!vars) => PushInv'
    BY PushNext, PushUnmoved
  <1>3. PushInv => SucceededAndReached
    BY PushHolds
  <1> QED
    BY <1>1, <1>2, <1>3, PTL DEF Delivery!Spec
=============================================================================
