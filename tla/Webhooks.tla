------------------------------ MODULE Webhooks ------------------------------
(***************************************************************************)
(* Functions and triggers registered by cloud code and by webhooks: the    *)
(* registry in memory (triggers.js), the _Hooks collection and the         *)
(* requests that change both (HooksController), the start of the server,   *)
(* and calls that look a function and its validator up in the registry.    *)
(***************************************************************************)
EXTENDS Naturals

CONSTANTS
  Names,   \* functions, and classes with a kind of trigger
  Urls,
  Code,    \* the handler cloud code defines
  Slots,   \* requests served at a time
  Loads,   \* what differs between behaviours: see Init
  None     \* neither Code nor a URL

VARIABLES
  load,        \* what cloud code defines and what may happen, never changed
  rows,        \* the _Hooks collection: the url stored for a name
  handlers,    \* the registry: url or code for a name
  validators,  \* the names with the validator of their cloud code
  starting,    \* the hooks read at the start, until they are registered, or None
  req,         \* the requests being served
  made,        \* requests made so far
  split,       \* history: names whose registration was made and whose write failed
  mixed        \* history: requests overlapped, or the start, since the last start

\* Cloud code defines functions and triggers of the server; its handlers are no URLs.
Constants ==
  /\ None \notin Urls \cup {Code} \cup [Names -> Urls \cup {None}] /\ Code \notin Urls
  /\ \A l \in Loads : l.guarded \subseteq l.code /\ l.code \subseteq Names

vars == <<load, rows, handlers, validators, starting, req, made, split, mixed>>

Idle == [at |-> "idle", op |-> None, name |-> None, url |-> None]

\* Cloud code, with a validator for load.guarded, is loaded as the server starts; the hooks of
\* the collection come when they are found.
FromCode == [n \in Names |-> IF n \in load.code THEN Code ELSE None]
Init ==
  /\ load \in Loads
  /\ rows = [n \in Names |-> None]
  /\ handlers = FromCode /\ validators = load.code \cap load.guarded
  /\ starting = rows
  /\ req = [h \in Slots |-> Idle]
  /\ made = 0 /\ split = {} /\ mixed = FALSE

Quiet == \A h \in Slots : req[h] = Idle
Go(h, r) == req' = [req EXCEPT ![h] = r]
End(h) == Go(h, Idle)

\* addHookToTriggers: the handler of the hook, with no validator, for whatever there was.
Register(hooks) ==
  /\ handlers' = [n \in Names |-> IF hooks[n] # None THEN hooks[n] ELSE handlers[n]]
  /\ validators' = {n \in validators : hooks[n] = None}
Only(n, url) == [m \in Names |-> IF m = n THEN url ELSE None]

\* load() adds what it read, and removes nothing.
Load ==
  /\ starting # None
  /\ Register(starting)
  /\ starting' = None
  /\ UNCHANGED <<load, rows, req, made, split, mixed>>

Restart ==
  /\ load.restarts
  /\ handlers' = FromCode /\ validators' = load.code \cap load.guarded
  /\ starting' = rows
  /\ req' = [h \in Slots |-> Idle] /\ split' = {} /\ mixed' = FALSE
  /\ UNCHANGED <<load, rows, made>>

-----------------------------------------------------------------------------
\* POST, PUT and DELETE; the hook is looked for in the collection first, unless it is deleted.
Arrive(h) ==
  /\ made < load.limit /\ req[h] = Idle /\ (load.alone => Quiet /\ starting = None)
  /\ \E op \in {"create", "update"}, n \in Names, u \in Urls :
       Go(h, [at |-> "find", op |-> op, name |-> n, url |-> u])
  /\ made' = made + 1
  /\ mixed' = (mixed \/ ~ Quiet \/ starting # None)
  /\ UNCHANGED <<load, rows, handlers, validators, starting, split>>

\* createHook, updateHook and then addHook: registered at once, stored after.
Exists(n) == rows[n] # None
Takes(r) == Exists(r.name) <=> r.op = "update"
Find(h) ==
  LET r == req[h] IN
  /\ r.at = "find"
  /\ IF Takes(r) THEN Register(Only(r.name, r.url)) /\ Go(h, [r EXCEPT !.at = "save"])
                 ELSE End(h) /\ UNCHANGED <<handlers, validators>>
  /\ UNCHANGED <<load, rows, starting, made, split, mixed>>

\* deleteFunction, deleteTrigger: out of the registry at once, cloud code or not.
Removed_Kept(n) == handlers \* Mutant: the handler stays.
Removed(n) == [handlers EXCEPT ![n] = None]
Delete(h) ==
  /\ made < load.limit /\ req[h] = Idle /\ (load.alone => Quiet /\ starting = None)
  /\ \E n \in Names :
       /\ handlers' = Removed(n)
       /\ Go(h, [at |-> "destroy", op |-> "delete", name |-> n, url |-> None])
  /\ made' = made + 1
  /\ mixed' = (mixed \/ ~ Quiet \/ starting # None)
  /\ UNCHANGED <<load, rows, validators, starting, split>>

\* The row, or none, or the database fails; a hook that is not there cannot be destroyed.
Write(h) ==
  LET r == req[h] IN
  /\ r.at \in {"save", "destroy"}
  /\ \/ rows' = [rows EXCEPT ![r.name] = r.url] /\ split' = split \ {r.name}
     \/ load.fails /\ split' = split \cup {r.name} /\ UNCHANGED rows
  /\ End(h)
  /\ UNCHANGED <<load, handlers, validators, starting, made, mixed>>

Next ==
  \/ Load \/ Restart
  \/ \E h \in Slots : Arrive(h) \/ Find(h) \/ Delete(h) \/ Write(h)

Spec == Init /\ [][Next]_vars

-----------------------------------------------------------------------------
TypeOK ==
  /\ rows \in [Names -> Urls \cup {None}]
  /\ handlers \in [Names -> Urls \cup {Code, None}]
  /\ validators \subseteq load.code /\ split \subseteq Names

\* The webhook that is called for a name is the one stored for it, whenever no request is
\* under way, unless requests overlapped each other or the start, or a write failed; a
\* restart puts it right.  Cloud code is never called without its validator.
HooksMatch ==
  /\ Quiet /\ starting = None /\ ~ mixed =>
       \A n \in Names \ split : IF Exists(n) THEN handlers[n] = rows[n] ELSE handlers[n] \notin Urls
  /\ \A n \in load.guarded : handlers[n] = Code => n \in validators
=============================================================================
