----------------------------- MODULE Admission -----------------------------
(***************************************************************************)
(* What a request is before a handler of the application sees it: whose    *)
(* rights it has (middlewares.js), which parameters are left of it         *)
(* (ClassesRouter.js), and what validators and triggers make of it         *)
(* (triggers.js).  The applications, their validators and their triggers   *)
(* are given; sessions are found as AuthCaches and Accounts say.           *)
(***************************************************************************)
EXTENDS Integers, Sequences, SequencesExt, FiniteSets, TLC

CONSTANT None   \* nothing: undefined, null, a missing header

Or(a, b) == IF a # None THEN a ELSE b

-----------------------------------------------------------------------------
(* Credentials.  `apps` maps the ids of the applications to their          *)
(* configurations; a request has headers, at most one pair of basic        *)
(* authentication, and a body that may be a buffer still to be parsed.     *)

Refused == [ok |-> FALSE, master |-> FALSE, readOnly |-> FALSE, user |-> None, session |-> None]
Admitted(master, readOnly, user, session) ==
  [ok |-> TRUE, master |-> master, readOnly |-> readOnly, user |-> user, session |-> session]

\* The pair is an application and its master or JavaScript key.
WithBasicAuth(apps, r) ==
  IF r.basic = None \/ r.basic.app \notin DOMAIN apps THEN r.headers
  ELSE [r.headers EXCEPT !.app = r.basic.app, !.master = Or(r.basic.master, @), !.js = Or(r.basic.js, @)]

\* Mutant: the session in the body is not looked at.
FromBody_NoSession(apps, info, r) ==
  IF r.body = None \/ r.buffer = "binary" \/ r.body.app \notin DOMAIN apps THEN None
  ELSE [info EXCEPT !.app = r.body.app, !.js = r.body.js, !.master = Or(r.body.master, @)]

\* Without an application in the headers everything is taken from the body, which may be the
\* JSON of a file upload; headers it does not name stay, but for the JavaScript key.
FromBody(apps, info, r) ==
  IF \/ r.body = None \/ r.buffer = "binary"
     \/ r.body.app \notin DOMAIN apps
     \/ info.master # None /\ apps[r.body.app].master # info.master
  THEN None
  ELSE [app |-> r.body.app, js |-> r.body.js, rest |-> info.rest,
        session |-> Or(r.body.session, info.session), master |-> Or(r.body.master, info.master)]

Info(apps, r) ==
  LET info == WithBasicAuth(apps, r) IN
  IF info.app \in DOMAIN apps THEN info ELSE FromBody(apps, info, r)

\* The first address a proxy forwards, or that of the connection.
ClientIp(r) == IF r.forwarded # <<>> THEN Head(r.forwarded) ELSE r.address

MasterFrom(app, info, ip) == info.master = None \/ app.masterKeyIps = {} \/ ip \in app.masterKeyIps

\* Client keys count once one is configured.
KeyMatches(app, info) ==
  (app.js = None /\ app.rest = None) \/ (app.js # None /\ info.js = app.js) \/ (app.rest # None /\ info.rest = app.rest)

\* A token of a session of today, or of the days before revocable sessions.
ForSession(app, info, url) ==
  LET owners == IF url = "/upgradeToRevocableSession" /\ info.session \notin DOMAIN app.sessions
                THEN app.legacy ELSE app.sessions IN
  IF info.session \in DOMAIN owners THEN Admitted(FALSE, FALSE, owners[info.session], info.session) ELSE Refused

HandleParseHeaders(apps, r) ==
  LET info == Info(apps, r)
      app == apps[info.app]
  IN CASE info = None -> Refused
       [] info # None /\ ~MasterFrom(app, info, ClientIp(r)) -> Refused
       [] info # None /\ MasterFrom(app, info, ClientIp(r)) ->
            CASE info.master = app.master -> Admitted(TRUE, FALSE, None, info.session)
              [] info.master # app.master /\ app.readOnly # None /\ info.master = app.readOnly ->
                   Admitted(TRUE, TRUE, None, info.session)
              [] OTHER ->
                   CASE ~KeyMatches(app, info) -> Refused
                     [] OTHER -> IF info.session = None \/ r.url = "/login" THEN Admitted(FALSE, FALSE, None, None)
                                 ELSE ForSession(app, info, r.url)

-----------------------------------------------------------------------------
(* Validators.  A rule asks for a user, the master key, parameters and     *)
(* attributes of the user.  A value is <<type, v>>; `object` is the object *)
(* a trigger is about, None for a function, `original` what it was.        *)

Truth(v) == v # None /\ v # <<"number", 0>> /\ v # <<"string", "">>
Value(params, key) == IF key \in DOMAIN params THEN params[key] ELSE None
Put(params, key, v) == [k \in DOMAIN params \cup {key} |-> IF k = key THEN v ELSE params[k]]

\* The state of the loop over fields: what was given, with defaults, and the object.
CheckField(original, isObject, field, s) ==
  LET rule == field.rule
      given == Value(s.params, field.key)
      defaulted == rule.default # None /\ given = None
      val == IF defaulted THEN rule.default ELSE given
      params == IF defaulted THEN Put(s.params, field.key, val) ELSE s.params
      withDefault == IF defaulted /\ isObject THEN Put(s.object, field.key, val) ELSE s.object
      object == IF ~(rule.constant /\ isObject) THEN withDefault
                ELSE IF original # None THEN Put(withDefault, field.key, original[field.key])
                ELSE IF rule.default # None THEN Put(withDefault, field.key, rule.default) ELSE withDefault
  IN [ok |-> /\ s.ok
             /\ rule.required => val # None
             /\ rule.type # None => val # None /\ val[1] = rule.type
             /\ rule.options # {} => val \in rule.options,
      params |-> params, object |-> object]

Validated(rules, request) ==
  LET isObject == request.object # None
      creating == isObject /\ request.class = "_User" /\ request.original = None
      start == [ok |-> TRUE, params |-> IF isObject THEN request.object ELSE request.params, object |-> request.object]
      done == FoldLeft(LAMBDA s, f : CheckField(request.original, isObject, f, s), start, rules.fields)
      user == IF request.user = None /\ creating THEN done.object ELSE request.user
  IN IF request.master /\ ~rules.validateMasterKey THEN start
     ELSE [done EXCEPT !.ok = /\ rules.requireUser => user # None
                              /\ rules.requireMaster => request.master
                              /\ @
                              /\ \A k \in rules.userKeys : user # None /\ Value(user, k) # None]

\* maybeRunValidator, then the function, which is not skipped for the master key.
HandleCloudFunction(rules, request) ==
  LET v == Validated(rules, request) IN IF v.ok THEN [ran |-> TRUE, given |-> v.params] ELSE [ran |-> FALSE, given |-> None]

\* maybeRunTrigger for beforeSave: the object that is saved, None if it is refused; the
\* trigger sets fields of the object.
BeforeSave(rules, request, sets) ==
  LET v == Validated(rules, request) IN
  CASE ~v.ok -> None
    [] v.ok /\ rules.skipWithMasterKey /\ request.master -> v.object
    [] OTHER -> sets @@ v.object

-----------------------------------------------------------------------------
(* The parameters of a find (ClassesRouter) and its triggers.              *)

Numbers == {"skip", "limit"}
Texts == {"order", "include"}
StringsOnly == {"keys", "excludeKeys", "readPreference", "includeReadPreference", "subqueryReadPreference"}
Flags == {"count", "includeAll", "explain"}
AllowConstraints == Numbers \cup Texts \cup StringsOnly \cup Flags \cup {"redirectClassNameForKey", "where", "hint"}
Number(n) == <<"number", n>>

\* The query string, parsed where it parses, over the body.
Joined(body, query) == query @@ body

OptionsFromBody(body) ==
  LET kept(o) == CASE o = "limit" -> Truth(body[o]) \/ body[o] = Number(0)
                   [] o \in StringsOnly -> body[o][1] = "string"
                   [] o = "hint" -> Truth(body[o]) /\ body[o][1] \in {"string", "object"}
                   [] o = "where" -> FALSE
                   [] OTHER -> Truth(body[o])
      options == [o \in {p \in DOMAIN body : kept(p)} |-> body[o]]
  IN IF DOMAIN body \subseteq AllowConstraints THEN options @@ ("limit" :> Number(100)) ELSE None

HandleFind(maxLimit, body, query) ==
  LET all == Joined(body, query)
      options == OptionsFromBody(all)
  IN IF options # None /\ maxLimit # None /\ Value(all, "limit") # None /\ all["limit"][2] > maxLimit
     THEN [options EXCEPT !["limit"] = Number(maxLimit)] ELSE options

\* Parse.Query keeps what is not empty: it reads the options and writes them again.
QueryToJSON(options) ==
  [o \in {p \in DOMAIN options \ {"includeAll", "redirectClassNameForKey"} : Truth(options[p])} |-> options[o]]

\* maybeRunQueryTrigger: the trigger changes a query made of the request, or returns another;
\* what it says is put over the options.
MaybeRunQueryTrigger(rules, master, options, change) ==
  LET v == Validated(rules, [master |-> master, user |-> None, object |-> None, original |-> None, params |-> <<>>])
      parsed == QueryToJSON(options)
      result == IF rules.skipWithMasterKey /\ master THEN parsed 
               ELSE QueryToJSON(IF change.own THEN change.sets ELSE change.sets @@ parsed)
  IN IF ~v.ok THEN None ELSE [o \in {p \in DOMAIN result : Truth(result[p])} |-> result[o]] @@ options

\* maybeRunAfterFindTrigger: the validator first, then the trigger, which answers with objects,
\* with nothing, or with a promise of either; None is an error.
MaybeRunAfterFindTrigger(rules, master, objects, answer) ==
  LET v == Validated(rules, [master |-> master, user |-> None, object |-> None, original |-> None, params |-> <<>>]) IN
  CASE ~v.ok -> None
    [] v.ok /\ rules.skipWithMasterKey /\ master -> objects
    [] OTHER -> IF answer.objects # None THEN answer.objects
                ELSE IF answer.promised THEN None ELSE objects
=============================================================================
