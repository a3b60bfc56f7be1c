# Parse Server and its application: a TLA+ development

The repository holds two programs in one process. `src/` is Parse Server 4.10.4:
a backend that stores objects in MongoDB or PostgreSQL behind REST and GraphQL
interfaces, with users, roles, sessions, permissions, push notifications, Cloud Code and
live queries. `cloud/main.js` is the Cloud Code of one application built on it: two
betting games, coin purchases and follows. `server.js` starts both, on MongoDB.

This directory models the parts of the two whose correctness depends on the order
in which things happen, and the algorithms whose correctness depends on the combination
of their inputs; checks them with TLC on small instances; and proves what matters most
with TLAPS for every value of the constants.

Source paths below are relative to the root of the repository: `src/LiveQuery/...` is
Parse Server, `cloud/main.js` the application.

## The system

### One process, many requests

Node runs JavaScript in turns: a function runs until its first `await` and resumes
in a later turn. Everything between two awaits is atomic; everything across them
interleaves with all other requests, and across processes with theirs too. So the
hard behaviour of this code is nowhere in a lock or a thread: it is in values that are
read before an `await` and used after it, in checks and writes that are two database
calls, in state that lives in the process but describes the database (caches, copies
of the schema, statistics), and in sequences of calls of which one may fail while those
before it stay done. There are no transactions outside of `batch.js`.

In all modules a step is one such turn, or one call that the database executes
atomically. A handler that suspends is a record of local state (`pend`, `pc`, `req`,
`chains`), and its continuation is an action of its own.

The other half of the code is translation without state: permissions and subqueries become
query constraints, queries and updates become MongoDB documents or SQL, GraphQL becomes
REST. It has no interleavings; what makes it hard is how options meet each other. These
functions are operators here, compared with what they should mean, case by case.

### Components

| Component | State it keeps | Operations | What is hard | Correct when |
|---|---|---|---|---|
| LiveQuery registry (`LiveQuery/ParseLiveQueryServer.js`, `Subscription.js`, `Client.js`) | clients, subscriptions by class and query hash, request ids per client | connect, subscribe, update, unsubscribe, close of a socket | triggers suspend connect and subscribe; sockets close meanwhile | every open socket is served, nothing empty stays, what a client refers to is registered |
| LiveQuery events (same files) | the message shared by all promise chains | afterSave, afterDelete of an object | lookups of sessions and roles and triggers suspend a chain; chains share the message | only those the ACL lets read are pushed, the right event, in order, without secrets |
| Ferris wheel (`cloud/main.js`) | bets, results, `gameProfit`, statistics in memory | `game_choice`, `game_info`, `game_reset`, `admin_reset_profit_stats` | settlement by whoever asks first; checks and writes apart | a round is settled once, after it closed; gold is conserved |
| Profit control (`cloud/main.js`) | how often each fruit came up, when the x45 last did | choose a fruit, count it, reset | ties, clamping, factors that depend on the past | the house keeps a profit |
| Fruit jackpot (`cloud/main.js`) | bets, results | `fruit_jackpot_bet`, `fruit_jackpot_process_round` | a round processed twice or cut short | each bet paid once |
| Coin purchases (`cloud/main.js`) | recorded transactions, the user cache | `verifyAndAddCoins` | duplicates; stale copies of the user | each purchase granted once, nothing else lost |
| Follows (`cloud/main.js`) | two arrays of two users | `follow_user`, `unfollow_user` | two saves | the arrays agree |
| Schema (`Controllers/SchemaController.js`, `Adapters/Cache/SchemaCache.js`, the adapters) | `_SCHEMA` rows, columns and indexes, cached copies, each request's copy | load, enforce a class and its fields, create, update, delete | every request checks against its own copy; several calls per change | stored values have the type of the schema; the database is built as the schema says |
| Users and sessions (`RestWrite.js`, `Routers/UsersRouter.js`, `Routers/SessionsRouter.js`, `AccountLockout.js`, `Controllers/UserController.js`) | users, sessions, tokens, counters | sign up, log in and out, change, lock, verify, reset | uniqueness asked before the insert; counters and locks in calls apart; tokens reused | one account per identity; a token works for its address; guesses lead to a lock |
| Session and role caches (`Auth.js`, `Controllers/CacheController.js`, `Adapters/Cache/*`) | entries with a time to live | authenticate, load roles, forget | caches against the database | what the database no longer holds is not honoured for ever |
| Writing objects (`RestWrite.js`, `rest.js`, `batch.js`, `middlewares.js`) | transactional session, request ids | create, update, delete, alone, in batches, in transactions | calls side by side; failures half-way; retries | all or nothing; once; live queries told the truth |
| Installations (`RestWrite.js`) | installations by id, installationId, deviceToken | register, update, merge | three identifiers of one device | one row per device |
| Push (`Controllers/PushController.js`, `Push/*`, `StatusHandler.js`) | `_PushStatus`, queue of batches | send, split, deliver, count | results come in any order and number | complete when all batches are; each device reached once |
| Webhooks (`Controllers/HooksController.js`, `triggers.js`) | `_Hooks`, triggers in memory | create, update, remove, load | memory against the database | both agree |
| Permissions (`DatabaseController.js`, `SchemaController.js`, `RestQuery.js`) | none | class-level, pointer and object permissions, protected fields | rules become constraints of one query | a row is reached exactly if the rules say so |
| Queries (`RestQuery.js`, `DatabaseController.js`) | none | inQuery, select, relations, keys, include, each | parts of a query are replaced by results of others | same as evaluating the query at once |
| Query engines (`Adapters/Storage/*`, `LiveQuery/QueryTools.js`) | none | match an object against a where | three translations of one language | the same objects match |
| Stored forms (`MongoTransform.js`, `PostgresStorageAdapter.js`) | none | write, read, update a value of every type | two translations and their inverses | what is written comes back |
| Aggregation (`AggregateRouter.js`, the adapters) | none | pipelines, distinct, count | SQL has no pipeline | both databases give the same |
| Requests (`middlewares.js`, `ClassesRouter.js`, `triggers.js`) | none | credentials, parameters, validators, query triggers | several ways to send the same | a caller has the rights of its credentials |
| GraphQL (`GraphQL/*`, `Controllers/ParseGraphQLController.js`) | configuration, its cache, the generated schema | load, update; queries and mutations | overlapping loads share the schema object; nested writes | what is offered is what is configured; a request means what it says |
| Cloud code helpers, other cloud functions, LiveQuery transport, GraphQL types and server, files, third-party sign-in, configuration, logging, analytics, other routers, web pages | - | - | I/O, wiring, output | - |

`PROJECT.json` lists the same components with their files and status, and under
`hazards` each place where the order of things bites, with the property that would
notice.

### How they interact

A request passes `middlewares` (keys, session, idempotency), a router, `rest` and
`RestWrite` or `RestQuery`, and the `DatabaseController`, which asks the
`SchemaController` and then the storage adapter. `RestWrite` runs the triggers around
the write and hands the object before and after it to the LiveQuery publisher. The
LiveQuery server receives these messages and the events of its sockets. Cloud functions
are called by `FunctionsRouter` and use the same stack through the SDK. Sessions, users,
roles and the schema are cached in front of the database by `CacheController` and
`SchemaCache`.

## Modules

| Module | Models | Role |
|---|---|---|
| `LiveQueryTable` | what the registry promises | abstract specification |
| `LiveQueryRegistry` | the registry and its handlers | refines `LiveQueryTable` |
| `LiveQueryRegistry_proofs` | | theorems about it |
| `LiveQueryEvents`, `LiveQueryEvents_proofs` | the fan-out of saves and deletions | component and theorems |
| `Ledger` | what games and shop promise | abstract specification |
| `CloudStore` | clock, credits, suspended requests, failing calls | shared by the next four |
| `FerrisWheel`, `FruitJackpot`, `CoinPurchases`, `FollowGraph` | one group of cloud functions each | components |
| `CloudCode` | all of them side by side, restarts | composition; refines `Ledger` |
| `CloudCode_proofs`, `CloudGold_proofs` | | theorems about it: sums over finite sets, states, rounds, markers and follows; the gold |
| `SmartProfit`, `SmartProfit_proofs` | the choice of the fruit | algorithm and theorems |
| `SchemaRegistry`, `SchemaRegistry_proofs` | writes and schema changes of one class | component and theorems |
| `Accounts`, `Accounts_proofs` | users, sessions, lockout, verification, reset | component and theorems |
| `AuthCaches`, `PushDelivery`, `Installations`, `ObjectWrites`, `Webhooks`, `ClassCatalogs`, `GraphQLSchema` | one service of the server each | components, side by side in `MCServices` |
| `Services` | the first five of them with their constants and variables, and what a run asks of them | shared by `MCServices` and the proofs |
| `Services_proofs` | | theorems about `AuthCaches`, `PushDelivery`, `Webhooks`, `Installations` and `ObjectWrites` |
| `Permissions`, `RestQueries`, `QueryEngines`, `StoredForms`, `Aggregates`, `Admission`, `GraphQLQueries`, `GraphQLMutations` | one group of translations each | operators; their cases and references are in `MCRequests` (permissions, queries, requests, GraphQL) and `MCDatabases` (engines, stored forms, aggregation), side by side in `MCAlgorithms` |
| `MC...` | instances | constants, bounds, symmetry, cases |

Definitions named `X_Something` beside a definition `X`, with a comment that begins
"Mutant:", are the forms `X` would have if the code had a plausible bug. Nothing uses
them in a specification. With the body of `X` replaced by its mutant, TLC must violate
the property the mutant is listed with in `PROJECT.json`; this is how it is known that
each property depends on the code.

### LiveQueryRegistry

*State.* `clients` and `infos` are `this.clients` and each client's `subscriptionInfos`;
`registry` and `classes` are the two levels of `this.subscriptions`; `query` and `reqs`
are the fields of `Subscription` objects, with `reqs` counting how often a request id is
listed for a client because `addClientSubscription` pushes without looking. `clientId` is
the property the server hangs on the socket, `socket` its inverse in the `Client`
object. `pend` holds the continuations of suspended handlers.

*Actions.* `HandleConnect` and `HandleSubscribe` are the handlers up to the trigger's
`await`, `ConnectAccepted`, `SubscribeAccepted` and `TriggerRejected` what follows. Update
is unsubscribe and subscribe in one turn, as in `_handleUpdateSubscription`.
`MacrotaskTurn` says that without a trigger the `await` takes microtasks only, so no
socket event comes in between. The client captured before the trigger and the
`clientId` read again after it are kept apart (`infos` is written through the first,
`reqs` through the second), because the code does that and a reconnect makes them differ.

*Properties.* `OpenSocketHasClient` and `ReferencedIsRegistered` say that the two map
look-ups which the handlers use unchecked always succeed. `OneClientPerStep` says that
clients do not disturb each other. These hold with triggers, reconnects and repeated
request ids, as does `NothingEmptyRegistered`, which is proved. `PlainImplementsTable`
holds without triggers and for SDKs that do not reuse a request id while it is in use,
reconnects included. With a trigger it is false: a subscribe in flight when its socket closes is
filed for a client that is gone (`_handleSubscribe` does not look again), and the
subscription stays. That is the reason for the two settings of `MCLiveQueryRegistry`.

### LiveQueryEvents

One object, the messages of its saves and deletion, and one chain per request and
message. A version of the object is abstracted to the queries it matches and to what its ACL
says: everyone may read it, or those a lookup finds to be a user or role it names. `event` is
the field `message.event` in which a chain leaves its decision and from which it takes it back
after awaits, and `secrets` is whether the JSON shared by the chains still has its session
token and auth data.

A chain waits for lookups (`Lookups`): the session of the token its request was subscribed with and
the roles of that user, then the same for its client's token. `ACLLookups` are those one ACL needs,
in the order `_matchesACL` and `_verifyACL` make them: none for an object everyone may read or a
client with the master key, no roles when the ACL names none or the user himself, no
second token when the first will do. The check of the class's permissions, which every chain
awaits first (`CLPLookups`), looks up the session too, and its answer is dropped
(`ParseLiveQueryServer.js:154`, `:269`). `LookupDone` answers all chains of a request that wait for the
same lookup at once, as they hold one promise (`authCache`, and the `Auth` in it for the roles).
`Turn` is the order in which they then go on.

With clients of different queries or rights the field is overwritten by other chains:
`PushedAsDecided` is violated (`lq_event_type`). What still holds is that every event goes
to a client whom the object's ACL, before or after the change, lets read it (`PushedToReaders`),
and that secrets reach the master key only (`SecretsToMasterOnly`). About the class's permissions
nothing is claimed: the code asks them and pushes whatever they say.

The rest holds within a class of runs, and the history `apart` is set by what ends it: a message that
concerns requests that can be told apart (`Alike`: the same versions match each, and each
client may read them), a lookup that fails, a trigger, or a message that finds a chain of a
request still under way which waits for other lookups than its own (`OneWay`). The last is
how events overtake each other: one version's ACL needs the roles of a user, the next one's
does not. The model reaches it, the views are then wrong for good, and no property claims
otherwise. Up to there chains decide alike, and the event is the right one
(`SharedPushedAsDecided`), in the right order (`ViewTracksObject`), and every client ends up with
the right view (`ViewsConverge`), whether it takes two, one or no lookups to find that
it may read. In "mixed" most messages set `apart`; in "shared" only overtaking does.

### The cloud functions

`CloudStore` has the clock in seconds, the credit of each user, and a slot `pc[h]` for
every request in service; the actions of the four components are the database calls of
their functions in the order the code makes them. `CallFails` ends a request at any
call, `Restart` ends all of them and loses what the process keeps in memory: the
statistics and the user cache.

| Code | Actions |
|---|---|
| `game_choice` | `GameChoice` (round read from the clock), `FetchBalance`, `Debit`, `FindBet`, `InsertBet` or `RaiseBet` |
| `game_info` | `GameInfo` (no result found for the last round), `SaveResult`, `FindWinners`, `PayWinner` for each, `RecordRound` |
| `game_reset` | `GameReset`, `DestroyBet` for each row or `DestroyFails`, `ZeroProfit` |
| `admin_reset_profit_stats` | `ResetStats` (and `SmartProfit!ResetStats`) |
| `fruit_jackpot_bet` | `JackpotBet` (betting still open), `JackpotFetchBalance`, `JackpotDebit`, `JackpotFile` |
| `fruit_jackpot_process_round` | `ProcessRound`, `JackpotSaveResult`, `JackpotFindWinners`, `JackpotPay` and `JackpotMark` for each, `Processed` |
| `verifyAndAddCoins` | `Authenticate` (the user from the cache or the database), `PutUser` (into the cache), `CheckDuplicate`, `Verify`, `Grant`, `Record` |
| `follow_user`, `unfollow_user` | `FollowUser`, `UnfollowUser`, `SaveAuthor`, `SaveReceiver` |

Increments (`AddCredit`) are applied by the database; `Grant` sets an absolute value,
because `verifyAndAddCoins` computes it from `request.user`. Every save of a user by any of the
functions takes its entries out of the user cache (`Forget`, `RestWrite.transformUser`), so
that requests one after the other work on true copies; one that overlaps a save may
put the copy it has read back into the cache after it, where it stays for its time to live
(`Expire`). Variables called history
(`staked`, `paid`, `timesPaid`, `granted`, `stale`, `alone`) are not in the code and never
guard an action: they let a property speak of what happened.

Two questions are asked of this composition, as two settings of `MCCloudCode`.

*What does each function guarantee whatever else happens?* ("any": two requests at a
time, failures, restarts and the cache.) Payments never exceed what the results and the
filed bets justify (`PaidForResults`, which allows for a round with two results), a round is
never settled before it closed although requests act on an old reading of the clock
(`SettledAfterClose`), gold is not created other than by stale copies (`GoldAccounted`), a
marked jackpot bet was paid and a recorded purchase granted (`MarkersAreTrue`), the
seconds between closing and the end of a round are enough for a bet that takes less
(`TimelyBetCounts`), and a follow that gets through alone repairs what earlier ones left
behind (`RetryHeals`).

*Do the functions keep their promises when nothing interferes?* ("serial": one request at
a time, none failing.) Yes: `SerialKeepsPromise` is the refinement of `Ledger`,
where a bet, a settlement and a purchase are one step each. The refinement mapping counts
gold that a request has debited and not filed yet as still the player's, and winnings a
settlement has yet to pay as already paid; a settlement happens when its result is saved.
`SerialShowsTheBooks` says that what `game_info` displays is what was filed and paid.

What is lost between the two is what a reader should know: with two requests at a time
balances may go below zero, a bet may have two rows (of which `game_info` shows
one), rounds may be settled twice (although `cloud/main.js:148` says "make sure the round is
not processed twice"), purchases may be granted twice; what another request of the buyer adds or
takes between a purchase's authentication and its save is undone (`cloud_stale`, which
needs no cache for it); with failures, gold debited is gone, and winners of a round with a
saved result are never paid, as nothing looks at it again.

### SmartProfit

`calculateOptimalFruit` compares, for each of the eight fruits, the profit margin of the
round if that fruit came up, multiplied by factors and clamped to 10-90%, with 70%. The
model uses integers in units of 1/(20000 * Total), so products of the factors 0.7, 0.8,
0.9, 1.1 and 1.15 are exact. The program computes in doubles. Comparisons of distinct
margins come out the same but for differences below rounding; for equal ones the model
lets the rounding decide (`MayTake`, `MayKeep`), except at the limits 0.1 and 0.9, which
the clamp yields exactly, so that their deviations are equal in doubles too. The loop's
turn is a step; result and payments are saved in between (`Drawn`), where the settlement
may fail (`Abandon`) or the statistics may be reset (`ResetStats`).

`HouseNeverLoses` is surprising enough to be proved: no line of the code checks it. It
holds because the inverses of the multipliers add up to more than 1 (1/45 + 4/5 + 1/10 +
1/15 + 1/25), so that some fruit is profitable for any bets; because every fruit without
profit is clamped to 0.1, farther from 0.7 than any other value the clamp lets through;
and because at a tie the later fruit is taken exactly if it is profitable. It says
nothing of the profit's size.

### SchemaRegistry

One class, its document in `_SCHEMA` (`db`), its objects, and requests of three kinds: a
write of an object, a change of the class and its deletion. Each has a `schema` of its
own, loaded when it began or when it last reloaded, and a cache: its own, or one shared by
all requests with `enableSingleSchemaCache`. `add[f]` is the state of the addition of a
field, which runs beside the request and may outlive it.

| Code | Actions |
|---|---|
| `getAllClasses`, `getOneSchema`, `setAllClasses`, `SchemaCache` | `LookUp`, `ReadSchema`, `CacheSchema`, `Expire`, `ClearCache` |
| `enforceClassExists` | `EnforceClassExists`, `ClassMissing` |
| `validateObject`, `enforceFieldExists` | `EnforceFieldsExist`, `RefuseFields` |
| `addFieldIfNotExists` (adapter) | `FindField`, `UpsertField`, `AdditionFails` |
| `ensureFields` | `FieldsAdded`, `EnsureFields` |
| `create` | `Store` |
| `updateClass`, `deleteFields` | `CheckUpdate`, `ClearCache`, `DropValues`, `DropFields` |
| `deleteSchema` | `CountObjects`, `DropCollection`, `DropClass` |

`StoredMatchesSchema` is what the checks are for: whatever requests run side by side, a
stored value has the type the schema in the database gives its field. It holds because
the database never changes the type of a field and every write reads the schema again
after its additions; it does not depend on the checks made before. The exception is
deletion: a field deleted while a write of it is served (or, with a shared cache, at any
time before) may come back without a schema. The history variable `raced` names these
fields; see the limits below. `RefusedForAConflict` is the other side: a write
is refused for a conflict with what is stored or for a lost call, never because another
request created the class or field at the same time.

### Accounts

One collection of users, one of sessions, and requests in slots. A step is a database call
and what the code does with its answer, so that every check of `RestWrite` before the
write is a step apart from the write, and the write itself refuses what the unique indexes
refuse.

| Code | Actions |
|---|---|
| `RestWrite.execute` on `_User` | `SignUp`, `SignInWith`, `Update`; `HandleAuthData`, `ValidatePasswordHistory`, `ValidateUserName`, `ValidateEmail`, `CollectHistory`, `RunDatabaseOperation`, `ClearSessions`, `SendVerificationEmail` |
| sessions (`createSessionToken`, `destroyDuplicatedSessions`, `/upgradeToRevocableSession`, `/logout`) | `CreateSession`, `DestroyDuplicatedSessions` (whose deletions nobody waits for: `StrayArrives`), `UpgradeSession`, `LogOut`, `DeleteSession` |
| `UsersRouter._authenticateUserFromRequest`, `AccountLockout` | `LogIn`, `Authenticate`, `NotLocked`, `SetFailedLoginCount`, `IsFailedLoginCountSet`, `IncrementFailedLoginCount`, `SetLockoutExpiration`, `Admit` |
| `UserController` | `FollowLink`, `VerifyEmail`, `ConfirmEmail`, `AskVerification`, `RegenerateToken`, `RenewToken`, `AskReset`, `FindResetToken`, `SetPasswordResetToken`, `ResetPassword`, `CheckResetToken` |

`VerifiedIsMailed`: an address counts as verified only when a token mailed to this very
address came back, in every interleaving, although `RenewToken` writes back a user read
earlier. The loads in which users without an address ask for the mail while others take their
name are excepted (see the limits). `ThresholdLocks`: increments, resets and locks of
overlapping attempts never leave the count up and the lock unset. `OneAccountPerIdentity`, `SessionsInOrder` and
`PasswordNotRepeated` say what only requests one by one achieve, and what the indexes add for
overlapping ones.

Met while modelling: an e-mail changed together with provider data keeps its old
verification; attempts at a user renamed meanwhile are not counted; overlapping log-ins
from one installation can end each other's sessions; a reset token is checked, and then the
password written, so a token used twice at once works twice.

### The services

Seven components of the server in one run, a behaviour being one of them. `Services` has
instances of the first five and their properties, `MCServices` those of the other two, the loads
of all and the common next-state relation.

*AuthCaches.* Authentication by session token (`Authenticate`, `FindSession`, `IncludeUser`),
roles level by level (`LoadRoles`, `GetRolesForUser`, `GetRolesByIds`, `CacheRoles`), each write
that removes entries before it writes, and the paths that do not (a duplicate session ended by
a log-in, a session whose time is over, a role or a user deleted, the provider data of a user
written past `RestWrite`'s own clearing, `RestWrite.js:540`). Entries put after they were removed
are stale; `CachesHold` says what a load of roles may yield while roles change
(`RolesWereHeld`) and that requests one by one leave the caches exact, as long as none of these
paths is taken (`ExactBetweenRequests`);
`CachesCatchUp` that the time to live ends whatever became stale.

*PushDelivery.* `Enqueue` counts installations and cuts batches; `Serve` looks a batch's page up
when it is served; `Answer` and `Update` count results down. `SucceededAndReached`: nobody is
skipped or sent to twice while installations stay what they are, and a push of one body has
succeeded only when every result is in. `PushesEnd` is liveness, with the exceptions the code
has: a batch that finds nobody, an adapter that does not answer, a result stored before the
number of batches was. With several bodies a batch takes more than one off the count, so
such a push succeeds early.

*Installations.* `HandleInstallation` with the ways out of its two hundred and fifty lines, `Merge`,
`Write`, and `Delete` for the deletions nobody waits for. `OneRowPerDevice` holds one by one;
requests at once leave duplicates, as no index forbids them.

*ObjectWrites.* The stages of a call (`ReadOriginal`, `Before`, `Store`, `After`, `Publish`), several
calls of a batch at once, MongoDB's snapshots and conflicts in a transaction, request ids
(`Reserve`, `ExpireId`), `Crash`. `WholeAndOnce`: nothing of a transaction with a refused call is
ever in the database, and a request sent again is not served twice while its id is kept.
`PublishedWasStored`: live queries are told of writes that were made, and of requests for one
object each, served one by one, exactly what was stored (the calls of a batch overlap each
other); with a transaction they are told before it commits, and of those it aborts.

*Webhooks.* `Find` registers in memory before `Write` stores, `Delete` likewise; `Load` at the
start adds what was read. `HooksMatch`.

*ClassCatalogs.* The same requests given to both adapters, each step by step and cut short
after any step, at MongoDB also between the calls of a step (an index dropped and the row not
written, a collection dropped and its row still there): `SchemasAgree` says that they refuse the same and end with the same schema, but for
three named differences, and that columns, join tables and indexes are those of the
schema, but for indexes lost in ways the history `excused` names.

*GraphQLSchema.* `load` in its awaits (`GetGraphQLConfig`, `FindConfig`, `PutConfig` beside
`FindClasses`, `SetAllClasses`, then `AskForClasses`, `GetClassesForSchema`, `GetFunctionNames`,
`LoadSchema`) over the schema object all requests share, the cached configuration, the schema
cache of the GraphQL server, which changes made by REST requests do not clear, and what classes
yield: names that are reserved or taken, aliases, operations switched off, fields hidden.
`ServedWasThere`: however loads overlap, a request is served with a schema made of a
configuration, classes and functions there were, or were cached, while it loaded.
`OfferedAsConfigured` compares what is served with what the configuration says; users are left
out of that when another load changed `isUsersClassDisabled` between the await it is set before
and the one it is used after (`ParseGraphQLSchema.js:391`), which the model reaches. Both are
parts of `SchemasAgree`.

### The algorithms

Operators without state. A case is an input; the run takes each as an initial state of
its own, so the bounds are the sets of cases in `MCRequests` and `MCDatabases`.

| Module | Code | Reference it is compared with |
|---|---|---|
| `Permissions` | `validatePermission`, `addPointerPermissions`, `addReadACL`, `addProtectedFields`, ... | each row and field decided by itself, by the rules in force |
| `RestQueries` | `replaceInQuery`, `replaceSelect`, `reduceRelationKeys`, `handleInclude`, `each`, ... | the meaning of the whole query over all rows |
| `QueryEngines` | `transformWhere`, `buildWhereClause`, `matchesQuery`, `queryHash` | the meaning of each constraint |
| `StoredForms` | `parseObjectToMongoObjectForCreate`, `transformUpdate`, `createObject`, `updateObjectsByQuery`, ... | the object with the update applied to it |
| `Aggregates` | `AggregateRouter`, both `aggregate`s and `distinct`s | stages applied one after the other |
| `Admission` | `handleParseHeaders`, `ClassesRouter.handleFind`, `builtInTriggerValidator`, `maybeRunQueryTrigger` | credentials, rules and options taken one by one |
| `GraphQLQueries` | `transformQueryInputToParse`, `findObjects`, `extractKeysAndInclude` | rows described by the where; slices; the selection |
| `GraphQLMutations` | `transformTypes`, `parseClassMutations`, `schemaMutations`, `usersMutations` | the world the input describes |

Where an engine cannot express something or the code does something else, the case is left
out by an operator that says so (`MongoExact`, `PostgresExact` and the like), and the list of
[what the code does there](#limits-of-the-models-and-what-the-code-does-there) names it.

## Runs

| Run | Instance and bounds | Checks | Distinct states |
|---|---|---|---|
| `lq_registry` | 2 sockets, 2 client ids, 3 subscriptions, 2 suspended handlers; "triggers": both triggers, reconnects, an id listed twice, 1 request id, 2 queries; "plain": reconnects, 2 request ids, 3 queries of 2 classes | `OpenSocketHasClient`, `ReferencedIsRegistered`, `OneClientPerStep`, `PlainImplementsTable` | 111825 |
| `lq_events` | "mixed": 3 requests, of owner (with two tokens), other and master key, 2 queries, 4 versions, one for a role, 2 messages, trigger and failing lookups; "shared": 2 requests of 1 query, one with its own token and one with its client's, 3 versions both may read, one by a role for the first and by the user for the second, 3 messages, fair | `PushedToReaders`, `SecretsToMasterOnly`, `SharedPushedAsDecided`, `ViewTracksObject`, `ViewsConverge` | 82830 |
| `lq_event_type` | as "mixed" | `PushedAsDecided` is violated | |
| `cloud` | 2 users, 2 fruits, rounds of 2 seconds, a clock of 3; "any": 3 requests, 2 at a time, failures, restarts, cache; "serial": 4 requests one at a time, no cache, 3 transactions | `PaidForResults`, `SettledAfterClose`, `GoldAccounted`, `MarkersAreTrue`, `SerialShowsTheBooks`, `TimelyBetCounts`, `RetryHeals`, `SerialKeepsPromise` | 685 thousand |
| `cloud_stale` | 4 requests, 2 at a time, without the user cache | `CoinsAreAdded` is violated | |
| `schema` | 2 fields, 2 types, 3 requests out of 6, 2 at a time; both kinds of cache | `StoredMatchesSchema`, `RefusedForAConflict` | 2.0 million |
| `schema_geo` | 2 writes of GeoPoints at a time | `OneGeoPointField` is violated | |
| `accounts` | 2 users, 2 names that differ in case, 2 addresses, 3 passwords, 1 provider id, 1 installation; 2 ticks; fifteen loads of 2 to 4 requests, 2 at a time or one by one | `VerifiedIsMailed`, `ThresholdLocks`, `OneAccountPerIdentity`, `SessionsInOrder`, `PasswordNotRepeated` | 361549 |
| `services` | see below | `CachesHold`, `CachesCatchUp`, `SucceededAndReached`, `PushesEnd`, `OneRowPerDevice`, `WholeAndOnce`, `PublishedWasStored`, `HooksMatch`, `SchemasAgree` | 418 thousand |
| `installation_merge` | updates that name what they like, one at a time | `MergeKeepsARow` is violated | |
| `algorithms` | profit control: every fruit backed or not, one or two outweighing the rest, two tight distributions, 2 rounds; and the cases of `MCRequests` and `MCDatabases` | `NearestToTarget`, `HouseNeverLoses`, `PermissionsHold`, `QueriesMeanWhatTheySay`, `EnginesAgree`, `StoredAsWritten`, `AdmittedAsEntitled` | 764 thousand |
| `query_hash` | pairs of queries | `HashTellsQueriesApart` is violated | |

`services` has 2 slots in each part. Caches: 1 user, 2 sessions, 2 roles, one through the other,
entries that live one tick, up to 2 writes. Push: up to 5 installations in batches of 2, so that
the last batch is partial. Installations: 2 of them, 2 tokens, 3 rows, 3 requests. Writes: 3 ids,
2 fields, up to 2 or 3 requests of up to 3 calls. Hooks: 2 names, 2 URLs, 3 or 4 requests. Classes:
2 fields, an index on each, 3 or 4 requests of up to three parts. GraphQL: 5 classes, of which
three share a name, 2 changes.

*Why the bounds are enough.* The races here are between two parties, so two sockets, two
slots, two users or two writers suffice for any one of them; the third subscription,
request, fruit or message is there for what one party left behind and another finds. Two
request ids or queries make "the other one" possible. In `cloud` a round lasts two
seconds of a clock of three, so that a request can straddle a boundary, settle late, and
find the round before unsettled. In `schema`, a third request begins after one of the
first two ended and reads what its background additions still change. In `accounts` the
threshold, the history and all periods are one or two, so that every limit is reached and
passed. In the profit control rounds are numbered from the epoch, as in the code, hence 38
million: it decides that a fruit is always rarer than expected. The cases of the
algorithms combine each construct with each other construct the code treats in the same
function, over rows that have the value, another one, or none. What the bounds cannot show
is left to the proofs, where the numbers are arbitrary. Model values without an order are
symmetric, except where liveness is checked. Deadlock is not checked: every instance ends
when its requests, messages or rounds are used up.

*Fairness.* `lq_events` asks that the process does not stop while a chain can go on and that
lookups answer, if only with an error (`ServerProgress`): Node runs what is ready, and
`getAuthForSessionToken` and `getUserRoles` resolve or reject. Saves need not happen, and triggers, which are
code of the application, are not assumed to return. `services` asks three things: time
passes, as the timers of cache entries are the process's own (`TimePasses`); a request that has
begun goes on, and a value on its way to the cache gets there (`Serves`); batches in the queue
are served and answers stored (`Delivers`). Nobody is obliged to make a request, to write, or
to fail.

*Findings.* The five violated properties are statements of the code's own comments or
error messages: "Decide event type" (`LiveQuery/ParseLiveQueryServer.js:281`), "add the coins
to the user" (`cloud/main.js:857`), "MongoDB only supports one GeoPoint field in a class."
(`MongoSchemaCollection.js:228`), "This is the one case where we want to merge with the existing
object." (`RestWrite.js:1193`) and "Generate a hash from a query, with unique fields for columns,
values, order, skip, and limit." (`LiveQuery/QueryTools.js:45`). `PROJECT.json` tells each story in
a sentence or two.

## Proofs

`tlapm LiveQueryRegistry_proofs.tla`, and so on. Every proof is complete.

**LiveQueryRegistry_proofs.** `TypeCorrect`, `OpenSocketsServed` (`OpenSocketHasClient`),
`ReferencesAreRegistered` (`ReferencedIsRegistered`), `NothingEmptyStays`
(`NothingEmptyRegistered`) and `StepsServeOneClient` (`OneClientPerStep`), for any numbers
of sockets, ids, queries, classes and handlers, any triggers, with or without reconnects.
The properties are not inductive alone. `IInv` (theorem `Invariance`) adds *Identity*: a
client id on a socket, or captured by a handler, belongs to a client made for that
socket; *Fresh*: a client that waits for its trigger is known to one handler only and
refers to nothing; *Linked*: what the current client of an open socket refers to is
registered, and lists it; and *Filing*: subscriptions are filed under their own query, and
unregistered ones list nothing. Identity is what keeps the two ways of naming the client
apart after a reconnect: the stale client of a socket loses its claim on the lists, and
with it stops being "served". `DropEffect`, the lemma on removing a client's requests,
carries most of the work.

`RegistryImplementsTable` is the refinement: without triggers and with `MaxCopies = 1` every
step of the registry is a step of `LiveQueryTable` or a stutter, with or without reconnects.
The mapping needs more than `IInv`, and `PlainInv` says what: one handler is pending at a
time; a new client is not in the map before its handler goes on; a subscribe goes on with the
client it began with, under an id no list has; and a listed request is listed once, at the
subscription its client knows it by. Only then does dropping the requests a client knows
drop exactly what the table says it gets.

**SmartProfit_proofs.** `HouseNeverLosesAtAll` and `LoopFindsNearest`
(`NearestToTarget`), for all bets, gaps between rounds and statistics. The loop's invariant
(`LoopCorrect`): after the first fruit the best score is that of the best fruit and no
fruit seen is nearer, until the statistics are reset; and if any fruit seen is profitable
the best one is. `SomeProfit` is the arithmetic of the multipliers, `ScoreRange` and
`FloorIsFarthest` that of the clamp. `TypeCorrect` includes the range of the best score.

**SchemaRegistry_proofs.** `TypeCorrect`, `SchemaKept` (`StoredMatchesSchema`) and
`RefusalsHaveCause` (`RefusedForAConflict`), for any set of requests, deletions included, any
fields and types, and either cache. A field is *safe* with a request (`Safe`) if it did
not race with a deletion and, unless the cache is shared, the request is being served
and gives it; `NoRace`: nobody being served deletes such a field, so it stays in the schema
until the request ends (`FieldsStay`). The invariant `SInv` says, of the safe fields only, that
every copy of the schema, in a request, in an answer on its way or in its cache, agrees
with the database: a copy may be old, but an old copy is a smaller schema. With that, a field
that the copy has needs no further look (`RequestsKnow`), and a field added is
verified by the reload. Deletions add `Emptied`: values leave the objects before their
field leaves the schema. `RefusalsHaveCause` has one hypothesis, that every write gives a field:
an empty object whose class is deleted while it is saved is refused with nothing to name
as the conflict.

**CloudCode_proofs.** The books of the games are sums over finite sets (`SumFunctionOnSet`), a fold
the provers know nothing of. `SumUnfolds` derives its equation without induction: if no function
satisfied it on some finite set, there would be a smallest such set, as inclusion of finite sets
is well founded. From it follow `SumChanges` (one term comes, goes or changes), `SumIsMonotonic`
and `SumOfImage`. `TypeCorrect` gives every request on its way the record its handler has
(`Job`). `SettledRoundsAreOver` (`SettledAfterClose`): a draw under way is of a round that is
over (`DrawsAreLate`). `MarkersHold` (`MarkersAreTrue`): requests see only results that are
saved (`JobsSeeDraws`), a marked row was paid and drawn (`MarkedHold`), and the requests about to
record a purchase, added to those recorded, are no more than those granted (`EachGranted`).
`RetriesHeal` (`RetryHeals`): a follow alone at its pair finds the array it has written as it left
it (`AloneHold`). `TimelyBetsCount` (`TimelyBetCounts`): results and jackpot draws are of rounds
that are over (`RoundsAreOver`).

**CloudGold_proofs.** `GoldIsAccounted` (`GoldAccounted`): credit, gold between its debit and
its filing, and gold filed, together, are covered by what the user began with, was paid, bought,
and got back from stale copies. The invariant is the property itself with types; the work is
in the sums, which each step changes in at most two terms that balance. A restart drops debits
and so only lowers them. `WinnersArePaidForResults` (`PaidForResults`): the property is about
what was paid; the invariant (`Covered`) adds what is still to be paid. Per user, round and
fruit, what was paid, plus what lists of winners have left to pay, plus what a settlement that has
not read its winners yet could still pay, is at most the result's multiplier times the gold staked,
once for each result drawn. It needs that a raise in flight is of the row's own round and fruit
(`RaisesMatch`) and that the gold in the rows is no more than the history says was staked.

`SerialPromise` is the refinement of `Ledger`, for one request at a time, no failures and no
user cache (`SerialSpec`, the "serial" setting of `MCCloudCode` by itself, for any constants),
whatever the clock does meanwhile; it gives the run's `SerialKeepsPromise`. The mapping counts gold a request
holds as its user's, and so does the proof: with all other slots idle a balance is the credit and
what the one request holds (`OneHolds`, `Due`), and a step is seen from the books (`BetHappens`,
`SettlementHappens`, `WithdrawalHappens`, `PurchaseHappens`, `NothingHappens`). The invariant
(`Serial`) says that what a request has read is still so (`Ready`): the round it bets on has no
result, the credit covers the bet, the row it found or missed is there or missing, the copy of the
user is the user's credit, the purchase is not recorded. Besides that nobody is in debt, a player
has one row for a fruit and round (a reset would otherwise withdraw half a stake), and a purchase
is recorded as often as it was added, but for the one on its way to the record. These are just the
facts that two requests at a time destroy; `cloud_stale` shows one of them going, the copy that is
the user's credit.
`SerialIsShown` (`SerialShowsTheBooks`) is about the same requests. To `Serial` its invariant
(`Booked`) adds exact accounts, while no row is deleted: the rows of a round hold what was
staked on it, and what was paid, with what the one request has yet to pay, is the winnings of
the round's first result.

**LiveQueryEvents_proofs.** `ReadersArePushed` (`PushedToReaders`) and `SecretsAreKept`
(`SecretsToMasterOnly`) hold for every setting, any lookups and any rights. `LookupsShowMore` says
that a failed lookup lets nobody read who may not. The invariant (`PushInv`) says of a chain that has
decided that its client may read one of the two versions; nothing is said of the shared field,
because nothing can be. `AlikeArePushedAsDecided` (`SharedPushedAsDecided`) and
`ViewsTrackTheObject` (`ViewTracksObject`) are about runs in which nothing has told requests
apart, nor the ways of messages under way. Then (`AlikeInv`) a request has one chain per message, all
chains of a message write the same type or none, all chains of a request that are under way wait
for the same lookups, an older one has those a younger one has, so that they get through in
the order of their messages, and the view of a
client, followed by the changes its chains have yet to tell, ends in the object as it is (`Told`).

**Accounts_proofs.** All five invariants of the run, for any users, names, tokens, requests
at a time and configuration. `TypeCorrect` has what a request knows at each stage (`Sound`).
Upon it:

| Theorem | Property | Invariant |
|---|---|---|
| `VerificationIsSafe` | `VerifiedIsMailed` | `TokenInv`: a token not stored yet is one request's own, held by no user and in no mail; whoever holds a token about to be mailed has the address it goes to; whoever holds one that was mailed has the address it went to |
| `IdentitiesAreSafe` | `OneAccountPerIdentity` | `IdentityInv`: one by one (`Single`), a name or provider's id found free is free until the write; `Distinct` rows for what the indexes keep |
| `LockoutIsSafe` | `ThresholdLocks` | `LockInv`: whoever is over the threshold without a lock has a request that will set it, and its user still has the name it searches by |
| `SessionsAreSafe` | `SessionsInOrder` | `SessionInv`: sessions agree with passwords but for the request that has yet to clear or insert; of two for one installation, one has its deletion under way |
| `PasswordsAreNew` | `PasswordNotRepeated` | `PastInv`: the history kept is the end of what was worn, as far back as the check looks, and a password that passed the check is fresh until it is written |

**Services_proofs.** `CachesAreRight` (`CachesHold`), `WebhooksMatch` (`HooksMatch`), `DevicesAreOne`
(`OneRowPerDevice`), `ObjectsWholeAndOnce` (`WholeAndOnce`), `ObjectsPublishedWereStored`
(`PublishedWasStored`) and `PushesReachAndSucceed` (`SucceededAndReached`), each for every behaviour of its component, any names, ids, shapes of requests and numbers of them at
once.

- Roles, however loads and writes overlap (`Loaded`): the names a load has found are reached by
  relations there were at one of its queries, and they have every role that relations kept
  throughout lead to from the user and from the roles it has asked about. When it has asked about
  all it found, they are closed under these relations, so they contain the least closed set, which
  is what `Reach` is. Requests one by one (`Timely`): what a request is about to write is not in
  the cache, and what it has read is still so, except between the two steps of a purge.
- Hooks (`InTurn`): while nothing has overlapped there is one request, or the start. The start
  has read the rows as they are; a request has registered what it is about to write or remove; for
  every other name registry and rows agree, but for those a failed write has left apart.
- Installations one at a time (`InstsApart`, `TokensApart`): the row found for a request is the
  only one with its installationId, at once; the only one with its device token only after the
  deletion nobody waited for. So two rows have one token just while such a deletion is on its way
  to strike one of them, and there is never more than one on its way.
- Writes (`Kept`): values are told apart by the call that wrote them. Rows, and the snapshots
  transactions read, have only *clean* values, of no transaction that is under way or was given
  up; what a transaction has written itself is clean or its own. `TagsInOrder` keeps calls of
  different requests apart and says that a transaction with a call undone can no longer commit:
  one has failed, or it was thrown out of the batch. Committing turns a transaction's own values
  clean in the same step in which it ends.
- Events: what is published was stored (`EventsStored`); of calls one by one, what a call has read
  is still there when it writes, and what it wrote is what it will tell (`EventsExact`).
- Who a push reaches (`PushOrder`): the place of an installation among those the push is for is on
  the page of just one batch, and the batches cut are enough for the places there were when they
  were counted. Undisturbed, it has been sent to once its batch was served and not before;
  with batches in order and nobody coming, places only move forward, so whoever was sent to is
  before every page still queued.
- When a push with one body has succeeded (`PushPhase`, `PushBooks`): a batch is queued, or open, or
  has one result on its way, or is settled. Until the status is running, the number of batches about
  to be stored, and from then on the count in the row, is at least what is still awaited, plus one
  if something was lost for good (a page with nobody, a call without answer, a result stored
  before the number of batches). So it falls to zero, and completes the push, only when nothing is
  awaited and nothing was lost. What was sent is always counted or still to be counted, batch by
  batch.

**Assumptions.** The constants' assumptions are named in the modules (`RegistryConstants`,
`StoreConstants`, `AccountConstants` and the like). They say that tables are functions between the
sets given, that special values are distinct (`NoRows`: no row is `None` or `Deleted`), that users,
fruits, rows, transactions and slots are finite in number, as in any process, and that a
configuration of `Accounts` starts from a database at rest (`SettingsConstants`, `LegalStart`:
identities unique, whoever is over the threshold locked, sessions of today's passwords). TLC
evaluates them on every run. The theorems of `Services_proofs` have the `Constants`
of the component as their hypothesis (sessions and roles have caches of their own; special values are no ids; loads are built of legal requests;
only a request for one object has a request id; installations are finite in number, as rows of a table are, and a batch holds at least one), which TLC evaluates as `ServiceConstants` of
`MCServices`. Those of `LiveQueryEvents_proofs` name two hypotheses instead: `MaxMessages` is
a number, and, for the last two, `None` is no type of event.

**Checked only.** Liveness (`ViewsConverge`, `CachesCatchUp`, `PushesEnd`) and anything with
ENABLED is beyond the proof system's temporal backend. What a recursive function computes for
every input cannot be proved with the installed provers, as their induction theorems take an
operator as a parameter; well-founded induction by a smallest counterexample works for sums, but
the translations (`PermissionsHold`, `QueriesMeanWhatTheySay`, `EnginesAgree`, `StoredAsWritten`,
`AdmittedAsEntitled`) recurse over queries and stay with TLC. So does `SchemasAgree`: what a schema that is loaded
yields, and what two databases make of a list of changes, is built recursively over such lists.

## Limits of the models, and what the code does there

What the models leave out of a component they cover, and what was met at the edges. None of
the items below is a finding: no comment or test says otherwise, or no run shows it.

LiveQuery
- The keys and tokens of a connect, the fields selected and the wire format are left out.
- A subscribe suspended when its socket closes is filed after the close, and its
  subscription is never removed (`ParseLiveQueryServer.js:689`).
- A second connect over a socket leaves the first client in the map for ever (`:637`).
- Events: the answer of the class's permissions is not modelled, as it is not used: a client whom they
  refuse is pushed what its query matches. Lookups of two requests with the same token are answered
  apart, although they share a promise. An entry of `authCache` outlives the lookups that wait for
  it; in the code one may end (after five seconds) while chains wait, so that a later message looks
  up anew and can be told first. A message is taken to come when no chain can go on, as an event of
  its own. The database's queries for roles are one lookup each. Subscriptions
  stay while events are under way; the registry's own model has them come and go.

Cloud functions
- A user's saves clear the cache before the write (`RestWrite.js:582`) and the model does both at once:
  a copy read in between and put back before the write is, in the model, put back after it.
  Other writes to users than those of these functions are left out.
- A query returns a hundred rows by default, so larger rounds are settled on part of their
  bets; instances have a few rows. Nobody is obliged to call `game_info`, and only the round
  before the current one is ever settled, so there is no property saying that rounds get
  settled.
- The jackpot accepts a bet while `t % D <= D - Closing`, one second longer than
  "before the last `Closing` seconds" (`cloud/main.js:112`).
- Having come up within two hours lowers the weighted margin of the x45 by 30%. A margin of
  1 (no bets on it) becomes 0.7, which is the target: the factor meant to make it rarer
  makes it come up again (`cloud/main.js:440`).

Schema
- `SchemaRegistry` leaves out class-level permissions, indexes, default columns and the checks
  of names; `ClassCatalogs` has the first two, for one request at a time, and neither has the
  system classes. Deleting a field or class races with writes of it: `deleteFields` takes
  values out of the objects before the field leaves the schema, so that a write in between
  leaves a value behind (`raced` excepts such a field), and `deleteSchema` counts objects before it drops them. With a shared
  cache a deletion is never safe, as a copy read before it may enter the cache after it, and
  `deleteSchema` does not clear the cache at all (`DatabaseController.js:1347`).
- MongoDB drops an index before a later name of the same request is refused; PostgreSQL loses
  an index with its column and can then never delete it by name; an index on a relation is
  refused by PostgreSQL only, a second GeoPoint by MongoDB only. A deleted field stays in the
  permissions that name it.

- `ClassCatalogs` leaves out the index MongoDB makes for a GeoPoint field
  (`createIndexesIfNeeded`), and the system classes.

Services
- Caches: entries that a deletion of a user, an expired or replaced session or a provider's sign-in
  leaves behind are honoured until their time to live ends. `ExactBetweenRequests` excepts these, and
  values put by a load that overlapped a write.
- Push: expiry, time zones and formats of dates are left out. Installations: `appIdentifier` and
  the check of `deviceType` on updates. Writes: one class without users, files or relations, on
  MongoDB; the calls of a batch have no headers, so request ids do not protect them; a deletion
  whose afterDelete fails is reported as failed although it was made.
- Webhooks: deleting a hook removes the cloud function of its name until the next start; other
  servers learn of hooks at their start only.
- GraphQL: the types of fields, custom definitions and subscriptions are left out.
  The flag `isUsersClassDisabled` is shared by overlapping loads and used two awaits after it is set:
  one load can add or leave out log-in and sign-up for another. It is not reset when a
  configuration without lists of classes follows; an alias that takes the name of `logInWith`, `resetPassword` or `sendVerificationEmail` makes every
  load fail; `null` for an operation switches it off.

Permissions and queries
- Protected fields: `userField:` rules alone hide nothing; the row of the caller keeps fields that
  were fetched only to decide. A pointer query missing from an update that adds fields makes a
  malformed `$and`.
- `$in` beside `$inQuery` or `$select` becomes their union; `$or` beside a relation key is not
  reduced; `relatedIds` applies limit and skip before other constraints when sorted by creation;
  `excludeKeys` looks at the top level only; the count runs without the caller's rights then.
- Engines: `$ne: null` makes PostgreSQL skip the other constraints on its field
  (`PostgresStorageAdapter.js:358`): the model skips them too, and the comparison leaves these
  queries out. An empty `$in` is IS NULL in PostgreSQL; `$containedBy` beside other operators is
  negated in MongoDB; live queries do not know `$eq`, `$and` and `$nor`, let comparisons pass for
  missing fields and throw on null operands. Regular expressions, text search and
  geographic operators are left out.
- Aggregation: PostgreSQL ignores the order of stages, keeps the last match and limit, joins
  `$or` per field, counts estimated rows without a where; MongoDB does not rename `$objectId` in
  groups or sorted keys. Stages beyond match, group, sort, skip, limit and project are left out.

Stored forms
- MongoDB: a pointer below an object goes to a column that is dropped on reading; a null
  polygon makes every read of the class throw; Remove below a missing object succeeds and then
  throws. PostgreSQL: array operators below an object are stored literally; Bytes cannot be
  updated; a STRICT function makes null of missing arrays; unlinking one provider of a user
  nulls all of them; AddUnique drops duplicates that were there, and the order is lost.
- AddUnique on create keeps duplicates in both.

Requests
- A validator refuses a caller of a find twice, before the query and again before afterFind.
- A field with a `type` or `options` in a validator is required even if not `required`, and the type
  `array` never passes; the default limit of a find is not cut to `maxLimit`; beforeFind cannot set
  limit or skip back to 0; `skipWithMasterKey` skips triggers, not cloud functions.
- The registry of triggers, background jobs, file and connection triggers are left out.

Accounts
- The mail for a user who was read without an address finds its receiver by the name when it
  is sent. If users swap names meanwhile, the token of one goes to the address of the other, and
  an address can count as verified that nothing was mailed to (`UserController.js:136`).

GraphQL
- `have` or `objectId` beside `exists` or `id` is lost, as is `exists` beside constraints on the keys
  of an Object; `last` alone finds no count when there are no rows, and a query that selects
  one fails (`objectsQueries.js:242`); a subquery is transformed with the class of the outer
  one; `last` with `first` beyond the rows skips too many.
- A created object its caller may not read is answered with an error although it is there;
  nested objects stay when the outer write fails; a field added and removed in one change of a
  class is only removed; what a trigger unsets still appears in the payload.

## Not modelled

- *Other cloud functions* (gifts, PK battles, agencies, passwords, rankings, bills, reports,
  `beforeLogin`): one query and at most one save each, with nothing between them to go wrong
  but the call itself.
- *Cloud code helpers* (`cloud-code/*`): names and argument checks over the registry of triggers,
  which `Webhooks` has; and HTTP requests of the application's own.
- *LiveQuery transport*, *files*, *third-party sign-in*: sockets, streams and HTTPS calls. Their
  results enter other models as nondeterministic choices (a socket closes, a provider's id is
  accepted).
- *GraphQL types and server*: declarations of types, parsing of single values, mounting.
- *Configuration and start*, *the server script*, *other routers*: validation of options and wiring
  of the components above. `Options/Definitions.js` is generated.
- *Logging and analytics*, *web pages and the try-out client*: output only; `public_html` holds vendored
  scripts (`moment.js`, `timeZone.js` among them).

Within modelled components the parts left out are those named above; geographic and text
queries in particular are decided inside the databases.
