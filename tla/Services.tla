------------------------------ MODULE Services ------------------------------
(***************************************************************************)
(* Five services of the server: requests served through the session and    *)
(* role caches, a push, registrations of installations, writes of objects, *)
(* webhooks.  Each has constants of its own; variables that mean the same  *)
(* have one name.  A behaviour is of one service.                          *)
(***************************************************************************)
EXTENDS Naturals

CONSTANTS
  Tokens, Users, Roles, Owner, TTL, AuthLoads,  \* AuthCaches
  PushIds, Locales, BatchSize, Pushes,          \* PushDelivery
  DeviceIds, Insts, DeviceTokens, DeviceLoads,  \* Installations
  ObjectIds, Fields, RequestIds, ObjectLoads,   \* ObjectWrites
  HookNames, Urls, Code, HookLoads,             \* Webhooks
  Slots, None                                   \* of several

VARIABLES
  service,
  load, rows, req,                                         \* of several
  version, grants, entries, writes,                        \* AuthCaches
  push, stage, status, batches, updates, invalid, sent, stayed, happened,  \* PushDelivery
  strays, served,                                          \* Installations
  known, pending, published, calls, stored, undone, executed,  \* ObjectWrites
  handlers, validators, starting, made, split, mixed       \* Webhooks

Auth == INSTANCE AuthCaches WITH Loads <- AuthLoads
Delivery == INSTANCE PushDelivery WITH Ids <- PushIds
Devices == INSTANCE Installations WITH Ids <- DeviceIds, Tokens <- DeviceTokens, Loads <- DeviceLoads
Objects == INSTANCE ObjectWrites WITH Ids <- ObjectIds, Loads <- ObjectLoads
Hooks == INSTANCE Webhooks WITH Names <- HookNames, Loads <- HookLoads

-----------------------------------------------------------------------------
\* A load of roles asks level by level while relations change: it yields every role the user
\* had all the while, and none but by relations there were meanwhile.  Between requests served
\* one by one the caches hold what the database does, where none of them is of those that leave
\* the cache alone: deletions of roles and users, ends of sessions but log-outs, and writes of
\* users that go past RestWrite.
CachesHold == service = "auth" => Auth!RolesWereHeld /\ Auth!ExactBetweenRequests

\* While nobody comes or leaves, a push is sent once to everybody it is for; while nobody
\* comes, not twice, if batches are served in their order.  With one body for all, it has
\* succeeded only when all batches were answered and their results are in the row.
SucceededAndReached == service = "push" => Delivery!ReachedOnce /\ Delivery!SucceededWhenSent

\* Requests one at a time leave one row for an installation and, if each names its
\* installation, one for a device token.
OneRowPerDevice == service = "installations" => Devices!OneRowPerDevice

\* "This is the one case where we want to merge with the existing object": the match of the
\* installationId is dropped and the row that has the token is there to be written.
MergeKeepsARow == service = "installations" => Devices!MergeKeepsARow

\* Nothing of a transaction in which a call was refused, or had no route, is ever in the
\* database; and a request that is sent again is not served twice while its id is kept.
WholeAndOnce == service = "objects" => Objects!WholeAndOnce

\* Without transactions live queries are told of writes that were made; of requests served one
\* by one they are told the object as it was stored.
PublishedWasStored == service = "objects" => Objects!PublishedWasStored

\* The webhook called for a name is the one stored for it, unless requests overlapped each
\* other or the start, or a write failed; cloud code is never called without its validator.
HooksMatch == service = "hooks" => Hooks!HooksMatch
=============================================================================
