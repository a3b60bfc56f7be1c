-------------------------- MODULE MCLiveQueryEvents --------------------------
(***************************************************************************)
(* LiveQueryEvents for TLC, in two settings.  "mixed": an owner, another   *)
(* user and an administrator with the master key, queries of their own,    *)
(* object versions open and restricted.  "shared": two requests have one   *)
(* query and may read every version, by their user or by a role, sessions  *)
(* are found, no trigger is registered, and the server makes progress.     *)
(***************************************************************************)
EXTENDS LiveQueryEvents

CONSTANT Settings  \* those to check
VARIABLE setting
mcvars == <<vars, setting>>

\* r1 to r3 are the requests of the mixed setting, s1 and s2 of the shared one.
MCClientOf == [r \in Requests |->
  CASE r \in {"r1", "s1"} -> "owner" [] r \in {"r2", "s2"} -> "other" [] OTHER -> "admin"]
MCQueryOf == [r \in Requests |->
  CASE r \in {"r1", "r2"} -> "small" [] r = "r3" -> "large" [] OTHER -> "common"]

\* In the mixed setting the owner subscribes with a session on a client that has one too, and
\* the other with none; in the shared one with a session, and with its client's.
MCSessions == [r \in Requests |->
  CASE r = "r1" -> {1, 3} [] r = "s1" -> {1} [] r = "s2" -> {3} [] OTHER -> {}]

\* pS, pL: public; oS: small, for a role of the owner; n: matches nothing.
MixedVersions == {"pS", "pL", "oS", "n"}
\* Objects their readers share: s (for users) and t (for a role of the owner, and a user) in
\* the result of the query, n not.
SharedVersions == {"s", "t", "n"}

MCMatch == [v \in Versions |->
  CASE v \in {"pS", "oS"} -> {"small"} [] v = "pL" -> {"large"}
    [] v \in {"s", "t"} -> {"common"} [] OTHER -> {}]
MCRoles == {"oS", "t"}
MCGrants == [v \in Versions |-> [r \in Requests |->
  CASE v = "s" -> {1, 3} [] v = "t" -> {2, 3} [] v = "oS" /\ r = "r1" -> {2, 4} [] OTHER -> {}]]

Shared == INSTANCE LiveQueryEvents WITH
  Versions <- SharedVersions, HasTrigger <- FALSE, LookupsFail <- FALSE

MCInit == Init /\ setting \in Settings
MCNext ==
  /\ UNCHANGED setting
  /\ \/ setting = "mixed" /\ Next /\ (version \in MixedVersions \cup {None} /\ sent < 3)'
     \/ setting = "shared" /\ Shared!Next
MCProgress == setting = "shared" /\ Shared!ServerProgress /\ UNCHANGED setting
MCSpec == MCInit /\ [][MCNext]_mcvars /\ WF_mcvars(MCProgress)

\* The views get there: once the saves end, every chain settles, and every client's view is
\* and stays true, unless messages under way at once took different ways.
ViewsConverge == <>[](setting = "shared" => chains = {} /\ (apart \/ ViewIsTrue))
=============================================================================
