---------------------------- MODULE FollowGraph -----------------------------
(***************************************************************************)
(* follow_user and unfollow_user of cloud/main.js: the author's following  *)
(* and the receiver's followers are two arrays of two users, changed by    *)
(* two saves one after the other.  addUnique and remove are applied by the *)
(* database, so the saves of different requests do not overwrite each      *)
(* other.                                                                  *)
(***************************************************************************)
EXTENDS CloudStore

CONSTANT Pairs  \* the author-receiver pairs requests name

ASSUME FollowConstants == Pairs \subseteq Users \X Users

VARIABLES
  following,  \* <<a, b>>: b is in a's following
  followers,  \* <<a, b>>: a is in b's followers
  alone       \* history: slots whose request had no other about its pair beside it

followVars == <<following, followers, alone>>

FollowInit == following = {} /\ followers = {} /\ alone = {}

About(p) == {h \in Slots : pc[h].at \in {"author", "receiver"} /\ pc[h].pair = p}

BeginFollow(h, o, p) ==
  /\ Begin(h, [at |-> "author", op |-> o, pair |-> p])
  /\ alone' = (alone \ (About(p) \cup {h})) \cup (IF About(p) = {} THEN {h} ELSE {})
  /\ UNCHANGED <<following, followers>>

\* follow_user and unfollow_user up to the first save.
FollowUser(h, a, b) == a # b /\ BeginFollow(h, "follow", <<a, b>>)
UnfollowUser(h, a, b) == BeginFollow(h, "unfollow", <<a, b>>)

\* What a save with addUnique or remove makes of the array.
Saved(list, p) == IF p.op = "follow" THEN list \cup {p.pair} ELSE list \ {p.pair}

SaveAuthor(h) ==
  /\ pc[h].at = "author"
  /\ following' = Saved(following, pc[h])
  /\ Continue(h, [pc[h] EXCEPT !.at = "receiver"])
  /\ UNCHANGED <<followers, alone>>

\* Mutant: the receiver's array is changed from the author's end.
SaveReceiver_Swapped(h) ==
  /\ pc[h].at = "receiver"
  /\ followers' = Saved(followers, [pc[h] EXCEPT !.pair = <<pc[h].pair[2], pc[h].pair[1]>>])
  /\ End(h)
  /\ UNCHANGED <<following, alone>>

SaveReceiver(h) ==
  /\ pc[h].at = "receiver"
  /\ followers' = Saved(followers, pc[h])
  /\ End(h)
  /\ UNCHANGED <<following, alone>>

\* Whose row the next save of a request writes.
SavedNext(h) ==
  {u \in Users : (pc[h].at = "author" /\ u = pc[h].pair[1]) \/ (pc[h].at = "receiver" /\ u = pc[h].pair[2])}

FollowStep(h) ==
  \/ \E p \in Pairs : FollowUser(h, p[1], p[2]) \/ UnfollowUser(h, p[1], p[2])
  \/ SaveAuthor(h) \/ SaveReceiver(h)

-----------------------------------------------------------------------------
\* Nobody follows itself, and the arrays name users.
FollowTypeOK ==
  /\ following \subseteq Users \X Users /\ followers \subseteq Users \X Users
  /\ \A u \in Users : <<u, u>> \notin following \cup followers

\* Whatever failures and races left behind, a request that gets through with no
\* other about its pair makes the two arrays agree on it.
RetryHeals ==
  [][\A h \in Slots :
       SaveReceiver(h) /\ h \in alone =>
         (pc[h].pair \in following' <=> pc[h].pair \in followers')]_shared
=============================================================================
