----------------------------- MODULE MCAccounts -----------------------------
(***************************************************************************)
(* Accounts for TLC.  Each setting is a database, a configuration and a    *)
(* kind of load; a behaviour has one of them.                              *)
(***************************************************************************)
EXTENDS Accounts, TLC

CONSTANTS u1, u2, u3, p1, p2, p3, a1, i1

\* Two names that differ in case, a third one, and addresses in the same way.
MCNames == {"ann", "Ann"}
MCEmails == {"ann@x", "bob@x"}
MCLower == [x \in MCNames \cup MCEmails |-> IF x = "Ann" THEN "ann" ELSE x]

Nobody == [u \in Users |-> None]
Ann == [NewUser EXCEPT !.name = "ann", !.email = "ann@x", !.pw = p1]
OnlyAnn == [u \in Users |-> IF u = u1 THEN Ann ELSE None]
AnnCounted == [OnlyAnn EXCEPT ![u1].failed = 0]
AnnsSession == {[token |-> 1, user |-> u1, inst |-> i1, pw |-> p1]}

Load(offers, known, open, limit) ==
  [offers |-> offers, users |-> known, sessions |-> open, limit |-> limit, from |-> {None},
   alone |-> FALSE, fails |-> FALSE, prevent |-> FALSE, reuse |-> FALSE]
Alone(s) == [s EXCEPT !.alone = TRUE]

SigningUp == Load({"signUp"}, Nobody, {}, 3)
Providers == Load({"signInWith", "link"}, OnlyAnn, AnnsSession, 3)
Guessing == Load({"logIn"}, OnlyAnn, {}, 4)
Verifying == Load({"setEmail", "verify", "askVerify"}, OnlyAnn, AnnsSession, 4)
Resetting == Load({"setPassword", "askReset", "reset", "logIn"}, OnlyAnn, AnnsSession, 3)
Leaving == [Load({"logIn", "logOut", "upgrade", "setName"}, OnlyAnn, AnnsSession, 3) EXCEPT !.from = {i1, None}]
Symm == Permutations(Slots) \cup Permutations({p2, p3})

MCSettings ==
  {[SigningUp EXCEPT !.limit = 2], Alone(SigningUp), [Alone(SigningUp) EXCEPT !.prevent = TRUE],
   Providers, Alone(Providers),
   Guessing, [Guessing EXCEPT !.limit = 3, !.users = AnnCounted, !.fails = TRUE],
   [Alone(Guessing) EXCEPT !.prevent = TRUE],
   Verifying, [Alone(Verifying) EXCEPT !.reuse = TRUE],
   [Resetting EXCEPT !.limit = 2], [Alone(Resetting) EXCEPT !.limit = 4],
   [Alone(Resetting) EXCEPT !.reuse = TRUE],
   Leaving, Alone(Leaving)}
=============================================================================
