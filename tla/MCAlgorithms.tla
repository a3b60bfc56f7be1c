---------------------------- MODULE MCAlgorithms ----------------------------
(***************************************************************************)
(* The algorithms of the server for TLC.  A behaviour is either one of the *)
(* profit control, a loop, or a case that one of the functions is asked    *)
(* for, which takes no step.                                               *)
(***************************************************************************)
EXTENDS SmartProfit, FiniteSets, TLC

VARIABLE case   \* None in a behaviour of the profit control

\* Every fruit backed or not, evenly; and one or two fruits outweighing bets on
\* all the others, or on none.
Even == [Fruits -> {0, 1}]
Uneven == {[f \in Fruits |-> IF f \in s THEN m ELSE n] :
             s \in {t \in SUBSET Fruits : Cardinality(t) \in {1, 2}}, m \in {2, 3, 5, 9}, n \in {0, 1}}
\* Every fruit backed to about its share: no margin is above 0.1.
Tight == {[g |-> 23, h |-> 190, a |-> 190, b |-> 190, c |-> 190, d |-> 105, e |-> 70, f |-> 42],
          [g |-> 22, h |-> 190, a |-> 195, b |-> 200, c |-> 201, d |-> 100, e |-> 66, f |-> 40]}
AllBets == Even \cup Uneven \cup Tight

Requests == INSTANCE MCRequests
Databases == INSTANCE MCDatabases

MCInit ==
  /\ Init
  /\ \/ case = None
     \/ case \in Requests!AccessCases \/ case \in Requests!ShowCases \/ case \in Requests!AclCases
     \/ case \in Requests!FindCases \/ case \in Requests!AnswerCases \/ case \in Requests!EachCases
     \/ case \in Requests!WhereCases \/ case \in Requests!SliceCases \/ case \in Requests!WalkCases \/ case \in Requests!SelectionCases
     \/ case \in Requests!Mutations \/ case \in Requests!ClassChanges \/ case \in Requests!SignIns
     \/ case \in Databases!EngineCases \/ case \in Databases!HashCases
     \/ case \in Databases!AggregateCases
     \/ case \in Requests!SentCases \/ case \in Requests!MixedCases \/ case \in Requests!RuleCases \/ case \in Requests!FindOptionCases
     \/ case \in Databases!StorageCases \/ case \in Databases!UpsertCases \/ case \in Databases!NewCases
MCNext == case = None /\ Next /\ UNCHANGED case
MCSpec == MCInit /\ [][MCNext]_<<vars, case>>

Of(kind) == case # None /\ case.kind = kind

-----------------------------------------------------------------------------
\* An operation reaches exactly the rows its class-level permissions, its pointer
\* permissions and the ACLs allow one by one; a find shows the fields not hidden from the
\* caller by every rule that applies; and an ACL is given back as it was stored.
PermissionsHold ==
  /\ case # None /\ case.kind \in {"find", "count", "update", "extend", "delete", "create", "createExtending"} =>
       Requests!AccessAsRuled(case)
  /\ Of("show") => Requests!ShownAsRuled(case)
  /\ Of("acl") => Requests!KeepsAcl(case)

\* A query whose subqueries, relations and included objects are replaced by the results of
\* other queries finds the rows that meet it, answers what is asked of them, and `each`
\* passes every object that stays there once.  A where of the GraphQL API finds the rows it
\* describes, a connection answers the slice its arguments cut out and page by page every row
\* once, and each field selected is there.
QueriesMeanWhatTheySay ==
  /\ Of("where") => Requests!FindsWhatIsMeant(case)
  /\ Of("answer") => Requests!AnswersWhatIsAsked(case)
  /\ Of("each") => Requests!EachOnce(case)
  /\ Of("graphQLWhere") => Requests!WhereIsKept(case)
  /\ Of("graphQLSlice") => Requests!SliceIsAnswered(case)
  /\ Of("graphQLWalk") => Requests!EachSeenOnce(case)
  /\ Of("graphQLSelection") => Requests!SelectionIsThere(case)

\* MongoDB, PostgreSQL and the live query server find the same rows, and both databases
\* make the same of a pipeline, as far as each can express it.
EnginesAgree ==
  /\ Of("engines") => Databases!AllAgree(case)
  /\ Of("aggregate") => Databases!Aggregates(case)
  /\ Of("distinct") => Databases!Distincts(case)

\* A request has the rights its credentials give, whichever way they are sent; what validators
\* ask decides which handlers run and what they are given; and a find is the one asked for but
\* for what triggers say of it.
AdmittedAsEntitled ==
  /\ Of("sent") => Requests!SameRights(case)
  /\ Of("mixed") => Requests!NoMoreThanGiven(case)
  /\ Of("rules") => Requests!RunsAsRuled(case)
  /\ Of("options") => Requests!RunsAsAsked(case)

\* "Generate a hash from a query, with unique fields for columns, values, order, skip, and
\* limit": queries with one hash match the same objects.
HashTellsQueriesApart == Of("hash") => Databases!ToldApart(case)

\* What an object and an update say is what both engines give back, in another order of
\* array elements at most, as far as each keeps what it is given.  A mutation of the GraphQL
\* API leaves what its input describes, nested objects included, and answers it as it is stored;
\* classes become what is asked; who signs in is the viewer.
StoredAsWritten ==
  /\ Of("stored") => Databases!BothHold(case)
  /\ Of("upserted") => Databases!Upserted(case)
  /\ Of("new") => Databases!NewIsWritten(case)
  /\ Of("graphQLMutation") => Requests!Mutated(case)
  /\ Of("graphQLClass") => Requests!ClassesAgree(case)
  /\ Of("graphQLSignIn") => Requests!ViewerSignedIn(case)
=============================================================================
