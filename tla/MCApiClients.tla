---------------------------- MODULE MCApiClients ----------------------------
(* Instances of ApiClients: small seed tables and one scenario per fault.  *)
EXTENDS ApiClients

MCVirtualUsers == << "vu1", "vu2" >>
SeedUsers == {"s1", "s2", "s3"}
MCPeople == {"admin", "alice", "bob", "negative"} \cup ToSet(MCVirtualUsers) \cup SeedUsers
DevPeople == {"admin", "alice", "bob", "negative"} \cup ToSet(MCVirtualUsers) \cup ToSet(DEV_USERS)

\* Roots only and nobody suspended: every phase can be repeated.
PlainTables ==
  [users |-> << "s1", "s2", "s3" >>, categories |-> << <<"electronics", "">> >>,
   products |-> << <<"s1", ProductKey("s1", 1), "sold">>, <<"s1", ProductKey("s1", 2), "available">> >>,
   ratings |-> << <<"s1", "s2">> >>, conversations |-> << <<"s1", "s2">> >>,
   reports |-> << <<"s1", "s2", "report-01", "resolved">> >>, targets |-> << >>,
   blocks |-> << <<"s3", "s1">> >>, favorites |-> << <<"s2", ProductKey("s1", 1)>> >>,
   messages |-> << "m1", "m2" >>]

\* With a suspended account and a child category.
ModeratedTables ==
  [PlainTables EXCEPT !.categories = << <<"electronics", "">>, <<"phones", "electronics">> >>,
                      !.targets = << <<"s3", "banned">> >>]

MCTables == [plain |-> PlainTables, moderated |-> ModeratedTables,
             blocked |-> [ModeratedTables EXCEPT !.blocks = << <<"s1", "s2">> >>,
                                          !.favorites = << <<"s3", ProductKey("s1", 1)>> >>]]
DevOnly == [dev |-> DevTables]

Quiet(clients, tables) ==
  [clients |-> clients, tables |-> tables, timeouts |-> 0, throttles |-> 0, crashes |-> 0, reruns |-> 0,
   endless |-> FALSE]

MCScenarios ==
  { Quiet({"main", "virtual"}, "plain"),
    Quiet({"main", "seeder"}, "moderated"),
    [Quiet({"main"}, "plain") EXCEPT !.timeouts = 1, !.throttles = 1],
    [Quiet({"main"}, "plain") EXCEPT !.throttles = 2],
    [Quiet({"virtual"}, "plain") EXCEPT !.timeouts = 1],
    [Quiet({"virtual"}, "plain") EXCEPT !.throttles = 1, !.endless = TRUE],
    [Quiet({"seeder"}, "plain") EXCEPT !.timeouts = 1, !.crashes = 1, !.reruns = 1],
    [Quiet({"seeder"}, "moderated") EXCEPT !.timeouts = 1, !.crashes = 1, !.reruns = 1],
    [Quiet({"seeder"}, "blocked") EXCEPT !.reruns = 1],
    [Quiet({"seeder"}, "moderated") EXCEPT !.throttles = 1, !.endless = TRUE] }

DevScenarios == { [Quiet({"seeder"}, "dev") EXCEPT !.reruns = 1] }
=============================================================================
