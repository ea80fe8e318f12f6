------------------------------ MODULE MCCorpus ------------------------------
(***************************************************************************)
(* A corpus of four records.  The first two fall at the same time, in one  *)
(* group of the current parser and in two of the earlier one, and are      *)
(* evidence of the same edge.  The first parser knew the service of only   *)
(* one of them, and took another service for that of the third record; the *)
(* first extractor saw an edge that there is not, and missed one.  Ratings *)
(* and labels are explored on smaller corpora than opening and syncing.    *)
(***************************************************************************)
EXTENDS CorpusLearning

Card(service, role, print) == [service |-> service, role |-> role, print |-> print]

MCRecords == 1 .. 4
MCTime == <<5, 5, 3, 7>>
MCParsed == <<Card("api", "error", "timeout"), Card("api", "error", "timeout"),
              Card("api", "warning", "slow"), Card("db", "info", "start")>>
MCOldParsed == <<Card("api", "error", "timeout 1"), Card("api", "error", "timeout 2"),
                 Card("api", "info", "slow"), Card("db", "info", "start")>>
MCFirstParsed == <<Card("unknown", "error", "timeout 1"), Card("api", "error", "timeout 2"),
                   Card("web", "info", "slow"), Card("db", "info", "start")>>
MCPeer == <<"db", "db", "api", "no peer">>
MCFirstPeer == <<"db", "no peer", "api", "api">>
MCFound == {MCParsed[4]}
Workload(uses, stored, cases, versions) ==
  [uses |-> uses, stored |-> stored, cases |-> cases, versions |-> versions]
MCWorkloads ==
  {Workload("sync", <<>>, {}, 0),
   Workload("feedback", <<1, 2>>, {}, 3),
   Workload("feedback", <<3, 1, 4>>, {}, 2),
   Workload("route", <<1>>, {"c1"}, 3),
   Workload("route", <<1>>, {"c1", "c2"}, 2)}
==============================================================================
