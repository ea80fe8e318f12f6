----------------------------- MODULE CorpusIndex -----------------------------
(***************************************************************************)
(* One source's corpus: the stored records and the tables derived from     *)
(* them, which are the groups of alike records, a summary of the severe    *)
(* groups of each service, the graph of services and the search terms of   *)
(* each group.  A page of records is stored and indexed in one             *)
(* transaction.  open() brings the tables of an earlier program up to      *)
(* date: it clears what has an old version and fills what is missing, page *)
(* by page, one transaction a page.  The process may end between any two   *)
(* transactions.                                                           *)
(*                                                                         *)
(* Whoever opens a corpus holds the catalog lock (ConnectedCatalog), so    *)
(* that there is one opener at a time.                                     *)
(***************************************************************************)
EXTENDS PageSequences

CONSTANTS
  Records,     \* native ids, as numbers in the order of their bytes
  Time,        \* the event timestamp of a record
  Parsed,      \* what parse_event makes of it: its service, role and fingerprint
  OldParsed,   \* what the parsers of versions 2 to 5 made of it
  FirstParsed, \* what the first parser made of it
  Peer,        \* the service its explicit peer field names
  FirstPeer,   \* the service that the first extractor took for its peer
  NoPeer,      \* of a record without one
  CardPage,    \* cards of a page of groups
  RecordPage,  \* records of a page of read_page
  CommitPage   \* records of a provider page

Cards == [service : STRING, role : STRING, print : STRING]

ASSUME RecordsAssumption ==
  /\ Records \subseteq Nat \ {0} /\ IsFiniteSet(Records)
  /\ Time \in [Records -> Nat]
  /\ \A r \in Records : {Parsed[r], OldParsed[r], FirstParsed[r]} \subseteq Cards
  /\ {CardPage, RecordPage, CommitPage} \subseteq Nat \ {0}

\* "without touching ... the independently versioned graph": from version 2 on the
\* parsers agree on the service of a record that names a peer, so that a graph of
\* the current extractor stays.
ASSUME GraphAssumption ==
  \A r \in Records : Peer[r] # NoPeer => OldParsed[r].service = Parsed[r].service

VARIABLES
  db,      \* the tables
  pc,      \* how far the process that opens the corpus is
  cursor   \* the position it pages from

index == <<db, pc, cursor>>

Put(f, k, v) == [x \in DOMAIN f \cup {k} |-> IF x = k THEN v ELSE f[x]]

Severe(role) == role \in {"critical", "error", "warning"}

\* (event_timestamp_millis, native_id) orders records everywhere.
Before(r, s) == Time[r] < Time[s] \/ (Time[r] = Time[s] /\ r < s)
Earlier(r, s) == IF Before(r, s) THEN r ELSE s
Later(r, s) == IF Before(s, r) THEN r ELSE s
Positions(t, e) == {i \in DOMAIN t : t[i].key = e}

\* A row that counts records and keeps the first and the last of them.
Counted(row, r) ==
  [row EXCEPT !.count = @ + 1, !.first = Earlier(r, @), !.last = Later(r, @)]
Single(k, r) == [key |-> k, count |-> 1, first |-> r, last |-> r]
Upsert(table, k, r) ==
  IF Positions(table, k) = {} THEN Append(table, Single(k, r))
  ELSE [table EXCEPT ![CHOOSE i \in Positions(table, k) : TRUE] = Counted(@, r)]

\* upsert_severe_service: the summary of a service, its oldest and newest group
\* as pairs of a timestamp and a group id.
Less(a, b) == a[1] < b[1] \/ (a[1] = b[1] /\ a[2] < b[2])
UpsertSevere(severe, service, id, from, to, new) ==
  IF service \notin DOMAIN severe
  THEN Put(severe, service, [count |-> 1, oldest |-> <<from, id>>, newest |-> <<to, id>>])
  ELSE [severe EXCEPT ![service] =
          [count  |-> @.count + (IF new THEN 1 ELSE 0),
           oldest |-> IF Less(<<from, id>>, @.oldest) THEN <<from, id>> ELSE @.oldest,
           newest |-> IF Less(@.newest, <<to, id>>) THEN <<to, id>> ELSE @.newest]]

\* Groups are numbered as they appear; a group's number is its row.
IndexNewRecord(parse, d, r) ==
  LET card == parse[r]
      new == Positions(d.groups, card) = {}
      groups == Upsert(d.groups, card, r)
      id == CHOOSE i \in Positions(groups, card) : TRUE
  IN [d EXCEPT !.groups = groups,
               !.severe = IF Severe(card.role)
                          THEN UpsertSevere(@, card.service, id, Time[r], Time[r], new)
                          ELSE @,
               !.termed = @ \cup {id},
               !.member = Put(@, r, id)]

\* The services an explicit edge joins.
Link(parse, peer, r) == <<parse[r].service, peer[r]>>
IsEdge(link) == link[2] # NoPeer /\ link[1] \notin {"unknown", link[2]}

IndexNewEdge(parse, peer, d, r) ==
  LET link == Link(parse, peer, r)
  IN IF r \in DOMAIN d.evidence \/ ~IsEdge(link) THEN d
     ELSE [d EXCEPT !.edges = Upsert(@, link, r),
                    !.evidence = Put(@, r, link),
                    !.version = @ + 1]

\* One record of a page: known ones are skipped.
CommitParsed(parse, peer, d, r) ==
  IF r \in d.stored THEN d
  ELSE IndexNewEdge(parse, peer,
                    IndexNewRecord(parse, [d EXCEPT !.stored = @ \cup {r}], r), r)

CommitRecord(d, r) == CommitParsed(Parsed, Peer, d, r)

----------------------------------------------------------------------------
(* What an earlier program may have left: the tables of an older parser or *)
(* graph extractor, and no rows yet in the tables that it did not have.    *)

Fresh(parser, extractor) ==
  [stored |-> {}, groups |-> <<>>, member |-> <<>>, severe |-> <<>>, termed |-> {},
   edges |-> <<>>, evidence |-> <<>>, version |-> 0, parser |-> parser,
   extractor |-> extractor, graph |-> FALSE, terms |-> FALSE, services |-> FALSE,
   at |-> 0]

\* The program that left a database indexed with the versions that it names.
ParserOf(v) == CASE v = 1 -> FirstParsed [] v = 6 -> Parsed [] OTHER -> OldParsed
ExtractorOf(v) == IF v = 1 THEN FirstPeer ELSE Peer

CommitOldRecord(d, r) == CommitParsed(ParserOf(d.parser), ExtractorOf(d.extractor), d, r)

\* The edges go, as they are not those of the current extractor and parser.
DropEdges(d) == [d EXCEPT !.edges = <<>>, !.evidence = <<>>, !.version = 0]

\* Mutant: the edges of the earlier extractor stay.
ClearGraphKeepsEdges(d) == [d EXCEPT !.extractor = 2, !.graph = FALSE]

ClearGraph(d) == [DropEdges(d) EXCEPT !.extractor = 2, !.graph = FALSE]

ClearIndex(d) ==
  [d EXCEPT !.groups = <<>>, !.member = <<>>, !.severe = <<>>, !.termed = {},
            !.parser = 6, !.terms = FALSE, !.services = FALSE, !.at = 0]

\* The records of a page came in any order.
Left(page, parser, extractor, tables) ==
  LET all == FoldLeft(CommitOldRecord, Fresh(parser, extractor), page)
  IN [(IF "graph" \in tables THEN all ELSE DropEdges(all))
            EXCEPT !.severe = IF "services" \in tables THEN @ ELSE <<>>,
                   !.termed = IF "terms" \in tables THEN @ ELSE {},
                   !.graph = "graph" \in tables,
                   !.terms = "terms" \in tables,
                   !.services = "services" \in tables]

Databases ==
  {Left(page, parser, extractor, tables) :
     page \in {p \in SeqOf(Records, Cardinality(Records)) : IsInjective(p)},
     parser \in {1, 2, 6}, extractor \in {1, 2},
     tables \in SUBSET {"graph", "terms", "services"}}

----------------------------------------------------------------------------
(* Opening a corpus *)

Goto(step, position) == pc' = step /\ cursor' = position

CardsAfter(c) == (c + 1) .. Min({c + CardPage, Len(db.groups)})

\* A page of read_page has the next records in order.  It ends at the record or
\* the byte limit, but is never empty.
Rest(c) == {r \in db.stored : c = 0 \/ Before(c, r)}
Pages(c) ==
  {page \in SeqOf(Rest(c), RecordPage) :
     /\ page # <<>>
     /\ \A i, j \in DOMAIN page : i < j => Before(page[i], page[j])
     /\ \A r \in Rest(c) : r \in Range(page) \/ Before(Last(page), r)}

Open ==
  /\ pc = "closed"
  /\ db' = CASE db.parser = 1 -> ClearGraph(ClearIndex(db))
              [] db.parser = 6 -> db
              [] OTHER -> ClearIndex(db)
  /\ Goto(IF db.parser = 1 THEN "services" ELSE "extractor", 0)

ResetGraph ==
  /\ pc = "extractor"
  /\ db' = IF db.extractor = 1 THEN ClearGraph(db) ELSE db
  /\ Goto("services", 0)

BackfillServices ==
  /\ pc = "services"
  /\ IF db.services
     THEN Goto("members", 0) /\ UNCHANGED db
     ELSE /\ db' = [db EXCEPT !.severe = IF db.at = 0 THEN <<>> ELSE @]
          /\ Goto("services page", db.at)

Summarise(severe, id) ==
  LET group == db.groups[id]
  IN IF Severe(group.key.role)
     THEN UpsertSevere(severe, group.key.service, id, Time[group.first], Time[group.last], TRUE)
     ELSE severe

\* Mutant: the position is not saved with the page.
ServicesPageUnsaved ==
  /\ pc = "services page"
  /\ IF CardsAfter(cursor) = {}
     THEN Goto("members", 0) /\ db' = [db EXCEPT !.services = TRUE]
     ELSE LET last == Max(CardsAfter(cursor))
          IN /\ db' = [db EXCEPT !.severe = FoldLeft(Summarise, @,
                                              [i \in 1 .. last - cursor |-> cursor + i])]
             /\ Goto("services page", last)

\* The position is saved with the page: a page is summarised once.
ServicesPage ==
  /\ pc = "services page"
  /\ IF CardsAfter(cursor) = {}
     THEN Goto("members", 0) /\ db' = [db EXCEPT !.services = TRUE]
     ELSE LET last == Max(CardsAfter(cursor))
          IN /\ db' = [db EXCEPT !.at = last,
                                 !.severe = FoldLeft(Summarise, @,
                                              [i \in 1 .. last - cursor |-> cursor + i])]
             /\ Goto("services page", last)

Counts == Cardinality(db.stored) = Cardinality(DOMAIN db.member)

BackfillMembers ==
  /\ pc = "members"
  /\ Goto(IF Counts THEN "graph" ELSE "members page", 0)
  /\ UNCHANGED db

IndexMissing(d, r) == IF r \in DOMAIN d.member THEN d ELSE IndexNewRecord(Parsed, d, r)

MembersPage ==
  /\ pc = "members page"
  /\ \/ /\ Rest(cursor) = {}
        /\ Goto(IF Counts THEN "graph" ELSE "refused", 0)
        /\ UNCHANGED db
     \/ \E page \in Pages(cursor) :
          /\ db' = FoldLeft(IndexMissing, db, page)
          /\ Goto("members page", Last(page))

BackfillGraph ==
  /\ pc = "graph"
  /\ Goto(IF db.graph THEN "terms" ELSE "graph page", 0)
  /\ UNCHANGED db

IndexEdge(d, r) == IndexNewEdge(Parsed, Peer, d, r)

\* Mutant: the next page begins where this one did.
GraphPageStays ==
  /\ pc = "graph page"
  /\ \/ /\ Rest(cursor) = {}
        /\ db' = [db EXCEPT !.graph = TRUE]
        /\ Goto("terms", 0)
     \/ \E page \in Pages(cursor) :
          /\ db' = FoldLeft(IndexEdge, db, page)
          /\ Goto("graph page", cursor)

GraphPage ==
  /\ pc = "graph page"
  /\ \/ /\ Rest(cursor) = {}
        /\ db' = [db EXCEPT !.graph = TRUE]
        /\ Goto("terms", 0)
     \/ \E page \in Pages(cursor) :
          /\ db' = FoldLeft(IndexEdge, db, page)
          /\ Goto("graph page", Last(page))

BackfillTerms ==
  /\ pc = "terms"
  /\ Goto(IF db.terms THEN "ready" ELSE "terms page", 0)
  /\ UNCHANGED db

TermsPage ==
  /\ pc = "terms page"
  /\ IF CardsAfter(cursor) = {}
     THEN Goto("ready", 0) /\ db' = [db EXCEPT !.terms = TRUE]
     ELSE /\ db' = [db EXCEPT !.termed = @ \cup CardsAfter(cursor)]
          /\ Goto("terms page", Max(CardsAfter(cursor)))

Opening ==
  \/ ResetGraph \/ BackfillServices \/ ServicesPage \/ BackfillMembers \/ MembersPage
  \/ BackfillGraph \/ GraphPage \/ BackfillTerms \/ TermsPage

\* commit_page_checked: a page may repeat records that are stored already.
Commit ==
  /\ pc = "ready"
  /\ \E page \in SeqOf(Records, CommitPage) :
       page # <<>> /\ db' = FoldLeft(CommitRecord, db, page)
  /\ UNCHANGED <<pc, cursor>>

\* The command ends, or its process does.
Close == pc # "closed" /\ Goto("closed", 0) /\ UNCHANGED db

IndexNext == Open \/ Opening \/ Commit \/ Close

----------------------------------------------------------------------------
(* Properties *)

\* A row stands for exactly the records S: their number, the first and the last.
Exact(row, S) ==
  /\ row.count = Cardinality(S)
  /\ row.first \in S /\ row.last \in S
  /\ \A r \in S : ~Before(r, row.first) /\ ~Before(row.last, r)

Distinct(table) == \A i, j \in DOMAIN table : table[i].key = table[j].key => i = j

\* The summaries of the first n groups, computed from the groups.
SevereOf(n, service) ==
  {i \in 1 .. n : Severe(db.groups[i].key.role) /\ db.groups[i].key.service = service}
Summaries(n) ==
  LET services == {db.groups[i].key.service : i \in {j \in 1 .. n :
                                                     Severe(db.groups[j].key.role)}}
      from(i) == <<Time[db.groups[i].first], i>>
      to(i) == <<Time[db.groups[i].last], i>>
  IN [s \in services |->
       [count  |-> Cardinality(SevereOf(n, s)),
        oldest |-> from(CHOOSE i \in SevereOf(n, s) :
                          \A j \in SevereOf(n, s) : ~Less(from(j), from(i))),
        newest |-> to(CHOOSE i \in SevereOf(n, s) :
                        \A j \in SevereOf(n, s) : ~Less(to(i), to(j)))]]

\* At every moment, between any two transactions of an open and after a process
\* death, each derived row states exactly the records it was derived from: a group
\* its members, an edge its evidence, and a service the severe groups summarised so
\* far.  A backfill that runs again counts nothing twice (index_new_record,
\* index_new_edge, upsert_severe_service and the backfills of open).
TablesExact ==
  /\ db.parser = 6 =>
       /\ Distinct(db.groups)
       /\ \A i \in DOMAIN db.groups :
            Exact(db.groups[i], {r \in DOMAIN db.member : db.member[r] = i})
       /\ \A r \in DOMAIN db.member : db.groups[db.member[r]].key = Parsed[r]
  /\ Distinct(db.edges)
  /\ \A i \in DOMAIN db.edges :
       Exact(db.edges[i], {r \in DOMAIN db.evidence : db.evidence[r] = db.edges[i].key})
  /\ db.version = Cardinality(DOMAIN db.evidence)
  /\ db.severe = Summaries(IF db.services THEN Len(db.groups) ELSE db.at)

\* A corpus that open() returns has every stored record in a group, the terms of
\* every group and a summary of every service, and its graph has the edge that each
\* stored record states under the current parser and extractor and no other,
\* whatever edges an earlier program left and wherever earlier opens ended; and
\* open() never refuses such a corpus for missing memberships.
ReadyComplete ==
  /\ pc # "refused"
  /\ pc = "ready" =>
       /\ DOMAIN db.member = db.stored
       /\ db.evidence = [r \in {s \in db.stored : IsEdge(Link(Parsed, Peer, s))}
                           |-> Link(Parsed, Peer, r)]
       /\ db.termed = DOMAIN db.groups
       /\ db.services

\* An open that is not interrupted returns: every backfill loop ends.
OpenReturns == pc # "closed" ~> pc \in {"ready", "refused", "closed"}
==============================================================================
