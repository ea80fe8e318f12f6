-------------------------- MODULE ConnectedCatalog --------------------------
(***************************************************************************)
(* The catalog of connected sources: one Keychain entry with a fresh key,  *)
(* one encrypted corpus file and, for two of the providers, one stored     *)
(* credential per source.  Commands register, revoke, synchronize and      *)
(* query sources; all of them work under one advisory lock, except that a  *)
(* query releases it while its model reads the pinned snapshots and takes  *)
(* it back to revalidate what it is about to return.                       *)
(*                                                                         *)
(* Every call on the Keychain or the file system is a step of its own: it  *)
(* may fail, and the process may die after it.  The sync of a source is    *)
(* the sequence of its committed pages (HistorySync has the detail).  A    *)
(* command that finds the lock taken, or a query that finds no source,     *)
(* ends without a step.                                                    *)
(***************************************************************************)
EXTENDS Integers, FiniteSets

CONSTANTS
  Sources,      \* source digests
  Provider,     \* the provider of each source
  Connection,   \* the connection a source belongs to: Datadog has one of many tiers
  Procs,        \* processes that run one command at a time
  Servers,      \* those that answer over MCP
  WalLimit,     \* MAX_WAL_BYTES, in pages
  MaxKey,       \* bound on the keys ever drawn
  MaxPages,     \* bound on the pages a corpus ever receives
  MaxRebuild,   \* bound on the pages opens write to a log before it is truncated
  MaxFaults     \* bound on the calls that fail

NoProc == "no process"
NoSource == "no source"
NoKey == 0
Absent == 0     \* no corpus file
Reserved == -1  \* an empty file: the next open encrypts it under its own key
NoView == [key |-> NoKey, told |-> 0, rows |-> 0]

ASSUME SourcesAssumption ==
  /\ Provider \in [Sources -> {"cloudwatch", "sentry", "datadog"}]
  /\ \A s, t \in Sources :
       s # t /\ Connection[s] = Connection[t] => Provider[s] = "datadog"
                                               /\ Provider[t] = "datadog"
  /\ NoProc \notin Procs
  /\ NoSource \notin Sources
  /\ Servers \subseteq Procs

ASSUME BoundsAssumption ==
  /\ WalLimit \in Nat
  /\ MaxKey \in Nat
  /\ MaxPages \in Nat
  /\ MaxRebuild \in Nat
  /\ MaxFaults \in Nat

VARIABLES
  lock,     \* the holder of .connections.lock
  key,      \* the corpus key of a source's Keychain entry
  cred,     \* the sources with a stored provider credential
  file,     \* the key a source's corpus file is encrypted under
  rows,     \* pages the corpus file holds
  wal,      \* pages in its write-ahead log
  loose,    \* those of them that opens wrote, past the guard of the page commits
  access,   \* the sources whose provider accepts the caller now
  drawn,    \* the keys drawn so far
  faults,   \* the calls that failed so far
  used,     \* Datadog connections that were ever begun: their id is random
  pc,       \* where each process is
  op,       \* the command it runs
  todo,     \* the sources it has still to handle
  src,      \* the source it handles
  made,     \* the sources this connect registered
  view      \* what this query selected: the key, the coverage told, the snapshot

durable == <<key, cred, file, rows, wal, loose, drawn, faults, used>>
local == <<pc, op, todo, src, made, view>>
vars == <<lock, durable, access, local>>

Tiered(s) == Provider[s] = "datadog"
Blocked(s) == Provider[s] = "datadog"
Listed == {s \in Sources : key[s] # NoKey}
Selected(p) == {s \in Sources : view[p][s] # NoView}

Init ==
  /\ lock = NoProc
  /\ key = [s \in Sources |-> NoKey]
  /\ cred = {}
  /\ file = [s \in Sources |-> Absent]
  /\ rows = [s \in Sources |-> 0]
  /\ wal = [s \in Sources |-> 0]
  /\ loose = [s \in Sources |-> 0]
  /\ access = Sources
  /\ drawn = 0
  /\ faults = 0
  /\ used = {}
  /\ pc = [p \in Procs |-> "idle"]
  /\ op = [p \in Procs |-> "none"]
  /\ todo = [p \in Procs |-> {}]
  /\ src = [p \in Procs |-> NoSource]
  /\ made = [p \in Procs |-> {}]
  /\ view = [p \in Procs |-> [s \in Sources |-> NoView]]

----------------------------------------------------------------------------
(* Beginning and ending a command *)

Goto(p, step) == pc' = [pc EXCEPT ![p] = step]

Begin(p, name, step, work) ==
  /\ pc[p] = "idle"
  /\ lock = NoProc
  /\ lock' = p
  /\ op' = [op EXCEPT ![p] = name]
  /\ todo' = [todo EXCEPT ![p] = work]
  /\ Goto(p, step)
  /\ UNCHANGED <<src, made, view>>

\* The command returns or dies: flock and snapshots go with the process.
End(p) ==
  /\ lock' = IF lock = p THEN NoProc ELSE lock
  /\ Goto(p, "idle")
  /\ op' = [op EXCEPT ![p] = "none"]
  /\ todo' = [todo EXCEPT ![p] = {}]
  /\ src' = [src EXCEPT ![p] = NoSource]
  /\ made' = [made EXCEPT ![p] = {}]
  /\ view' = [view EXCEPT ![p] = [s \in Sources |-> NoView]]

\* A call fails and leaves what it was to change as it was.
Fault ==
  /\ faults < MaxFaults
  /\ faults' = faults + 1
  /\ UNCHANGED <<key, cred, file, rows, wal, loose, drawn, used>>

Step(p, step) == Goto(p, step) /\ UNCHANGED <<lock, op, todo, src, made, view>>

SetKey(s, k) ==
  /\ key' = [key EXCEPT ![s] = k]
  /\ UNCHANGED <<cred, file, rows, wal, loose, faults, used>>

\* A corpus file appears or goes away together with its write-ahead log.
SetFile(s, f) ==
  /\ file' = [file EXCEPT ![s] = f]
  /\ rows' = [rows EXCEPT ![s] = 0]
  /\ wal' = [wal EXCEPT ![s] = 0]
  /\ loose' = [loose EXCEPT ![s] = 0]
  /\ UNCHANGED <<key, cred, drawn, faults, used>>

SetCred(c) ==
  /\ cred' = c
  /\ UNCHANGED <<key, file, rows, wal, loose, drawn, faults, used>>

----------------------------------------------------------------------------
(* connect-cloudwatch, connect-sentry, connect-datadog *)

\* The tiers that answered the probe, or the one source, are to be registered.
ConnectBegin(p) ==
  \E c \in {Connection[s] : s \in Sources} \ used :
    \E work \in SUBSET {s \in Sources : Connection[s] = c} \ {{}} :
      /\ drawn + Cardinality(work) <= MaxKey
      /\ Begin(p, "connect", "tier", work)
      /\ used' = IF \E s \in work : Tiered(s) THEN used \cup {c} ELSE used
      /\ UNCHANGED <<access, key, cred, file, rows, wal, loose, drawn, faults>>

\* The next tier; Datadog stores its credential before anything else.
TierBegin(p) ==
  /\ pc[p] = "tier"
  /\ \E s \in todo[p] :
       /\ src' = [src EXCEPT ![p] = s]
       /\ todo' = [todo EXCEPT ![p] = @ \ {s}]
       /\ SetCred(IF Tiered(s) THEN cred \cup {s} ELSE cred)
  /\ Goto(p, "bind")
  /\ UNCHANGED <<lock, access, op, made, view>>

TierFails(p) ==
  /\ pc[p] = "tier"
  /\ \E s \in todo[p] : Tiered(s)
  /\ Fault
  /\ Step(p, "rollback")
  /\ UNCHANGED access

ConnectDone(p) ==
  /\ pc[p] = "tier"
  /\ todo[p] = {}
  /\ End(p)
  /\ UNCHANGED <<access, durable>>

\* create_bound: a fresh key, unless the source is already registered.
Bind(p) ==
  /\ pc[p] = "bind"
  /\ key[src[p]] = NoKey
  /\ drawn' = drawn + 1
  /\ SetKey(src[p], drawn')
  /\ Step(p, "reserve")
  /\ UNCHANGED access

\* The error is returned; a Datadog tier first drops its credential.
BindFails(p) ==
  /\ pc[p] = "bind"
  /\ (key[src[p]] # NoKey /\ UNCHANGED durable) \/ Fault
  /\ IF Tiered(src[p]) THEN Step(p, "uncred") ELSE End(p)
  /\ UNCHANGED access

\* create_new: the corpus file must not exist yet.
Reserve(p) ==
  /\ pc[p] = "reserve"
  /\ file[src[p]] = Absent
  /\ SetFile(src[p], Reserved)
  /\ Step(p, "open")
  /\ UNCHANGED access

ReserveFails(p) ==
  /\ pc[p] = "reserve"
  /\ (file[src[p]] # Absent /\ UNCHANGED durable) \/ Fault
  /\ Step(p, "unbind")
  /\ UNCHANGED access

\* The tier is registered; Sentry still has to store its credential.
OpenNew(p) ==
  /\ pc[p] = "open"
  /\ SetFile(src[p], key[src[p]])
  /\ IF Provider[src[p]] = "sentry"
     THEN Goto(p, "cred") /\ made' = made
     ELSE Goto(p, "tier") /\ made' = [made EXCEPT ![p] = @ \cup {src[p]}]
  /\ UNCHANGED <<lock, access, op, todo, src, view>>

CreateCred(p) ==
  /\ pc[p] = "cred"
  /\ src[p] \notin cred
  /\ SetCred(cred \cup {src[p]})
  /\ Step(p, "tier")
  /\ UNCHANGED access

OpenOrCredFails(p) ==
  /\ \/ pc[p] \in {"open", "cred"} /\ Fault
     \/ pc[p] = "cred" /\ src[p] \in cred /\ UNCHANGED durable
  /\ Step(p, "discard")
  /\ UNCHANGED access

\* Cleaning up: whether these calls succeed is not looked at.
Discard(p) ==
  /\ pc[p] = "discard"
  /\ SetFile(src[p], Absent) \/ Fault
  /\ Step(p, "unbind")
  /\ UNCHANGED access

Unbind(p) ==
  /\ pc[p] = "unbind"
  /\ (SetKey(src[p], NoKey) /\ drawn' = drawn) \/ Fault
  /\ IF Tiered(src[p]) THEN Step(p, "uncred") ELSE End(p)
  /\ UNCHANGED access

Uncred(p) ==
  /\ pc[p] = "uncred"
  /\ SetCred(cred \ {src[p]}) \/ Fault
  /\ Step(p, "rollback")
  /\ UNCHANGED access

\* The tiers of this connect go, one after the other: corpus, key, credential,
\* until a call fails.
Rollback(p) ==
  /\ pc[p] = "rollback"
  /\ \E s \in made[p] :
       /\ \A t \in made[p] \ {s} : file[t] # Absent
       /\ IF file[s] # Absent
          THEN SetFile(s, Absent) /\ made' = made
          ELSE IF key[s] # NoKey
          THEN SetKey(s, NoKey) /\ drawn' = drawn /\ made' = made
          ELSE SetCred(cred \ {s}) /\ made' = [made EXCEPT ![p] = @ \ {s}]
  /\ UNCHANGED <<lock, access, pc, op, todo, src, view>>

RollbackEnds(p) ==
  /\ pc[p] = "rollback"
  /\ (made[p] = {} /\ UNCHANGED durable) \/ Fault
  /\ End(p)
  /\ UNCHANGED access

----------------------------------------------------------------------------
(* disconnect *)

DisconnectBegin(p) ==
  \E s \in Listed :
    /\ Begin(p, "disconnect", "revoke", {t \in Listed : Connection[t] = Connection[s]})
    /\ UNCHANGED <<access, durable>>

\* mutant: the keys go before the corpora
RevokeKeysFirst(p) ==
  /\ pc[p] = "revoke"
  /\ \E s \in todo[p] :
       \/ s \in cred /\ SetCred(cred \ {s})
       \/ todo[p] \cap cred = {} /\ key[s] # NoKey /\ SetKey(s, NoKey) /\ drawn' = drawn
       \/ todo[p] \cap (cred \cup Listed) = {} /\ file[s] # Absent /\ SetFile(s, Absent)
  /\ UNCHANGED <<lock, access, local>>

\* mutant: the credentials go last
RevokeCredentialsLast(p) ==
  /\ pc[p] = "revoke"
  /\ \E s \in todo[p] :
       \/ file[s] # Absent /\ SetFile(s, Absent)
       \/ file[s] = Absent /\ key[s] # NoKey /\ SetKey(s, NoKey) /\ drawn' = drawn
       \/ file[s] = Absent /\ key[s] = NoKey /\ s \in cred /\ SetCred(cred \ {s})
  /\ UNCHANGED <<lock, access, local>>

\* All credentials go first, then all corpora, then all keys.
Revoke(p) ==
  /\ pc[p] = "revoke"
  /\ \E s \in todo[p] :
       \/ s \in cred /\ SetCred(cred \ {s})
       \/ todo[p] \cap cred = {} /\ file[s] # Absent /\ SetFile(s, Absent)
       \/ /\ todo[p] \cap cred = {}
          /\ \A t \in todo[p] : file[t] = Absent
          /\ key[s] # NoKey
          /\ SetKey(s, NoKey)
          /\ drawn' = drawn
  /\ UNCHANGED <<lock, access, local>>

RevokeEnds(p) ==
  /\ pc[p] = "revoke"
  /\ \/ todo[p] \cap (cred \cup Listed) = {} /\ UNCHANGED durable
     \/ Fault
  /\ End(p)
  /\ UNCHANGED access

----------------------------------------------------------------------------
(* sync, watch, logs, and the commands on one source *)

\* sync_cycle visits every registered source.
CycleBegin(p) ==
  /\ Listed # {}
  /\ Begin(p, "cycle", "next", Listed)
  /\ UNCHANGED <<access, durable>>

\* query_connected_logs catches every registered source up.
QueryBegin(p) ==
  /\ Listed # {}
  /\ Begin(p, "query", "next", Listed)
  /\ UNCHANGED <<access, durable>>

\* expand, feedback and route commands synchronize the one source they use.
UseBegin(p) ==
  \E s \in Listed :
    /\ ~Blocked(s)
    /\ file[s] # Absent
    /\ Begin(p, "use", "next", {s})
    /\ UNCHANGED <<access, durable>>

\* A blocked source, or one whose corpus is missing, is reported and left out.
Exclude(p) ==
  /\ pc[p] = "next"
  /\ \E s \in todo[p] :
       /\ Blocked(s) \/ file[s] = Absent
       /\ todo' = [todo EXCEPT ![p] = @ \ {s}]
  /\ UNCHANGED <<lock, access, durable, pc, op, src, made, view>>

\* Open brings the tables of an earlier program up to date: what that appends to
\* the log is not held against the limit.  CorpusIndex has the detail.
Rebuild(s) ==
  \E n \in 0 .. MaxRebuild - loose[s] :
    /\ wal' = [wal EXCEPT ![s] = @ + n]
    /\ loose' = [loose EXCEPT ![s] = @ + n]

\* EncryptedHistoryStore::open with the key of the entry.
Open(p) ==
  /\ pc[p] = "next"
  /\ \E s \in todo[p] :
       /\ ~Blocked(s)
       /\ file[s] \in {Reserved, key[s]}
       /\ src' = [src EXCEPT ![p] = s]
       /\ todo' = [todo EXCEPT ![p] = @ \ {s}]
       /\ file' = [file EXCEPT ![s] = key[s]]
       /\ Rebuild(s)
  /\ Goto(p, "sync")
  /\ UNCHANGED <<lock, access, key, cred, rows, drawn, faults, used, op, made, view>>

\* A corpus that does not open ends the whole command, whatever else it was to do.
OpenFails(p) ==
  /\ pc[p] = "next"
  /\ \E s \in todo[p] : ~Blocked(s) /\ file[s] # Absent /\ file[s] # Reserved
                        /\ file[s] # key[s]
  /\ End(p)
  /\ UNCHANGED <<access, durable>>

Reachable(s) == s \in access /\ (Provider[s] = "sentry" => s \in cred)

\* A snapshot of this very file is still open.
Pinned(s) ==
  \E q \in Procs : pc[q] \in {"select", "relock", "verify"} /\ view[q][s].key = file[s]

\* commit_page_checked: past the limit the log is first truncated, and where a
\* reader forbids that the page is refused.
CommitPage(p) ==
  /\ pc[p] = "sync"
  /\ Reachable(src[p])
  /\ rows[src[p]] < MaxPages
  /\ wal[src[p]] <= WalLimit \/ ~Pinned(src[p])
  /\ rows' = [rows EXCEPT ![src[p]] = @ + 1]
  /\ IF wal[src[p]] <= WalLimit
     THEN wal' = [wal EXCEPT ![src[p]] = @ + 1] /\ loose' = loose
     ELSE wal' = [wal EXCEPT ![src[p]] = 1] /\ loose' = [loose EXCEPT ![src[p]] = 0]
  /\ UNCHANGED <<lock, access, key, cred, file, drawn, faults, used, local>>

\* sync_binding returns: a query remembers the key and tells the coverage.
SyncDone(p) ==
  /\ pc[p] = "sync"
  /\ Reachable(src[p])
  /\ IF op[p] = "use"
     THEN End(p)
     ELSE /\ view' = IF op[p] = "query"
                     THEN [view EXCEPT ![p][src[p]] = [key |-> key[src[p]],
                                                       told |-> rows[src[p]], rows |-> 0]]
                     ELSE view
          /\ Goto(p, "next")
          /\ UNCHANGED <<lock, op, todo, src, made>>
  /\ UNCHANGED <<access, durable>>

\* The provider refuses or a page is refused: a query excludes the source.
SyncFails(p) ==
  /\ pc[p] = "sync"
  /\ IF op[p] = "use" THEN End(p) ELSE Step(p, "next")
  /\ UNCHANGED <<access, durable>>

CycleDone(p) ==
  /\ pc[p] = "next"
  /\ todo[p] = {}
  /\ op[p] = "cycle" \/ Selected(p) = {}
  /\ End(p)
  /\ UNCHANGED <<access, durable>>

\* read_snapshot on every selected corpus; then the lock is released.
Snapshot(p) ==
  /\ pc[p] = "next"
  /\ op[p] = "query"
  /\ todo[p] = {}
  /\ Selected(p) # {}
  /\ view' = [view EXCEPT ![p] = [s \in Sources |->
                IF s \in Selected(p) THEN [view[p][s] EXCEPT !.rows = rows[s]] ELSE NoView]]
  /\ lock' = NoProc
  /\ Goto(p, "select")
  /\ UNCHANGED <<access, durable, op, todo, src, made>>

\* mutant: a deferred transaction pins its snapshot at the first read of the model
ChooseReadsNow(p) ==
  /\ pc[p] = "select"
  /\ view' = [view EXCEPT ![p] = [s \in Sources |->
                IF s \in Selected(p) THEN [view[p][s] EXCEPT !.rows = rows[s]] ELSE NoView]]
  /\ Goto(p, "relock")
  /\ UNCHANGED <<lock, op, todo, src, made>>
  /\ UNCHANGED <<access, durable>>

\* The model has chosen; it may also have failed.
Choose(p) ==
  /\ pc[p] = "select"
  /\ Step(p, "relock")
  /\ UNCHANGED <<access, durable>>

ChooseFails(p) ==
  /\ pc[p] = "select"
  /\ End(p)
  /\ UNCHANGED <<access, durable>>

\* wait_for_connected_catalog_lock polls for the lock, for 60 seconds.
Relock(p) ==
  /\ pc[p] = "relock"
  /\ lock = NoProc
  /\ lock' = p
  /\ Goto(p, "verify")
  /\ UNCHANGED <<access, durable, op, todo, src, made, view>>

\* mutant: the wait for the lock has no end
RelockForEver(p) ==
  /\ pc[p] = "relock"
  /\ lock # NoProc
  /\ UNCHANGED vars

RelockTimeout(p) ==
  /\ pc[p] = "relock"
  /\ lock # NoProc
  /\ End(p)
  /\ UNCHANGED <<access, durable>>

\* mutant: any registration of the source will do
VerifyRegistered(p) ==
  /\ pc[p] = "verify"
  /\ \A s \in Selected(p) : key[s] # NoKey /\ Reachable(s)
  /\ Step(p, "deliver")
  /\ UNCHANGED <<access, durable>>

\* verify_query_sources: the same registration, the same key, live access.
Verify(p) ==
  /\ pc[p] = "verify"
  /\ \A s \in Selected(p) : key[s] = view[p][s].key /\ Reachable(s)
  /\ Step(p, "deliver")
  /\ UNCHANGED <<access, durable>>

VerifyFails(p) ==
  /\ pc[p] = "verify"
  /\ End(p)
  /\ UNCHANGED <<access, durable>>

\* run_logs writes the body while the result still owns the lock.
Deliver(p) ==
  /\ pc[p] = "deliver"
  /\ p \notin Servers
  /\ End(p)
  /\ UNCHANGED <<access, durable>>

\* The MCP tool handler returns a value: the result, and the lock, are dropped.
HandlerReturns(p) ==
  /\ pc[p] = "deliver"
  /\ p \in Servers
  /\ lock' = NoProc
  /\ Goto(p, "answer")
  /\ UNCHANGED <<access, durable, op, todo, src, made, view>>

\* The server writes the response line.
Answer(p) ==
  /\ pc[p] = "answer"
  /\ End(p)
  /\ UNCHANGED <<access, durable>>

----------------------------------------------------------------------------
(* The environment *)

Crash(p) ==
  /\ pc[p] # "idle"
  /\ End(p)
  /\ UNCHANGED <<access, durable>>

Grant(s) ==
  /\ access' = IF s \in access THEN access \ {s} ELSE access \cup {s}
  /\ UNCHANGED <<lock, durable, local>>

Connects(p) ==
  \/ TierBegin(p) \/ TierFails(p) \/ ConnectDone(p) \/ Bind(p) \/ BindFails(p)
  \/ Reserve(p) \/ ReserveFails(p) \/ OpenNew(p) \/ CreateCred(p) \/ OpenOrCredFails(p)
  \/ Discard(p) \/ Unbind(p) \/ Uncred(p) \/ Rollback(p) \/ RollbackEnds(p)

Revokes(p) == Revoke(p) \/ RevokeEnds(p)

Reads(p) ==
  \/ Exclude(p) \/ Open(p) \/ OpenFails(p) \/ CommitPage(p) \/ SyncDone(p) \/ SyncFails(p)
  \/ CycleDone(p) \/ Snapshot(p) \/ Choose(p) \/ ChooseFails(p) \/ Relock(p)
  \/ RelockTimeout(p) \/ Verify(p) \/ VerifyFails(p) \/ Deliver(p) \/ HandlerReturns(p)
  \/ Answer(p)

Begins(p) ==
  ConnectBegin(p) \/ DisconnectBegin(p) \/ CycleBegin(p) \/ QueryBegin(p) \/ UseBegin(p)

Runs(p) == Connects(p) \/ Revokes(p) \/ Reads(p)

Next ==
  \/ \E p \in Procs : Begins(p) \/ Runs(p) \/ Crash(p)
  \/ \E s \in Sources : Grant(s)

Spec == Init /\ [][Next]_vars

----------------------------------------------------------------------------
(* Correctness *)

Unlocked == {"idle", "select", "relock", "answer"}
Steps == Unlocked \cup {"tier", "bind", "reserve", "open", "cred", "discard", "unbind",
                        "uncred", "rollback", "revoke", "next", "sync", "verify",
                        "deliver"}

\* Every variable has its type, and the lock is held by exactly the process that
\* is in a step the code runs under its guard.
TypeOK ==
  /\ lock \in Procs \cup {NoProc}
  /\ key \in [Sources -> Nat]
  /\ cred \subseteq Sources
  /\ file \in [Sources -> Nat \cup {Reserved}]
  /\ rows \in [Sources -> Nat]
  /\ wal \in [Sources -> Nat]
  /\ loose \in [Sources -> Nat]
  /\ access \subseteq Sources
  /\ drawn \in Nat
  /\ faults \in Nat
  /\ used \subseteq {Connection[s] : s \in Sources}
  /\ pc \in [Procs -> Steps]
  /\ op \in [Procs -> {"none", "connect", "disconnect", "cycle", "query", "use"}]
  /\ todo \in [Procs -> SUBSET Sources]
  /\ src \in [Procs -> Sources \cup {NoSource}]
  /\ made \in [Procs -> SUBSET Sources]
  /\ view \in [Procs -> [Sources -> [key : Nat, told : Nat, rows : Nat]]]
  /\ \A p \in Procs : pc[p] \notin Unlocked <=> lock = p

\* A corpus file belongs to a registered source and opens under its key, whoever
\* dies where.  It takes two failing calls in one connect, an error and its
\* cleanup, to leave a file without an entry; the next connect may then pair it
\* with another key, and OpenFails ends every sync and query of every source.
CorpusOpens ==
  faults < 2 => \A s \in Sources : file[s] # Absent =>
                  key[s] # NoKey /\ file[s] \in {Reserved, key[s]}

\* A Sentry credential never outlives the entry of its source, whatever fails or
\* dies: disconnect can always find it, and a reconnect never meets it.
CredentialListed ==
  \A s \in Sources : Provider[s] = "sentry" /\ s \in cred => key[s] # NoKey

\* What a logs command writes comes from sources still registered under the key
\* their snapshot was read with: a source disconnected, or disconnected and
\* connected again, while the model worked fails the query.
DeliversCurrentSources ==
  \A p \in Procs : pc[p] = "deliver" =>
    \A s \in Selected(p) : /\ key[s] = view[p][s].key
                           /\ Provider[s] = "sentry" => s \in cred

\* The same for what an MCP server writes.
AnswersCurrentSources ==
  \A p \in Procs : pc[p] = "answer" =>
    \A s \in Selected(p) : key[s] = view[p][s].key

\* The coverage a query reports is that of the snapshot it searched: no page
\* committed in between is in the one and not in the other.
CoverageMatchesSnapshot ==
  \A p \in Procs : pc[p] \in {"select", "relock", "verify", "deliver", "answer"} =>
    \A s \in Selected(p) : view[p][s].told = view[p][s].rows

\* A write-ahead log exceeds its limit by one page and what opens wrote to it since
\* it was last truncated, however long a query pins it and however often the watcher
\* retries: synced pages alone never add up past it (commit_page_checked).
WalBounded == \A s \in Sources : wal[s] <= WalLimit + 1 + loose[s]

\* A command that got the lock returns: nothing waits for ever for the lock.
CommandsEnd == \A p \in Procs : pc[p] # "idle" ~> pc[p] = "idle"

=============================================================================
