--------------------------- MODULE CorpusLearning ---------------------------
(***************************************************************************)
(* What a corpus learns: ratings of delivered records and the versions of  *)
(* the promotions made from them, and independent labels with the versions *)
(* of the retrieval route that was evaluated on them.  Each command works  *)
(* on an open corpus under the catalog lock, so its reads and its          *)
(* transaction are one step.                                               *)
(*                                                                         *)
(* Rows of ratings and promotions carry a task digest and no statement     *)
(* joins two tasks: the model follows one task.  In an open corpus the     *)
(* group of a record is that of its parse (TablesExact, ReadyComplete).    *)
(***************************************************************************)
EXTENDS CorpusIndex

CONSTANTS
  Nonces,        \* of the results whose records are rated
  Found,         \* groups that the task's own terms find (the baseline)
  MinRatings,    \* ratings a promotion needs: 3
  MaxPromoted,   \* groups of a version: 16
  Cases,         \* independently labelled cases
  MaxLabels,     \* rows of independent_log_labels: 4096
  Workloads      \* what a corpus is used for

\* A workload is one kind of command, the records that are stored before it begins
\* (none are before a sync), the cases that are labelled and a bound on the versions.
NoVersion == 0

ASSUME LearningAssumption ==
  /\ {MinRatings, MaxPromoted, MaxLabels} \subseteq Nat
  /\ Workloads \subseteq [uses : {"sync", "feedback", "route"}, stored : Seq(Records),
                          cases : SUBSET Cases, versions : Nat]

VARIABLES
  load,        \* the workload of this behaviour
  rated,       \* feedback_observations: the verdict of a record and a nonce
  promoted,    \* feedback_promotions
  policies,    \* feedback_policy_versions with their members
  policy,      \* feedback_policy_state: the active version
  labels,      \* independent_log_labels: of a case and a record
  terms,       \* the cases with rows in independent_label_terms
  routes,      \* retrieval_route_versions
  route        \* retrieval_route_state: the active version

feedback == <<rated, promoted, policies, policy>>
learning == <<labels, terms, routes, route>>
vars == <<index, load, feedback, learning>>

Alike(r) == {s \in Records : Parsed[s] = Parsed[r]}

----------------------------------------------------------------------------
(* Ratings and promotions *)

\* Mutant: earlier versions keep the group.
RateKeepsVersions(r, n, verdict) ==
  /\ load.uses = "feedback" /\ pc = "ready" /\ r \in db.stored
  /\ rated' = Put(rated, <<r, n>>, verdict)
  /\ promoted' = IF verdict = "useful" THEN promoted ELSE promoted \ Alike(r)
  /\ UNCHANGED <<policies, policy, index, load, learning>>

\* record_feedback: a rating replaces the earlier one of the same result, and a
\* negative one takes its group out of the promotions and of every version.
Rate(r, n, verdict) ==
  /\ load.uses = "feedback" /\ pc = "ready" /\ r \in db.stored
  /\ rated' = Put(rated, <<r, n>>, verdict)
  /\ IF verdict = "useful" THEN UNCHANGED <<promoted, policies>>
     ELSE /\ promoted' = promoted \ Alike(r)
          /\ policies' = [v \in DOMAIN policies |->
                           [policies[v] EXCEPT !.members = @ \ Alike(r)]]
  /\ UNCHANGED <<policy, index, load, learning>>

RatedIn(g, verdict) == {k \in DOMAIN rated : Parsed[k[1]] = g /\ rated[k] = verdict}

Eligible ==
  {g \in {Parsed[k[1]] : k \in DOMAIN rated} :
     /\ Cardinality({k[2] : k \in RatedIn(g, "useful")}) >= MinRatings
     /\ RatedIn(g, "not_useful") = {}
     /\ g \notin Found}

\* A promoted group is represented by its least rated record.
Representative(g) == Min({k[1] : k \in {j \in DOMAIN rated : Parsed[j[1]] = g}})

\* promote_feedback: promotions from before there were versions become the first.
\* The query has no order, so that any MaxPromoted of the groups may be taken.
Promote ==
  /\ load.uses = "feedback" /\ pc = "ready"
  /\ Len(policies) < load.versions
  /\ LET legacy == policy = NoVersion /\ promoted # {}
         known == IF legacy THEN <<[parent |-> NoVersion, members |-> promoted]>>
                  ELSE policies
         active == IF legacy THEN 1 ELSE policy
     IN \E G \in SUBSET Eligible :
          /\ Cardinality(G) = Min({MaxPromoted, Cardinality(Eligible)})
          /\ promoted' = {Representative(g) : g \in G}
          /\ policies' = Append(known, [parent |-> active, members |-> promoted'])
          /\ policy' = Len(known) + 1
  /\ UNCHANGED <<rated, index, load, learning>>

\* Mutant: the active version stays.
RollbackKeepsVersion ==
  /\ load.uses = "feedback" /\ pc = "ready"
  /\ policy # NoVersion
  /\ policies[policy].parent # NoVersion
  /\ promoted' = policies[policies[policy].parent].members
  /\ UNCHANGED <<rated, policies, policy, index, load, learning>>

\* rollback_feedback: refused without an active version or a parent.
Rollback ==
  /\ load.uses = "feedback" /\ pc = "ready"
  /\ policy # NoVersion
  /\ policies[policy].parent # NoVersion
  /\ policy' = policies[policy].parent
  /\ promoted' = policies[policy'].members
  /\ UNCHANGED <<rated, policies, index, load, learning>>

----------------------------------------------------------------------------
(* Labels and routes *)

\* Mutant: which records were labelled, but not how.
FingerprintUnsigned ==
  {<<k, "label", Parsed[k[2]]>> : k \in {j \in DOMAIN labels :
                                          labels[j].split = "development"}}

\* learning_fingerprint: the development labels, with the groups of their records.
Fingerprint ==
  {<<k, labels[k].label, Parsed[k[2]]>> : k \in {j \in DOMAIN labels :
                                                 labels[j].split = "development"}}

\* active_route: a route counts while its labels are the ones it was trained on.
Effective ==
  IF /\ route # NoVersion
     /\ routes[route].training = Fingerprint
     /\ routes[route].passed
  THEN route ELSE NoVersion

LearningCommand ==
  /\ load.uses = "route" /\ pc = "ready"
  /\ UNCHANGED <<index, load, feedback>>

\* record_independent_label: a case keeps its split, and the table its size.
Label(c, r, label, split) ==
  /\ LearningCommand
  /\ c \in load.cases /\ r \in db.stored
  /\ \A k \in DOMAIN labels : k[1] = c => labels[k].split = split
  /\ <<c, r>> \in DOMAIN labels \/ Cardinality(DOMAIN labels) < MaxLabels
  /\ labels' = Put(labels, <<c, r>>, [label |-> label, split |-> split])
  /\ terms' = terms \cup {c}
  /\ UNCHANGED <<routes, route>>

\* revoke_learning_evidence
Revoke(r) ==
  /\ LearningCommand
  /\ labels' = [k \in {j \in DOMAIN labels : j[2] # r} |-> labels[k]]
  /\ terms' = {c \in terms : \E k \in DOMAIN labels' : k[1] = c}
  /\ UNCHANGED <<routes, route>>

\* shadow_group_bonus: groups that two cases call relevant and none irrelevant.
CasesFor(g, label) ==
  {k[1] : k \in {j \in DOMAIN labels : /\ Parsed[j[2]] = g
                                        /\ j[1] \in terms
                                        /\ labels[j].split = "development"
                                        /\ labels[j].label = label}}
Bonus ==
  {g \in {Parsed[r] : r \in db.stored} :
     Cardinality(CasesFor(g, "relevant")) >= 2 /\ CasesFor(g, "irrelevant") = {}}

\* register_shadow_route; memory is history, the groups the evaluation favoured.
Register(passed) ==
  /\ LearningCommand
  /\ Len(routes) < load.versions
  /\ routes' = Append(routes, [parent |-> Effective, training |-> Fingerprint,
                               passed |-> passed, status |-> "shadow", memory |-> Bonus])
  /\ UNCHANGED <<labels, terms, route>>

\* Mutant: the route it replaces stays active.
PromoteRouteBeside(v) ==
  /\ LearningCommand
  /\ routes[v].passed
  /\ routes[v].training = Fingerprint
  /\ routes[v].status = "shadow"
  /\ routes[v].parent = Effective
  /\ routes' = [routes EXCEPT ![v].status = "active"]
  /\ route' = v
  /\ UNCHANGED <<labels, terms>>

\* promote_route
PromoteRoute(v) ==
  /\ LearningCommand
  /\ routes[v].passed
  /\ routes[v].training = Fingerprint
  /\ routes[v].status = "shadow"
  /\ routes[v].parent = Effective
  /\ routes' = [w \in DOMAIN routes |->
                 [routes[w] EXCEPT !.status = CASE w = v -> "active"
                                                [] w # v /\ @ = "active" -> "retired"
                                                [] OTHER -> @]]
  /\ route' = v
  /\ UNCHANGED <<labels, terms>>

\* rollback_route
RollbackRoute ==
  /\ LearningCommand
  /\ Effective # NoVersion
  /\ LET parent == routes[route].parent
     IN /\ parent # NoVersion => routes[parent].passed /\ routes[parent].training = Fingerprint
        /\ routes' = [w \in DOMAIN routes |->
                       [routes[w] EXCEPT !.status = CASE w = route -> "retired"
                                                      [] w # route /\ w = parent -> "active"
                                                      [] OTHER -> @]]
        /\ route' = parent
  /\ UNCHANGED <<labels, terms>>

----------------------------------------------------------------------------
(* The specification *)

\* An open, complete corpus of the records of a page.
Opened(page) == Left(page, 6, 2, {"graph", "terms", "services"})

\* Promotions of a program that had no versions have no negative rating.
Init ==
  /\ load \in Workloads
  /\ IF load.uses = "sync" THEN db \in Databases /\ pc = "closed"
     ELSE db = Opened(load.stored) /\ pc = "ready"
  /\ promoted \in IF load.uses = "feedback" THEN SUBSET Range(load.stored) ELSE {{}}
  /\ cursor = 0
  /\ rated = <<>> /\ policies = <<>> /\ policy = NoVersion
  /\ labels = <<>> /\ terms = {} /\ routes = <<>> /\ route = NoVersion

IndexStep == load.uses = "sync" /\ IndexNext /\ UNCHANGED <<load, feedback, learning>>

Next ==
  \/ IndexStep
  \/ \E r \in Records, n \in Nonces, verdict \in {"useful", "not_useful"} :
       Rate(r, n, verdict)
  \/ Promote
  \/ Rollback
  \/ \E c \in Cases, r \in Records, label \in {"relevant", "irrelevant"},
        split \in {"development", "held_out"} : Label(c, r, label, split)
  \/ \E r \in Records : Revoke(r)
  \/ \E passed \in BOOLEAN : Register(passed)
  \/ \E v \in DOMAIN routes : PromoteRoute(v)
  \/ RollbackRoute

Spec == Init /\ [][Next]_vars

\* An open goes on until it returns or its process ends.
LiveSpec == Spec /\ WF_vars(load.uses = "sync" /\ Opening /\ UNCHANGED <<load, feedback, learning>>)

----------------------------------------------------------------------------
(* Properties *)

\* Evidence of a group that somebody rated "not useful" is promoted by no version:
\* neither a promotion nor a rollback brings it back, until that rating is itself
\* replaced (record_feedback deletes from every snapshot, promote_feedback skips
\* groups with a negative rating, rollback_feedback restores a snapshot).
RejectedNotPromoted ==
  \A k \in DOMAIN rated : rated[k] = "not_useful" =>
    /\ Alike(k[1]) \cap promoted = {}
    /\ \A v \in DOMAIN policies : Alike(k[1]) \cap policies[v].members = {}

\* What is promoted is exactly the active version: promotions, rollbacks and
\* negative ratings change the two tables alike, so that a rollback followed by a
\* promotion starts from what was in force (feedback_promotions and
\* feedback_policy_members of the active version).
ActiveSnapshot ==
  policy # NoVersion => /\ promoted = policies[policy].members
                        /\ policies[policy].parent < policy

\* One route is active, the one the state names; the routes it goes back to were
\* evaluated on the same labels, passed and have been active.  So a rollback of a
\* route that is in effect finds a parent that it may restore
\* (register_shadow_route, promote_route, rollback_route).
RouteLineage ==
  /\ \A v \in DOMAIN routes :
       /\ routes[v].status = "active" <=> v = route
       /\ LET parent == routes[v].parent
          IN parent # NoVersion =>
               /\ parent < v
               /\ routes[parent].training = routes[v].training
               /\ routes[parent].passed
               /\ routes[parent].status # "shadow"
  /\ route # NoVersion => routes[route].passed

\* The groups that an effective route favours are those it favoured when it was
\* evaluated, however labels were changed, revoked and given again meanwhile
\* (learning_fingerprint and shadow_group_bonus read different rows).
MemoryAsEvaluated == Effective # NoVersion => Bonus = routes[Effective].memory

\* The comment on revoke_learning_evidence: when the labels of a record are revoked,
\* the route that was active before stops applying.
RevokedStopsRoute ==
  [][\A r \in Records :
       Revoke(r) /\ (\E k \in DOMAIN labels : k[2] = r) => Effective' = NoVersion]_vars
==============================================================================
