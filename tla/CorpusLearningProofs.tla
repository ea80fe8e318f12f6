------------------------ MODULE CorpusLearningProofs ------------------------
(***************************************************************************)
(* For any records, cases and bounds: the derived tables are exact after   *)
(* every step, also over what an earlier program or an interrupted open    *)
(* left, and complete when open() returns; a rollback never restores       *)
(* evidence of a rejected group, what is promoted is what the active       *)
(* version says, routes form a lineage, and an effective route favours the *)
(* groups it was evaluated with.                                           *)
(***************************************************************************)
EXTENDS CorpusLearning, FiniteSetTheorems, WellFoundedInduction, TLAPS

\* A leaf that names no prover is given to Zenon
USE ZenonT(60)

\* Min, with which Representative picks a record, is an element of its set.
LEMMA MinIn ==
  ASSUME NEW S \in SUBSET Nat, S # {}
  PROVE Min(S) \in S
<1> DEFINE R == OpToRel(<, Nat)
<1>1. IsWellFoundedOn(R, Nat)
  BY NatLessThanWellFounded
<1>2. PICK x \in S : \A y \in S : ~(<<y, x>> \in R)
  <2> HIDE DEF R
  <2> QED BY <1>1, WFMin
<1>3. \A y \in S : x =< y
  <2> SUFFICES ASSUME NEW y \in S, y < x PROVE FALSE
    BY SMTT(60)
  <2>1. <<y, x>> \in Nat \X Nat /\ <<y, x>>[1] < <<y, x>>[2]
    OBVIOUS
  <2>2. <<y, x>> \in R
    BY <2>1 DEF OpToRel
  <2> QED BY <2>2, <1>2
<1> QED
  BY <1>3 DEF Min

----------------------------------------------------------------------------
(* Ratings, promotions and versions *)

PolicyRows == [parent : Nat, members : SUBSET Records]

FeedbackType ==
  /\ DOMAIN rated \subseteq Records \X Nonces
  /\ promoted \subseteq Records
  /\ policies \in Seq(PolicyRows)
  /\ policy \in 0 .. Len(policies)
  /\ \A v \in DOMAIN policies : policies[v].parent < v

\* A rollback restores any version, not only the active one: the invariants hold of
\* every version, and parents are older.
FeedbackInv == FeedbackType /\ RejectedNotPromoted /\ ActiveSnapshot

\* Versions are numbered from 1, and each is a row.
LEMMA PolicySeq ==
  ASSUME NEW p, p \in Seq(PolicyRows)
  PROVE /\ Len(p) \in Nat /\ DOMAIN p = 1 .. Len(p)
        /\ \A v \in DOMAIN p : p[v] \in PolicyRows
BY SMTT(60)

\* A function on the same numbers is a table of versions again.
LEMMA SeqPolicy ==
  ASSUME NEW n \in Nat, NEW p \in [1 .. n -> PolicyRows]
  PROVE p \in Seq(PolicyRows) /\ Len(p) = n
BY SMTT(60)

\* A promoted record is one of the group it stands for, and nobody rated that group
\* "not_useful" (promote_feedback).
LEMMA EligibleRepresentative ==
  ASSUME FeedbackType, NEW g \in Eligible
  PROVE /\ Representative(g) \in Records
        /\ Parsed[Representative(g)] = g
        /\ \A k \in DOMAIN rated : Parsed[k[1]] = g => rated[k] # "not_useful"
<1> DEFINE S == {k[1] : k \in {j \in DOMAIN rated : Parsed[j[1]] = g}}
<1>1. PICK k \in DOMAIN rated : Parsed[k[1]] = g
  BY DEF Eligible
<1>2. S \subseteq Records /\ S # {}
  BY <1>1 DEF FeedbackType
<1>3. \A r \in S : Parsed[r] = g
  OBVIOUS
<1>4. Min(S) \in S
  BY <1>2, MinIn, RecordsAssumption
<1>5. Representative(g) \in S
  BY <1>4 DEF Representative
<1>6. RatedIn(g, "not_useful") = {}
  BY DEF Eligible
<1> QED
  BY <1>2, <1>3, <1>5, <1>6 DEF RatedIn

\* Nothing is rated at first.
LEMMA FeedbackInit == Init => FeedbackInv
<1> SUFFICES ASSUME Init PROVE FeedbackInv
  OBVIOUS
<1>1. DOMAIN rated = {} /\ policies = <<>> /\ policy = 0
  BY SMTT(60) DEF Init, NoVersion
<1>2. promoted \subseteq Records
  <2>1. /\ load \in Workloads
        /\ promoted \in IF load.uses = "feedback" THEN SUBSET Range(load.stored) ELSE {{}}
    BY DEF Init
  <2>2. load.stored \in Seq(Records)
    BY <2>1, LearningAssumption
  <2>3. Range(load.stored) \subseteq Records
    BY <2>2, SMTT(60) DEF Range
  <2> QED
    BY <2>1, <2>3
<1> QED
  BY <1>1, <1>2, SMTT(60) DEF FeedbackInv, FeedbackType, RejectedNotPromoted, ActiveSnapshot, NoVersion

\* record_feedback keeps the two tables alike and takes the rejected group out of both.
LEMMA FeedbackRate ==
  ASSUME FeedbackInv, NEW r \in Records, NEW n \in Nonces,
         NEW verdict \in {"useful", "not_useful"}, Rate(r, n, verdict)
  PROVE FeedbackInv'
<1> USE DEF FeedbackInv
<1> DEFINE key == <<r, n>>
<1>0. key \in Records \X Nonces /\ key[1] = r
  OBVIOUS
<1>1. /\ DOMAIN rated' = DOMAIN rated \cup {key}
      /\ rated'[key] = verdict
      /\ \A k \in DOMAIN rated : k # key => rated'[k] = rated[k]
  BY DEF Rate, Put
<1> HIDE DEF key
<1>2. CASE verdict = "useful"
  <2>1. UNCHANGED <<promoted, policies, policy>>
    BY <1>2 DEF Rate
  <2>2. FeedbackType'
    BY <1>0, <1>1, <2>1 DEF FeedbackType
  <2>3. RejectedNotPromoted'
    BY <1>1, <1>2, <2>1 DEF RejectedNotPromoted
  <2>4. ActiveSnapshot'
    BY <2>1 DEF ActiveSnapshot
  <2> QED BY <2>2, <2>3, <2>4
<1>3. CASE verdict # "useful"
  <2>1. /\ promoted' = promoted \ Alike(r)
        /\ policies' = [v \in DOMAIN policies |-> [policies[v] EXCEPT !.members = @ \ Alike(r)]]
        /\ policy' = policy
    BY <1>3 DEF Rate
  <2>2. /\ policies' \in Seq(PolicyRows) /\ DOMAIN policies' = DOMAIN policies
        /\ Len(policies') = Len(policies)
        /\ \A v \in DOMAIN policies : /\ policies'[v].members = policies[v].members \ Alike(r)
                                      /\ policies'[v].parent = policies[v].parent
    <3>1. /\ Len(policies) \in Nat /\ DOMAIN policies = 1 .. Len(policies)
          /\ \A v \in DOMAIN policies : policies[v] \in PolicyRows
      BY PolicySeq DEF FeedbackType
    <3>2. /\ DOMAIN policies' = DOMAIN policies
          /\ \A v \in DOMAIN policies :
               /\ policies'[v].members = policies[v].members \ Alike(r)
               /\ policies'[v].parent = policies[v].parent
               /\ policies'[v] \in PolicyRows
      BY <2>1, <3>1 DEF PolicyRows
    <3>3. policies' \in [1 .. Len(policies) -> PolicyRows]
      BY <2>1, <3>1, <3>2
    <3> QED BY <3>1, <3>2, <3>3, SeqPolicy
  <2>3. FeedbackType'
    BY <1>0, <1>1, <2>1, <2>2 DEF FeedbackType
  <2>4. RejectedNotPromoted'
    BY <1>0, <1>1, <2>1, <2>2 DEF RejectedNotPromoted, FeedbackType
  <2>5. ActiveSnapshot'
    <3>1. policy # 0 => policy \in DOMAIN policies
      BY PolicySeq, SMTT(60) DEF FeedbackType
    <3> QED BY <2>1, <2>2, <3>1 DEF ActiveSnapshot, NoVersion
  <2> QED BY <2>3, <2>4, <2>5
<1> QED BY <1>2, <1>3

\* promote_feedback promotes groups that nobody rejected, and the version it makes is
\* what it promotes.
LEMMA FeedbackPromote ==
  ASSUME FeedbackInv, Promote
  PROVE FeedbackInv'
<1> USE DEF FeedbackInv
<1> DEFINE legacy == policy = NoVersion /\ promoted # {}
           known == IF legacy THEN <<[parent |-> NoVersion, members |-> promoted]>> ELSE policies
           active == IF legacy THEN 1 ELSE policy
           row == [parent |-> active, members |-> promoted']
<1>1. PICK G \in SUBSET Eligible : promoted' = {Representative(g) : g \in G}
  BY DEF Promote
<1>2. policies' = Append(known, row) /\ policy' = Len(known) + 1 /\ rated' = rated
  BY DEF Promote
<1>3. /\ promoted' \subseteq Records
      /\ \A k \in DOMAIN rated : rated[k] = "not_useful" => Alike(k[1]) \cap promoted' = {}
  BY <1>1, EligibleRepresentative, SMTT(60) DEF Alike
<1>4. /\ known \in Seq(PolicyRows) /\ active \in 0 .. Len(known)
      /\ \A v \in DOMAIN known :
           /\ known[v].parent < v
           /\ \A k \in DOMAIN rated :
                rated[k] = "not_useful" => Alike(k[1]) \cap known[v].members = {}
  <2>1. CASE legacy
    <3> DEFINE first == [parent |-> NoVersion, members |-> promoted]
    <3>1. first \in PolicyRows /\ first.parent = 0 /\ first.members = promoted
      BY DEF PolicyRows, FeedbackType, NoVersion
    <3> HIDE DEF first
    <3>2. /\ <<first>> \in Seq(PolicyRows) /\ Len(<<first>>) = 1
          /\ DOMAIN <<first>> = {1} /\ <<first>>[1] = first
      BY <3>1, SMTT(60)
    <3>3. known = <<first>> /\ active = 1
      BY <2>1 DEF first
    <3> HIDE DEF known, active
    <3> QED BY <3>1, <3>2, <3>3, SMTT(60) DEF RejectedNotPromoted
  <2>2. CASE ~legacy
    BY <2>2 DEF FeedbackType, RejectedNotPromoted
  <2> QED BY <2>1, <2>2
<1>5. row \in PolicyRows /\ row.parent = active /\ row.members = promoted'
  BY <1>3, <1>4, PolicySeq, SMTT(60) DEF PolicyRows
<1> HIDE DEF known, active, row
<1>6. /\ policies' \in Seq(PolicyRows) /\ Len(policies') = Len(known) + 1
      /\ DOMAIN policies' = DOMAIN known \cup {Len(known) + 1}
      /\ \A v \in DOMAIN known : policies'[v] = known[v]
      /\ policies'[Len(known) + 1] = row
      /\ Len(known) \in Nat
  BY <1>2, <1>4, <1>5, SMTT(60)
<1>7. FeedbackType'
  BY <1>2, <1>3, <1>4, <1>5, <1>6, SMTT(60) DEF FeedbackType
<1>8. RejectedNotPromoted'
  BY <1>2, <1>3, <1>4, <1>5, <1>6 DEF RejectedNotPromoted
<1>9. ActiveSnapshot'
  BY <1>2, <1>4, <1>5, <1>6, SMTT(60) DEF ActiveSnapshot
<1> QED BY <1>7, <1>8, <1>9

\* rollback_feedback makes the promotions those of the version it goes back to.
LEMMA FeedbackRollback ==
  ASSUME FeedbackInv, Rollback
  PROVE FeedbackInv'
<1> USE DEF FeedbackInv
<1>1. /\ policy \in DOMAIN policies /\ policies[policy].parent \in Nat
      /\ policies[policy].parent # 0 /\ policies[policy].parent < policy
  <2>1. policy \in DOMAIN policies /\ policies[policy] \in PolicyRows
    BY PolicySeq, SMTT(60) DEF Rollback, FeedbackType, NoVersion
  <2> QED BY <2>1 DEF Rollback, FeedbackType, PolicyRows, NoVersion
<1>2. /\ policy' = policies[policy].parent /\ policy' \in DOMAIN policies
      /\ policy' \in 0 .. Len(policies)
  BY <1>1, PolicySeq, SMTT(60) DEF Rollback, FeedbackType
<1>3. /\ promoted' = policies[policy'].members /\ promoted' \subseteq Records
      /\ UNCHANGED <<rated, policies>>
  BY <1>2, PolicySeq DEF Rollback, FeedbackType, PolicyRows
<1>4. FeedbackType'
  BY <1>2, <1>3 DEF FeedbackType
<1>5. RejectedNotPromoted'
  BY <1>2, <1>3 DEF RejectedNotPromoted
<1>6. ActiveSnapshot'
  BY <1>2, <1>3 DEF ActiveSnapshot, FeedbackType
<1> QED BY <1>4, <1>5, <1>6

\* Index steps and route commands leave these tables alone.
LEMMA FeedbackNext == FeedbackInv /\ [Next]_vars => FeedbackInv'
<1> SUFFICES ASSUME FeedbackInv, [Next]_vars PROVE FeedbackInv'
  OBVIOUS
<1>1. ASSUME UNCHANGED feedback PROVE FeedbackInv'
  BY <1>1 DEF FeedbackInv, FeedbackType, RejectedNotPromoted, ActiveSnapshot, feedback
<1>2. CASE IndexStep
  BY <1>1, <1>2 DEF IndexStep
<1>3. ASSUME NEW r \in Records, NEW n \in Nonces, NEW verdict \in {"useful", "not_useful"},
             Rate(r, n, verdict)
      PROVE FeedbackInv'
  BY <1>3, FeedbackRate
<1>4. CASE Promote
  BY <1>4, FeedbackPromote
<1>5. CASE Rollback
  BY <1>5, FeedbackRollback
<1>6. CASE LearningCommand
  BY <1>1, <1>6 DEF LearningCommand
<1>7. CASE UNCHANGED vars
  BY <1>1, <1>7 DEF vars
<1> QED
  BY <1>2, <1>3, <1>4, <1>5, <1>6, <1>7
     DEF Next, Label, Revoke, Register, PromoteRoute, RollbackRoute

\* For every task, corpus and sequence of ratings, promotions and rollbacks: evidence of
\* a group that somebody rated "not useful" is in no version (record_feedback,
\* promote_feedback, rollback_feedback).
THEOREM RejectedStaysOut == Spec => []RejectedNotPromoted
<1>1. FeedbackInv => RejectedNotPromoted
  BY DEF FeedbackInv
<1> QED
  BY <1>1, FeedbackInit, FeedbackNext, PTL DEF Spec

\* The promotions in force are those of the active version, whose parent is older.
THEOREM SnapshotInForce == Spec => []ActiveSnapshot
<1>1. FeedbackInv => ActiveSnapshot
  BY DEF FeedbackInv
<1> QED
  BY <1>1, FeedbackInit, FeedbackNext, PTL DEF Spec

----------------------------------------------------------------------------
(* Labels and routes *)

LabelRows == [label : {"relevant", "irrelevant"}, split : {"development", "held_out"}]
RouteRows == [parent : Nat, training : SUBSET ((Cases \X Records) \X {"relevant", "irrelevant"} \X Cards),
              passed : BOOLEAN, status : {"shadow", "active", "retired"}, memory : SUBSET Cards]

\* The groups that a set of labels favours, from the set alone.
CasesOf(training, g, label) ==
  {t[1][1] : t \in {u \in training : u[2] = label /\ u[3] = g}}
MemoryOf(training) ==
  {g \in {t[3] : t \in training} :
     /\ Cardinality(CasesOf(training, g, "relevant")) >= 2
     /\ CasesOf(training, g, "irrelevant") = {}}

\* Labelled records are stored, and only this workload labels any.
LabelInv ==
  /\ DOMAIN labels \subseteq Cases \X Records
  /\ \A k \in DOMAIN labels : labels[k] \in LabelRows /\ k[2] \in db.stored
  /\ terms = {k[1] : k \in DOMAIN labels}
  /\ load.uses = "sync" => DOMAIN labels = {}

RouteType ==
  /\ routes \in Seq(RouteRows)
  /\ route \in 0 .. Len(routes)

\* What a route favoured is a function of the labels it was trained on: together with
\* BonusOfFingerprint this is why an equal fingerprint is enough.
MemoryInv == \A v \in DOMAIN routes : routes[v].memory = MemoryOf(routes[v].training)

RouteInv == LabelInv /\ RouteType /\ RouteLineage /\ MemoryInv

\* Versions are numbered from 1, and each is a row.
LEMMA RouteSeq ==
  ASSUME NEW p, p \in Seq(RouteRows)
  PROVE /\ Len(p) \in Nat /\ DOMAIN p = 1 .. Len(p)
        /\ \A v \in DOMAIN p : p[v] \in RouteRows
BY SMTT(60)

\* A function on the same numbers is a table of routes again.
LEMMA SeqRoute ==
  ASSUME NEW n \in Nat, NEW p \in [1 .. n -> RouteRows]
  PROVE p \in Seq(RouteRows) /\ Len(p) = n
BY SMTT(60)

\* The fingerprint holds what the development labels say of the cases of a group.
LEMMA CasesOfFingerprint ==
  ASSUME LabelInv, NEW g, NEW label
  PROVE CasesFor(g, label) = CasesOf(Fingerprint, g, label)
<1>1. ASSUME NEW c \in CasesFor(g, label)
      PROVE c \in CasesOf(Fingerprint, g, label)
  <2>1. PICK k \in DOMAIN labels : /\ c = k[1] /\ Parsed[k[2]] = g
                                    /\ labels[k].split = "development" /\ labels[k].label = label
    BY DEF CasesFor
  <2> DEFINE t == <<k, labels[k].label, Parsed[k[2]]>>
  <2>2. t \in Fingerprint
    BY <2>1 DEF Fingerprint
  <2>3. t[1] = k /\ t[2] = label /\ t[3] = g
    BY <2>1
  <2> HIDE DEF t
  <2> QED BY <2>1, <2>2, <2>3 DEF CasesOf
<1>2. ASSUME NEW c \in CasesOf(Fingerprint, g, label)
      PROVE c \in CasesFor(g, label)
  <2>1. PICK t \in Fingerprint : c = t[1][1] /\ t[2] = label /\ t[3] = g
    BY DEF CasesOf
  <2>2. PICK k \in DOMAIN labels : labels[k].split = "development"
                                   /\ t = <<k, labels[k].label, Parsed[k[2]]>>
    BY DEF Fingerprint
  <2>3. t[1] = k /\ t[2] = labels[k].label /\ t[3] = Parsed[k[2]]
    BY <2>2
  <2>4. k[1] \in terms
    BY DEF LabelInv
  <2> QED BY <2>1, <2>2, <2>3, <2>4 DEF CasesFor
<1> QED BY <1>1, <1>2

\* shadow_group_bonus computes a function of the fingerprint, although it reads other
\* rows than learning_fingerprint does.
LEMMA BonusOfFingerprint ==
  ASSUME LabelInv
  PROVE Bonus = MemoryOf(Fingerprint)
<1>1. ASSUME NEW g, g \in Bonus PROVE g \in MemoryOf(Fingerprint)
  <2>1. CasesOf(Fingerprint, g, "relevant") # {}
    <3>1. Cardinality(CasesOf(Fingerprint, g, "relevant")) >= 2
      BY <1>1, CasesOfFingerprint DEF Bonus
    <3> QED BY <3>1, FS_EmptySet, SMTT(60)
  <2>2. PICK t \in Fingerprint : t[3] = g
    BY <2>1 DEF CasesOf
  <2> QED BY <1>1, <2>2, CasesOfFingerprint DEF MemoryOf, Bonus
<1>2. ASSUME NEW g, g \in MemoryOf(Fingerprint) PROVE g \in Bonus
  <2>1. PICK t \in Fingerprint : t[3] = g
    BY <1>2 DEF MemoryOf
  <2>2. PICK k \in DOMAIN labels : t = <<k, labels[k].label, Parsed[k[2]]>>
    BY DEF Fingerprint
  <2>3. g = Parsed[k[2]] /\ k[2] \in db.stored
    BY <2>1, <2>2 DEF LabelInv
  <2> QED BY <1>2, <2>3, CasesOfFingerprint DEF MemoryOf, Bonus
<1> QED BY <1>1, <1>2

\* There are no labels and no routes at first.
LEMMA RouteInit == Init => RouteInv
<1> SUFFICES ASSUME Init PROVE RouteInv
  OBVIOUS
<1>1. DOMAIN labels = {} /\ terms = {} /\ routes = <<>> /\ route = 0
  BY SMTT(60) DEF Init, NoVersion
<1> QED
  BY <1>1, SMTT(60) DEF RouteInv, LabelInv, RouteType, RouteLineage, MemoryInv, NoVersion

\* RouteLineage, with what it says of the parent of one version named.
OfLine(rs, v) ==
  rs[v].parent # 0 => /\ rs[v].parent < v
                      /\ rs[rs[v].parent].training = rs[v].training
                      /\ rs[rs[v].parent].passed
                      /\ rs[rs[v].parent].status # "shadow"
Lineage(rs, current) ==
  /\ \A v \in DOMAIN rs : (rs[v].status = "active" <=> v = current) /\ OfLine(rs, v)
  /\ current # 0 => rs[current].passed

\* The invariant and its named form are the same.
LEMMA LineageParts == (RouteLineage <=> Lineage(routes, route))
                      /\ (RouteLineage' <=> Lineage(routes', route'))
BY DEF RouteLineage, Lineage, OfLine, NoVersion

\* A parent is a version of the table.
LEMMA RouteParent ==
  ASSUME RouteType, NEW v \in DOMAIN routes, OfLine(routes, v), routes[v].parent # 0
  PROVE routes[v].parent \in DOMAIN routes /\ routes[v].parent # v
<1>1. /\ Len(routes) \in Nat /\ DOMAIN routes = 1 .. Len(routes) /\ routes[v] \in RouteRows
  BY RouteSeq DEF RouteType
<1>2. routes[v].parent \in Nat
  BY <1>1 DEF RouteRows
<1> QED BY <1>1, <1>2, SMTT(60) DEF OfLine

\* Steps that leave routes alone keep what is known of them.
LEMMA RoutesKept ==
  ASSUME RouteInv, LabelInv', UNCHANGED <<routes, route>>
  PROVE RouteInv'
BY DEF RouteInv, RouteType, RouteLineage, MemoryInv

\* record_independent_label labels a stored record.
LEMMA LabelStep ==
  ASSUME RouteInv, NEW c \in Cases, NEW r \in Records, NEW label \in {"relevant", "irrelevant"},
         NEW split \in {"development", "held_out"}, Label(c, r, label, split)
  PROVE RouteInv'
<1> DEFINE key == <<c, r>>
           row == [label |-> label, split |-> split]
<1>1. key \in Cases \X Records /\ key[1] = c /\ key[2] = r /\ row \in LabelRows
  BY DEF LabelRows
<1>2. /\ DOMAIN labels' = DOMAIN labels \cup {key}
      /\ labels'[key] = row
      /\ \A k \in DOMAIN labels : k # key => labels'[k] = labels[k]
  BY DEF Label, Put
<1>3. /\ r \in db.stored /\ db' = db /\ load' = load /\ load.uses = "route"
      /\ terms' = terms \cup {c} /\ UNCHANGED <<routes, route>>
  BY DEF Label, LearningCommand, index
<1> HIDE DEF key, row
<1>4. \A k \in DOMAIN labels' : labels'[k] \in LabelRows /\ k[2] \in db'.stored
  BY <1>1, <1>2, <1>3 DEF RouteInv, LabelInv
<1>5. terms' = {k[1] : k \in DOMAIN labels'}
  BY <1>1, <1>2, <1>3 DEF RouteInv, LabelInv
<1>6. LabelInv'
  BY <1>1, <1>2, <1>3, <1>4, <1>5 DEF RouteInv, LabelInv
<1> QED BY <1>3, <1>6, RoutesKept

\* revoke_learning_evidence removes the labels of a record and the cases left without
\* any.
LEMMA RevokeStep ==
  ASSUME RouteInv, NEW r \in Records, Revoke(r)
  PROVE RouteInv'
<1>1. /\ DOMAIN labels' = {j \in DOMAIN labels : j[2] # r}
      /\ \A k \in DOMAIN labels' : labels'[k] = labels[k]
      /\ terms' = {c \in terms : \E k \in DOMAIN labels' : k[1] = c}
      /\ db' = db /\ load' = load /\ UNCHANGED <<routes, route>>
  BY DEF Revoke, LearningCommand, index
<1>2. terms' = {k[1] : k \in DOMAIN labels'}
  BY <1>1 DEF RouteInv, LabelInv
<1>3. LabelInv'
  BY <1>1, <1>2 DEF RouteInv, LabelInv
<1> QED BY <1>1, <1>3, RoutesKept

\* register_shadow_route makes a route whose parent is the one in effect.
LEMMA RegisterStep ==
  ASSUME RouteInv, NEW passed \in BOOLEAN, Register(passed)
  PROVE RouteInv'
<1> DEFINE row == [parent |-> Effective, training |-> Fingerprint, passed |-> passed,
                   status |-> "shadow", memory |-> Bonus]
<1>1. /\ routes' = Append(routes, row) /\ route' = route
      /\ UNCHANGED <<labels, terms, load, db>>
  BY DEF Register, LearningCommand, index
<1>2. /\ Len(routes) \in Nat /\ DOMAIN routes = 1 .. Len(routes)
      /\ route \in 0 .. Len(routes)
  BY RouteSeq DEF RouteInv, RouteType
<1>3. /\ Effective \in {0, route}
      /\ Effective # 0 => routes[route].training = Fingerprint /\ routes[route].passed
  BY DEF Effective, NoVersion
<1>4. Fingerprint \in SUBSET ((Cases \X Records) \X {"relevant", "irrelevant"} \X Cards)
  <2>1. \A r \in Records : Parsed[r] \in Cards
    BY RecordsAssumption
  <2>2. /\ DOMAIN labels \subseteq Cases \X Records
        /\ \A k \in DOMAIN labels : labels[k].label \in {"relevant", "irrelevant"}
    BY DEF RouteInv, LabelInv, LabelRows
  <2> QED
    BY <2>1, <2>2, SMTT(60) DEF Fingerprint
<1>5. Bonus = MemoryOf(Fingerprint) /\ Bonus \in SUBSET Cards
  BY <1>4, BonusOfFingerprint DEF RouteInv, MemoryOf
<1>6. /\ row \in RouteRows /\ row.parent = Effective /\ row.training = Fingerprint
      /\ row.status = "shadow" /\ row.memory = MemoryOf(row.training)
  BY <1>2, <1>3, <1>4, <1>5, SMTT(60) DEF RouteRows
<1> HIDE DEF row
<1>7. /\ routes' \in Seq(RouteRows) /\ Len(routes') = Len(routes) + 1
      /\ DOMAIN routes' = DOMAIN routes \cup {Len(routes) + 1}
      /\ \A v \in DOMAIN routes : routes'[v] = routes[v]
      /\ routes'[Len(routes) + 1] = row
  BY <1>1, <1>2, <1>6, SMTT(60) DEF RouteInv, RouteType
<1>8. LabelInv'
  BY <1>1 DEF RouteInv, LabelInv
<1>9. RouteType' /\ MemoryInv'
  BY <1>1, <1>2, <1>6, <1>7, SMTT(60) DEF RouteInv, RouteType, MemoryInv
<1>10. RouteLineage'
  <2>1. ASSUME NEW v \in DOMAIN routes
        PROVE (routes'[v].status = "active" <=> v = route') /\ OfLine(routes', v)
    <3>1. /\ routes'[v] = routes[v] /\ OfLine(routes, v)
          /\ routes[v].status = "active" <=> v = route
      BY <1>7, LineageParts DEF RouteInv, Lineage
    <3>2. routes[v].parent # 0 =>
            routes[v].parent \in DOMAIN routes /\ routes'[routes[v].parent] = routes[routes[v].parent]
      BY <1>2, <1>7, <3>1, RouteParent DEF RouteInv
    <3> QED BY <1>1, <3>1, <3>2 DEF OfLine
  <2>2. row.status # "active" /\ Len(routes) + 1 # route'
    BY <1>1, <1>2, <1>6, SMTT(60)
  <2>3. OfLine(routes', Len(routes) + 1)
    <3>1. Effective # 0 => /\ Effective = route /\ route \in DOMAIN routes
                           /\ routes'[route] = routes[route] /\ routes[route].status = "active"
      BY <1>2, <1>3, <1>7, LineageParts, SMTT(60) DEF RouteInv, Lineage
    <3> QED BY <1>2, <1>3, <1>6, <1>7, <3>1, SMTT(60) DEF OfLine
  <2>4. route' # 0 => routes'[route'].passed
    BY <1>1, <1>2, <1>7, LineageParts, SMTT(60) DEF RouteInv, Lineage
  <2> QED BY <1>7, <2>1, <2>2, <2>3, <2>4, LineageParts DEF Lineage
<1> QED BY <1>8, <1>9, <1>10 DEF RouteInv

\* What promote_route and rollback_route have in common: only statuses change, none back
\* to "shadow", and the active one is the one that the state names.
Relabels ==
  /\ UNCHANGED <<labels, terms, load, db>>
  /\ DOMAIN routes' = DOMAIN routes
  /\ \A w \in DOMAIN routes :
       /\ routes'[w] = [routes[w] EXCEPT !.status = routes'[w].status]
       /\ routes'[w].status \in {"shadow", "active", "retired"}
       /\ routes'[w].status = "shadow" => routes[w].status = "shadow"
       /\ routes'[w].status = "active" <=> w = route'
  /\ routes' = [w \in DOMAIN routes |-> routes'[w]]
  /\ route' \in 0 .. Len(routes)
  /\ route' # 0 => routes[route'].passed

\* Such a step keeps the lineage.
LEMMA RelabelsStep ==
  ASSUME RouteInv, Relabels
  PROVE RouteInv'
<1>1. /\ Len(routes) \in Nat /\ DOMAIN routes = 1 .. Len(routes)
      /\ \A v \in DOMAIN routes : routes[v] \in RouteRows
  BY RouteSeq DEF RouteInv, RouteType
<1>2. ASSUME NEW w \in DOMAIN routes
      PROVE /\ routes'[w] \in RouteRows
            /\ routes'[w].parent = routes[w].parent /\ routes'[w].training = routes[w].training
            /\ routes'[w].passed = routes[w].passed /\ routes'[w].memory = routes[w].memory
  <2> DEFINE status == routes'[w].status
  <2>1. /\ routes'[w] = [routes[w] EXCEPT !.status = status]
        /\ status \in {"shadow", "active", "retired"}
    BY DEF Relabels
  <2> HIDE DEF status
  <2> QED BY <1>1, <2>1 DEF RouteRows
<1>3. routes' \in [1 .. Len(routes) -> RouteRows]
  BY <1>1, <1>2 DEF Relabels
<1>4. routes' \in Seq(RouteRows) /\ Len(routes') = Len(routes)
  BY <1>1, <1>3, SeqRoute
<1>5. LabelInv' /\ RouteType' /\ MemoryInv'
  BY <1>2, <1>4, SMTT(60) DEF RouteInv, LabelInv, RouteType, MemoryInv, Relabels
<1>6. ASSUME NEW v \in DOMAIN routes PROVE OfLine(routes', v)
  <2>1. OfLine(routes, v)
    BY LineageParts DEF RouteInv, Lineage
  <2>2. routes[v].parent # 0 => routes[v].parent \in DOMAIN routes
    BY <2>1, RouteParent DEF RouteInv
  <2> QED BY <1>2, <2>1, <2>2, SMTT(60) DEF OfLine, Relabels
<1>7. route' # 0 => routes'[route'].passed
  BY <1>1, <1>2, SMTT(60) DEF Relabels
<1>8. Lineage(routes', route')
  BY <1>6, <1>7 DEF Lineage, Relabels
<1> QED BY <1>5, <1>8, LineageParts DEF RouteInv

\* promote_route retires the route that was active.
LEMMA PromoteRouteStep ==
  ASSUME RouteInv, NEW v \in DOMAIN routes, PromoteRoute(v)
  PROVE RouteInv'
<1>1. /\ Len(routes) \in Nat /\ DOMAIN routes = 1 .. Len(routes)
      /\ \A w \in DOMAIN routes : routes[w] \in RouteRows
  BY RouteSeq DEF RouteInv, RouteType
<1>2. ASSUME NEW w \in DOMAIN routes
      PROVE /\ routes'[w] = [routes[w] EXCEPT !.status = routes'[w].status]
            /\ routes'[w].status = IF w = v THEN "active"
                                   ELSE IF routes[w].status = "active" THEN "retired"
                                   ELSE routes[w].status
            /\ routes[w].status \in {"shadow", "active", "retired"}
  BY <1>1 DEF PromoteRoute, RouteRows
<1>3. /\ DOMAIN routes' = DOMAIN routes /\ routes' = [w \in DOMAIN routes |-> routes'[w]]
      /\ route' = v /\ routes[v].passed /\ UNCHANGED <<labels, terms, load, db>>
  BY DEF PromoteRoute, LearningCommand, index
<1>4. Relabels
  BY <1>1, <1>2, <1>3, SMTT(60) DEF Relabels
<1> QED BY <1>4, RelabelsStep

\* rollback_route goes back to the parent, which RouteLineage says has passed.
LEMMA RollbackRouteStep ==
  ASSUME RouteInv, RollbackRoute
  PROVE RouteInv'
<1> DEFINE parent == routes[route].parent
<1>1. /\ Len(routes) \in Nat /\ DOMAIN routes = 1 .. Len(routes)
      /\ \A w \in DOMAIN routes : routes[w] \in RouteRows
  BY RouteSeq DEF RouteInv, RouteType
<1>2. route \in DOMAIN routes
  BY <1>1, SMTT(60) DEF RollbackRoute, Effective, NoVersion, RouteInv, RouteType
<1>3. OfLine(routes, route) /\ \A w \in DOMAIN routes : routes[w].status = "active" <=> w = route
  BY <1>2, LineageParts DEF RouteInv, Lineage
<1>4. parent # 0 => parent \in DOMAIN routes /\ parent # route /\ routes[parent].passed
  BY <1>2, <1>3, RouteParent DEF RouteInv, OfLine
<1>5. ASSUME NEW w \in DOMAIN routes
      PROVE /\ routes'[w] = [routes[w] EXCEPT !.status = routes'[w].status]
            /\ routes'[w].status = IF w = route THEN "retired"
                                   ELSE IF w = parent THEN "active" ELSE routes[w].status
            /\ routes[w].status \in {"shadow", "active", "retired"}
  BY <1>1 DEF RollbackRoute, RouteRows
<1>6. /\ DOMAIN routes' = DOMAIN routes /\ routes' = [w \in DOMAIN routes |-> routes'[w]]
      /\ route' = parent /\ UNCHANGED <<labels, terms, load, db>>
  BY DEF RollbackRoute, LearningCommand, index
<1>7. parent \in 0 .. Len(routes)
  BY <1>1, <1>2, <1>4, SMTT(60)
<1> HIDE DEF parent
<1>8. Relabels
  BY <1>1, <1>2, <1>3, <1>4, <1>5, <1>6, <1>7, SMTT(60) DEF Relabels
<1> QED BY <1>8, RelabelsStep

\* A corpus that is synced has no labels; ratings leave labels and routes alone.
LEMMA RouteNext == RouteInv /\ [Next]_vars => RouteInv'
<1> SUFFICES ASSUME RouteInv, [Next]_vars PROVE RouteInv'
  OBVIOUS
<1>1. CASE IndexStep
  <2>1. load.uses = "sync" /\ UNCHANGED <<load, labels, terms, routes, route>>
    BY <1>1 DEF IndexStep, learning
  <2>2. LabelInv'
    BY <2>1 DEF RouteInv, LabelInv
  <2> QED BY <2>1, <2>2, RoutesKept
<1>2. ASSUME UNCHANGED <<index, load, learning>> PROVE RouteInv'
  <2>1. UNCHANGED <<db, load, labels, terms, routes, route>>
    BY <1>2 DEF index, learning
  <2>2. LabelInv'
    BY <2>1 DEF RouteInv, LabelInv
  <2> QED BY <2>1, <2>2, RoutesKept
<1>3. ASSUME NEW r \in Records, NEW n \in Nonces, NEW verdict \in {"useful", "not_useful"},
             Rate(r, n, verdict)
      PROVE RouteInv'
  BY <1>2, <1>3 DEF Rate
<1>4. CASE Promote
  BY <1>2, <1>4 DEF Promote
<1>5. CASE Rollback
  BY <1>2, <1>5 DEF Rollback
<1>6. CASE UNCHANGED vars
  BY <1>2, <1>6 DEF vars
<1> QED
  BY <1>1, <1>3, <1>4, <1>5, <1>6, SMTT(60),
     LabelStep, RevokeStep, RegisterStep, PromoteRouteStep, RollbackRouteStep DEF Next

\* For all cases, labels and routes: one route is active, and those it goes back to were
\* evaluated on the same labels, passed and have been active (register_shadow_route,
\* promote_route, rollback_route).
THEOREM RoutesFormALineage == Spec => []RouteLineage
<1>1. RouteInv => RouteLineage
  BY DEF RouteInv
<1> QED
  BY <1>1, RouteInit, RouteNext, PTL DEF Spec

\* An effective route favours exactly the groups it favoured when it was evaluated:
\* comparing fingerprints is enough (active_route, learning_fingerprint,
\* shadow_group_bonus).
THEOREM EffectiveAsEvaluated == Spec => []MemoryAsEvaluated
<1>1. RouteInv => MemoryAsEvaluated
  <2> SUFFICES ASSUME RouteInv, Effective # NoVersion
               PROVE Bonus = routes[Effective].memory
    BY DEF MemoryAsEvaluated
  <2>1. Effective = route /\ route # 0 /\ routes[route].training = Fingerprint
    BY DEF Effective, NoVersion
  <2>2. route \in DOMAIN routes
    BY <2>1, RouteSeq, SMTT(60) DEF RouteInv, RouteType
  <2> QED BY <2>1, <2>2, BonusOfFingerprint DEF RouteInv, MemoryInv
<1> QED
  BY <1>1, RouteInit, RouteNext, PTL DEF Spec

----------------------------------------------------------------------------
(* The tables of the log groups and of the service graph *)

\* A row of log_groups or service_edges
Rows(K) == [key : K, count : Nat, first : Records, last : Records]

\* The table has one row for every key of the records M, and states them exactly
TableOf(t, K, key, M) ==
  /\ t \in Seq(Rows(K)) /\ Distinct(t)
  /\ \A i \in DOMAIN t : Exact(t[i], {r \in M : key[r] = t[i].key})
  /\ \A r \in M : \E i \in DOMAIN t : t[i].key = key[r]

\* (event_timestamp_millis, native_id) is a total order of the records.
LEMMA BeforeOrder ==
  \A r, s, u \in Records :
    /\ ~Before(r, r)
    /\ Before(r, s) \/ r = s \/ Before(s, r)
    /\ ~(Before(r, s) /\ Before(s, r))
    /\ Before(r, s) /\ Before(s, u) => Before(r, u)
<1>1. Records \subseteq Nat /\ Time \in [Records -> Nat]
  BY RecordsAssumption
<1> QED
  BY <1>1, SMTT(60) DEF Before

\* A row that counts one more record is exact again.
LEMMA CountedExact ==
  ASSUME NEW K, NEW row \in Rows(K), NEW S \in SUBSET Records, IsFiniteSet(S),
         NEW r \in Records \ S, Exact(row, S)
  PROVE  /\ Counted(row, r) \in Rows(K) /\ Counted(row, r).key = row.key
         /\ Exact(Counted(row, r), S \cup {r})
<1>1. /\ row.key \in K /\ row.count \in Nat /\ row.first \in Records /\ row.last \in Records
  BY DEF Rows
<1>2. /\ Counted(row, r).key = row.key /\ Counted(row, r).count = row.count + 1
      /\ Counted(row, r).first = Earlier(r, row.first)
      /\ Counted(row, r).last = Later(r, row.last)
  BY DEF Counted, Rows
<1>3. row.count + 1 \in Nat /\ Earlier(r, row.first) \in Records /\ Later(r, row.last) \in Records
  BY <1>1, SMTT(60) DEF Earlier, Later
<1>4. Cardinality(S \cup {r}) = row.count + 1
  BY FS_AddElement DEF Exact
<1>5. /\ Earlier(r, row.first) \in S \cup {r}
      /\ \A x \in S \cup {r} : ~Before(x, Earlier(r, row.first))
  BY <1>1, BeforeOrder DEF Exact, Earlier
<1>6. /\ Later(r, row.last) \in S \cup {r}
      /\ \A x \in S \cup {r} : ~Before(Later(r, row.last), x)
  BY <1>1, BeforeOrder DEF Exact, Later
<1>7. Counted(row, r) \in Rows(K)
  <2> DEFINE c == row.count + 1
             a == Earlier(r, row.first)
             b == Later(r, row.last)
  <2>1. Counted(row, r) = [row EXCEPT !.count = c, !.first = a, !.last = b]
    BY DEF Counted
  <2>2. c \in Nat /\ a \in Records /\ b \in Records
    BY <1>3
  <2> HIDE DEF a, b, c
  <2> QED
    BY <2>1, <2>2 DEF Rows
<1> QED
  BY <1>2, <1>4, <1>5, <1>6, <1>7 DEF Exact

\* The row of one record is exact.
LEMMA SingleExact ==
  ASSUME NEW K, NEW k \in K, NEW r \in Records
  PROVE  /\ Single(k, r) \in Rows(K) /\ Single(k, r).key = k
         /\ Single(k, r).first = r /\ Single(k, r).last = r
         /\ Exact(Single(k, r), {r})
<1>1. /\ Single(k, r).key = k /\ Single(k, r).count = 1 /\ Single(k, r).first = r
      /\ Single(k, r).last = r
  BY DEF Single
<1>2. Cardinality({r}) = 1 /\ 1 \in Nat
  BY FS_Singleton, SMTT(60)
<1>3. ~Before(r, r)
  BY BeforeOrder
<1>4. Single(k, r) \in Rows(K)
  BY <1>2 DEF Single, Rows
<1> QED
  BY <1>1, <1>2, <1>3, <1>4 DEF Exact

\* A row is upserted for the record: a new one, or one that counts it
Upserted(t, K, key, M, r) ==
  LET u == Upsert(t, key[r], r)
      new == Positions(t, key[r]) = {}
      id == CHOOSE i \in Positions(u, key[r]) : TRUE
  IN /\ TableOf(u, K, key, M \cup {r})
     /\ id \in DOMAIN u /\ u[id].key = key[r]
     /\ new => /\ id = Len(t) + 1 /\ Len(u) = Len(t) + 1
               /\ u[id].first = r /\ u[id].last = r
     /\ ~new => /\ id \in DOMAIN t /\ Len(u) = Len(t) /\ u[id] = Counted(t[id], r)
                /\ t[id].key = key[r]
     /\ \A i \in DOMAIN t : i # id => u[i] = t[i]

\* A record that is counted in a table (upserts of log_groups and service_edges).
LEMMA UpsertTable ==
  ASSUME NEW K, NEW key, \A x \in Records : key[x] \in K,
         NEW M \in SUBSET Records, IsFiniteSet(M), NEW r \in Records \ M,
         NEW t, TableOf(t, K, key, M)
  PROVE  Upserted(t, K, key, M, r)
<1> DEFINE k == key[r]
           P == Positions(t, k)
           u == Upsert(t, k, r)
           id == CHOOSE i \in Positions(u, k) : TRUE
           n == Len(t)
           Of(q, c) == {x \in q : key[x] = c}
<1>0. k \in K
  OBVIOUS
<1>1. /\ t \in Seq(Rows(K)) /\ n \in Nat /\ DOMAIN t = 1 .. n
      /\ \A i \in 1 .. n : t[i] \in Rows(K)
  BY SMTT(60) DEF TableOf
<1>2. /\ Distinct(t) /\ \A i \in DOMAIN t : Exact(t[i], Of(M, t[i].key))
      /\ \A x \in M : \E i \in DOMAIN t : t[i].key = key[x]
  BY DEF TableOf
<1>3. P = {i \in DOMAIN t : t[i].key = k}
  BY DEF Positions
<1>4. SUFFICES /\ TableOf(u, K, key, M \cup {r})
               /\ id \in DOMAIN u /\ u[id].key = k
               /\ P = {} => /\ id = n + 1 /\ Len(u) = n + 1
                            /\ u[id].first = r /\ u[id].last = r
               /\ P # {} => /\ id \in DOMAIN t /\ Len(u) = n /\ u[id] = Counted(t[id], r)
                            /\ t[id].key = k
               /\ \A i \in DOMAIN t : i # id => u[i] = t[i]
  BY DEF Upserted
<1>5. ASSUME NEW p \in DOMAIN u, u[p].key = k, Distinct(u) PROVE id = p
  BY <1>5 DEF Positions, Distinct
<1>6. CASE P = {}
  <2> DEFINE row == Single(k, r)
  <2>1. u = Append(t, row) /\ \A i \in DOMAIN t : t[i].key # k
    BY <1>3, <1>6 DEF Upsert
  <2>2. row \in Rows(K) /\ row.key = k /\ row.first = r /\ row.last = r /\ Exact(row, {r})
    BY <1>0, SingleExact
  <2> HIDE DEF u, row, k, P, Of
  <2>3. /\ u \in Seq(Rows(K)) /\ Len(u) = n + 1 /\ DOMAIN u = DOMAIN t \cup {n + 1}
        /\ n + 1 \notin DOMAIN t /\ u[n + 1] = row /\ \A i \in DOMAIN t : u[i] = t[i]
    BY <1>1, <2>1, <2>2, SMTT(60)
  <2>4. Distinct(u)
    <3>1. ASSUME NEW i \in DOMAIN u, NEW j \in DOMAIN u, u[i].key = u[j].key PROVE i = j
      <4>1. CASE i \in DOMAIN t /\ j \in DOMAIN t
        BY <1>2, <2>3, <3>1, <4>1 DEF Distinct
      <4>2. CASE i = n + 1 \/ j = n + 1
        BY <2>1, <2>2, <2>3, <3>1, <4>2
      <4> QED
        BY <2>3, <4>1, <4>2
    <3> QED
      BY <3>1 DEF Distinct
  <2>5. \A i \in DOMAIN u : Exact(u[i], Of(M \cup {r}, u[i].key))
    <3>1. \A i \in DOMAIN t : Of(M \cup {r}, t[i].key) = Of(M, t[i].key)
      BY <2>1 DEF Of, k
    <3>2. Of(M \cup {r}, k) = {r}
      BY <1>2, <2>1 DEF Of, k
    <3> QED
      BY <1>2, <2>2, <2>3, <3>1, <3>2
  <2>6. \A x \in M \cup {r} : \E i \in DOMAIN u : u[i].key = key[x]
    <3>1. n + 1 \in DOMAIN u /\ u[n + 1].key = key[r]
      BY <2>2, <2>3 DEF k
    <3>2. \A x \in M : \E i \in DOMAIN u : u[i].key = key[x]
      BY <1>2, <2>3
    <3> QED
      BY <3>1, <3>2
  <2>7. TableOf(u, K, key, M \cup {r})
    BY <2>3, <2>4, <2>5, <2>6 DEF TableOf, Of
  <2>8. id = n + 1
    BY <1>5, <2>2, <2>3, <2>4
  <2> QED
    BY <1>6, <2>2, <2>3, <2>7, <2>8
<1>7. CASE P # {}
  <2> DEFINE p == CHOOSE i \in P : TRUE
             row == Counted(t[p], r)
  <2>1. u = [t EXCEPT ![p] = row] /\ p \in DOMAIN t /\ t[p].key = k
    BY <1>3, <1>7 DEF Upsert
  <2>2. Exact(t[p], Of(M, k)) /\ Of(M, k) \in SUBSET Records /\ r \notin Of(M, k)
    <3>1. Of(M, k) \in SUBSET Records /\ r \notin Of(M, k)
      OBVIOUS
    <3>2. Exact(t[p], Of(M, t[p].key))
      <4> HIDE DEF Of, p
      <4> QED BY <1>2, <2>1
    <3> QED
      BY <2>1, <3>1, <3>2
  <2>3. IsFiniteSet(Of(M, k))
    BY FS_Subset
  <2>4. t[p] \in Rows(K)
    BY <1>1, <2>1
  <2> HIDE DEF u, p, k, P, Of
  <2>5. row \in Rows(K) /\ row.key = k /\ Exact(row, Of(M, k) \cup {r})
    BY <2>1, <2>2, <2>3, <2>4, CountedExact
  <2> HIDE DEF row
  <2>6. /\ u \in Seq(Rows(K)) /\ Len(u) = n /\ DOMAIN u = DOMAIN t /\ u[p] = row
        /\ \A i \in DOMAIN t : i # p => u[i] = t[i]
    BY <1>1, <2>1, <2>5, SMTT(60)
  <2>7. \A i \in DOMAIN t : u[i].key = t[i].key
    BY <2>1, <2>5, <2>6
  <2>8. Distinct(u)
    BY <1>2, <2>6, <2>7 DEF Distinct
  <2>9. \A i \in DOMAIN u : Exact(u[i], Of(M \cup {r}, u[i].key))
    <3>1. Of(M \cup {r}, k) = Of(M, k) \cup {r}
      BY DEF Of, k
    <3>2. ASSUME NEW i \in DOMAIN t, i # p PROVE Of(M \cup {r}, t[i].key) = Of(M, t[i].key)
      <4>1. t[i].key # k
        BY <1>2, <2>1, <3>2 DEF Distinct
      <4> QED
        BY <4>1 DEF Of, k
    <3> QED
      BY <1>2, <2>1, <2>5, <2>6, <2>7, <3>1, <3>2
  <2>10. \A x \in M \cup {r} : \E i \in DOMAIN u : u[i].key = key[x]
    BY <1>2, <2>1, <2>6, <2>7 DEF k
  <2>11. TableOf(u, K, key, M \cup {r})
    BY <2>6, <2>8, <2>9, <2>10 DEF TableOf, Of
  <2>12. id = p
    BY <1>5, <2>1, <2>6, <2>7, <2>8
  <2> QED
    BY <1>7, <2>1, <2>6, <2>7, <2>11, <2>12 DEF row
<1> QED
  BY <1>6, <1>7

\* The severe groups of a service among the first n, and their times
SevereIn(g, n, s) ==
  {i \in 1 .. n : Severe(g[i].key.role) /\ g[i].key.service = s}
From(g, i) == <<Time[g[i].first], i>>
To(g, i) == <<Time[g[i].last], i>>

\* A row of severe_services states exactly those groups
SummaryOf(row, g, n, s) ==
  /\ DOMAIN row = {"count", "oldest", "newest"}
  /\ row = [x \in DOMAIN row |-> row[x]]
  /\ row.count = Cardinality(SevereIn(g, n, s))
  /\ \E i \in SevereIn(g, n, s) : row.oldest = From(g, i)
  /\ \A i \in SevereIn(g, n, s) : ~Less(From(g, i), row.oldest)
  /\ \E i \in SevereIn(g, n, s) : row.newest = To(g, i)
  /\ \A i \in SevereIn(g, n, s) : ~Less(row.newest, To(g, i))

\* severe_services states exactly the severe ones of the first n groups
SevereExact(severe, g, n) ==
  /\ severe = [s \in DOMAIN severe |-> severe[s]]
  /\ \A s : s \in DOMAIN severe <=> SevereIn(g, n, s) # {}
  /\ \A s \in DOMAIN severe : SummaryOf(severe[s], g, n, s)

\* Pairs of a time and a group id are totally ordered.
LEMMA PairOrder ==
  \A p, q, u \in Nat \X Nat :
    /\ ~Less(p, p)
    /\ Less(p, q) \/ p = q \/ Less(q, p)
    /\ ~(Less(p, q) /\ Less(q, p))
    /\ Less(p, q) /\ Less(q, u) => Less(p, u)
<1> SUFFICES ASSUME NEW p \in Nat \X Nat, NEW q \in Nat \X Nat, NEW u \in Nat \X Nat
             PROVE  /\ ~Less(p, p)
                    /\ Less(p, q) \/ p = q \/ Less(q, p)
                    /\ ~(Less(p, q) /\ Less(q, p))
                    /\ Less(p, q) /\ Less(q, u) => Less(p, u)
  OBVIOUS
<1>1. /\ p = <<p[1], p[2]>> /\ q = <<q[1], q[2]>> /\ u = <<u[1], u[2]>>
      /\ p[1] \in Nat /\ p[2] \in Nat /\ q[1] \in Nat /\ q[2] \in Nat
      /\ u[1] \in Nat /\ u[2] \in Nat
  BY SMTT(60)
<1>2. /\ ~Less(p, p) /\ ~(Less(p, q) /\ Less(q, p))
      /\ Less(p, q) \/ (p[1] = q[1] /\ p[2] = q[2]) \/ Less(q, p)
      /\ Less(p, q) /\ Less(q, u) => Less(p, u)
  BY <1>1, SMTT(60) DEF Less
<1> QED
  BY <1>1, <1>2

\* The times of a group's first and last record.
LEMMA GroupTimes ==
  ASSUME NEW K, NEW g \in Seq(Rows(K)), NEW i \in DOMAIN g
  PROVE  /\ From(g, i) \in Nat \X Nat /\ To(g, i) \in Nat \X Nat
         /\ g[i].first \in Records /\ g[i].last \in Records
<1>1. g[i] \in Rows(K) /\ i \in Nat
  BY SMTT(60)
<1>2. g[i].first \in Records /\ g[i].last \in Records
  BY <1>1 DEF Rows
<1>3. Time[g[i].first] \in Nat /\ Time[g[i].last] \in Nat
  BY <1>2, RecordsAssumption
<1> QED
  BY <1>1, <1>2, <1>3 DEF From, To

\* Groups that are not severe, or that stay as they are, change no summary.
LEMMA SevereSame ==
  ASSUME NEW severe, NEW g, NEW u, NEW n, SevereExact(severe, g, n),
         \A i \in 1 .. n : /\ u[i].key = g[i].key
                           /\ Severe(g[i].key.role) => u[i] = g[i]
  PROVE  SevereExact(severe, u, n)
<1>1. \A s : SevereIn(u, n, s) = SevereIn(g, n, s)
  BY DEF SevereIn
<1>2. ASSUME NEW s, NEW i \in SevereIn(g, n, s) PROVE From(u, i) = From(g, i) /\ To(u, i) = To(g, i)
  BY DEF SevereIn, From, To
<1>3. ASSUME NEW s, NEW row, SummaryOf(row, g, n, s) PROVE SummaryOf(row, u, n, s)
  BY <1>1, <1>2, <1>3 DEF SummaryOf
<1> QED
  BY <1>1, <1>3 DEF SevereExact

\* One more group that is not severe changes no summary.
LEMMA SevereSkip ==
  ASSUME NEW severe, NEW g, NEW n \in Nat, SevereExact(severe, g, n),
         ~Severe(g[n + 1].key.role)
  PROVE  SevereExact(severe, g, n + 1)
<1>1. \A i : i \in 1 .. n + 1 <=> i \in 1 .. n \/ i = n + 1
  BY SMTT(60)
<1>2. \A s : SevereIn(g, n + 1, s) = SevereIn(g, n, s)
  BY <1>1 DEF SevereIn
<1> HIDE DEF SevereIn
<1> QED
  BY <1>2 DEF SevereExact, SummaryOf

\* One more severe group is summarised (upsert_severe_service).
LEMMA SevereNew ==
  ASSUME NEW K, NEW g \in Seq(Rows(K)), NEW n \in Nat, n + 1 \in DOMAIN g,
         NEW severe, SevereExact(severe, g, n), Severe(g[n + 1].key.role)
  PROVE  SevereExact(UpsertSevere(severe, g[n + 1].key.service, n + 1,
                                  Time[g[n + 1].first], Time[g[n + 1].last], TRUE),
                     g, n + 1)
<1> DEFINE id == n + 1
           service == g[id].key.service
           from == Time[g[id].first]
           to == Time[g[id].last]
           after == UpsertSevere(severe, service, id, from, to, TRUE)
           S == SevereIn(g, n, service)
           row == severe[service]
<1>1. (\A i : i \in 1 .. id <=> i \in 1 .. n \/ i = id) /\ id \notin 1 .. n
  BY SMTT(60)
<1>2. /\ SevereIn(g, id, service) = S \cup {id} /\ id \notin S
      /\ \A s : s # service => SevereIn(g, id, s) = SevereIn(g, n, s)
  BY <1>1 DEF SevereIn
<1>3. <<from, id>> = From(g, id) /\ <<to, id>> = To(g, id)
  BY DEF From, To
<1>4. /\ From(g, id) \in Nat \X Nat /\ To(g, id) \in Nat \X Nat
      /\ \A i \in S : From(g, i) \in Nat \X Nat /\ To(g, i) \in Nat \X Nat
  <2>1. \A i \in S : i \in DOMAIN g
    BY SMTT(60) DEF SevereIn
  <2> HIDE DEF S, id
  <2> QED BY <2>1, GroupTimes DEF id
<1>5. IsFiniteSet(S)
  <2>1. S \subseteq 1 .. n
    BY DEF SevereIn
  <2>2. IsFiniteSet(1 .. n)
    BY FS_Interval, SMTT(60)
  <2> QED
    BY <2>1, <2>2, FS_Subset
<1>6. Cardinality(S \cup {id}) = Cardinality(S) + 1
  BY <1>2, <1>5, FS_AddElement
<1> HIDE DEF id, service, from, to, S
<1>7. ASSUME NEW s \in DOMAIN severe, s # service PROVE SummaryOf(severe[s], g, id, s)
  <2>1. SummaryOf(severe[s], g, n, s) /\ SevereIn(g, id, s) = SevereIn(g, n, s)
    BY <1>2, <1>7 DEF SevereExact
  <2> QED
    BY <2>1 DEF SummaryOf
<1>8. CASE service \notin DOMAIN severe
  <2> DEFINE new == [count |-> 1, oldest |-> <<from, id>>, newest |-> <<to, id>>]
  <2>1. after = Put(severe, service, new)
    BY <1>8 DEF UpsertSevere
  <2>2. S = {}
    BY <1>8 DEF SevereExact, S
  <2>3. Cardinality({id}) = 1 /\ SevereIn(g, id, service) = {id}
    BY <1>2, <2>2, FS_Singleton
  <2>4. SummaryOf(new, g, id, service)
    <3>1. /\ DOMAIN new = {"count", "oldest", "newest"} /\ new = [x \in DOMAIN new |-> new[x]]
          /\ new.count = 1 /\ new.oldest = From(g, id) /\ new.newest = To(g, id)
      BY <1>3
    <3>2. ~Less(From(g, id), From(g, id)) /\ ~Less(To(g, id), To(g, id))
      BY <1>4, PairOrder
    <3> HIDE DEF new
    <3> QED
      BY <2>3, <3>1, <3>2 DEF SummaryOf
  <2> HIDE DEF new
  <2>5. /\ DOMAIN after = DOMAIN severe \cup {service} /\ after[service] = new
        /\ after = [s \in DOMAIN after |-> after[s]]
        /\ \A s \in DOMAIN severe : s # service => after[s] = severe[s]
    BY <2>1 DEF Put
  <2> HIDE DEF after
  <2> SUFFICES SevereExact(after, g, id)
    BY DEF after, id, service, from, to
  <2>6. \A s : s \in DOMAIN after <=> SevereIn(g, id, s) # {}
    BY <1>2, <2>3, <2>5 DEF SevereExact
  <2> QED
    BY <1>7, <2>4, <2>5, <2>6 DEF SevereExact
<1>9. CASE service \in DOMAIN severe
  <2> DEFINE oldest == IF Less(<<from, id>>, row.oldest) THEN <<from, id>> ELSE row.oldest
             newest == IF Less(row.newest, <<to, id>>) THEN <<to, id>> ELSE row.newest
             new == [count |-> row.count + 1, oldest |-> oldest, newest |-> newest]
  <2>1. after = [severe EXCEPT ![service] = new]
    BY <1>9 DEF UpsertSevere
  <2>2. SummaryOf(row, g, n, service)
    BY <1>9 DEF SevereExact
  <2>3. /\ row.count = Cardinality(S)
        /\ \E i \in S : row.oldest = From(g, i)
        /\ \A i \in S : ~Less(From(g, i), row.oldest)
        /\ \E i \in S : row.newest = To(g, i)
        /\ \A i \in S : ~Less(row.newest, To(g, i))
    BY <2>2 DEF SummaryOf, S
  <2> HIDE DEF row
  <2>4. row.oldest \in Nat \X Nat /\ row.newest \in Nat \X Nat
    BY <1>4, <2>3
  <2>5. /\ \E i \in S \cup {id} : oldest = From(g, i)
        /\ \A i \in S \cup {id} : ~Less(From(g, i), oldest)
    <3>1. \E i \in S \cup {id} : oldest = From(g, i)
      BY <1>3, <2>3
    <3>2. ~Less(From(g, id), oldest)
      BY <1>3, <1>4, <2>4, PairOrder
    <3>3. ASSUME NEW i \in S PROVE ~Less(From(g, i), oldest)
      <4>1. From(g, i) \in Nat \X Nat
        BY <1>4
      <4> QED
        BY <1>3, <1>4, <2>3, <2>4, <4>1, PairOrder
    <3> QED
      BY <3>1, <3>2, <3>3
  <2>6. /\ \E i \in S \cup {id} : newest = To(g, i)
        /\ \A i \in S \cup {id} : ~Less(newest, To(g, i))
    <3>1. \E i \in S \cup {id} : newest = To(g, i)
      BY <1>3, <2>3
    <3>2. ~Less(newest, To(g, id))
      BY <1>3, <1>4, <2>4, PairOrder
    <3>3. ASSUME NEW i \in S PROVE ~Less(newest, To(g, i))
      <4>1. To(g, i) \in Nat \X Nat
        BY <1>4
      <4> QED
        BY <1>3, <1>4, <2>3, <2>4, <4>1, PairOrder
    <3> QED
      BY <3>1, <3>2, <3>3
  <2>7. SummaryOf(new, g, id, service)
    <3>1. /\ DOMAIN new = {"count", "oldest", "newest"} /\ new = [x \in DOMAIN new |-> new[x]]
          /\ new.count = row.count + 1 /\ new.oldest = oldest /\ new.newest = newest
      OBVIOUS
    <3> HIDE DEF new, oldest, newest
    <3> QED
      BY <1>2, <1>6, <2>3, <2>5, <2>6, <3>1 DEF SummaryOf
  <2> HIDE DEF new
  <2>8. /\ DOMAIN after = DOMAIN severe /\ after[service] = new
        /\ after = [s \in DOMAIN after |-> after[s]]
        /\ \A s \in DOMAIN severe : s # service => after[s] = severe[s]
    BY <1>9, <2>1
  <2> HIDE DEF after
  <2> SUFFICES SevereExact(after, g, id)
    BY DEF after, id, service, from, to
  <2>9. \A s : s \in DOMAIN after <=> SevereIn(g, id, s) # {}
    BY <1>2, <1>9, <2>8 DEF SevereExact
  <2> QED
    BY <1>7, <2>7, <2>8, <2>9 DEF SevereExact
<1> QED
  BY <1>8, <1>9

\* The times of a group that counts one more record.
LEMMA CountedTimes ==
  ASSUME NEW K, NEW row \in Rows(K), NEW r \in Records, NEW id \in Nat
  PROVE  /\ Counted(row, r).key = row.key
         /\ <<Time[Counted(row, r).first], id>> =
              IF Less(<<Time[r], id>>, <<Time[row.first], id>>)
              THEN <<Time[r], id>> ELSE <<Time[row.first], id>>
         /\ <<Time[Counted(row, r).last], id>> =
              IF Less(<<Time[row.last], id>>, <<Time[r], id>>)
              THEN <<Time[r], id>> ELSE <<Time[row.last], id>>
<1>1. row.first \in Records /\ row.last \in Records
  BY DEF Rows
<1>2. /\ Counted(row, r).key = row.key
      /\ Counted(row, r).first = Earlier(r, row.first)
      /\ Counted(row, r).last = Later(r, row.last)
  BY DEF Counted, Rows
<1>3. Time \in [Records -> Nat] /\ Records \subseteq Nat
  BY RecordsAssumption
<1>4. \A s \in Records : /\ Time[Earlier(r, s)] = IF Time[r] < Time[s] THEN Time[r] ELSE Time[s]
                         /\ Time[Later(r, s)] = IF Time[s] < Time[r] THEN Time[r] ELSE Time[s]
  BY <1>3, SMTT(60) DEF Earlier, Later, Before
<1>5. \A a, b \in Nat : Less(<<a, id>>, <<b, id>>) <=> a < b
  BY SMTT(60) DEF Less
<1>6. Time[r] \in Nat /\ Time[row.first] \in Nat /\ Time[row.last] \in Nat
  BY <1>1, <1>3
<1>7. /\ Less(<<Time[r], id>>, <<Time[row.first], id>>) <=> Time[r] < Time[row.first]
      /\ Less(<<Time[row.last], id>>, <<Time[r], id>>) <=> Time[row.last] < Time[r]
  BY <1>5, <1>6
<1> QED
  BY <1>1, <1>2, <1>4, <1>7

\* A severe group that counts one more record is summarised again
\* (upsert_severe_service).
LEMMA SevereUpdate ==
  ASSUME NEW K, NEW g \in Seq(Rows(K)), NEW id \in DOMAIN g, NEW r \in Records,
         NEW severe, SevereExact(severe, g, Len(g)), Severe(g[id].key.role),
         NEW u, u[id] = Counted(g[id], r), \A i \in DOMAIN g : i # id => u[i] = g[i]
  PROVE  SevereExact(UpsertSevere(severe, g[id].key.service, id, Time[r], Time[r], FALSE),
                     u, Len(g))
<1>0. IsFiniteSet(1 .. Len(g))
  <2>1. 1 \in Int /\ Len(g) \in Int
    BY SMTT(60)
  <2> QED
    BY <2>1, FS_Interval
<1> DEFINE n == Len(g)
           service == g[id].key.service
           at == <<Time[r], id>>
           after == UpsertSevere(severe, service, id, Time[r], Time[r], FALSE)
           S == SevereIn(g, n, service)
           row == severe[service]
<1>1. DOMAIN g = 1 .. n /\ id \in Nat /\ g[id] \in Rows(K)
  BY SMTT(60)
<1>2. /\ u[id].key = g[id].key
      /\ From(u, id) = IF Less(at, From(g, id)) THEN at ELSE From(g, id)
      /\ To(u, id) = IF Less(To(g, id), at) THEN at ELSE To(g, id)
  <2> DEFINE was == g[id]
  <2>1. was \in Rows(K) /\ id \in Nat
    BY <1>1
  <2> HIDE DEF was
  <2>2. /\ Counted(was, r).key = was.key
        /\ <<Time[Counted(was, r).first], id>> =
              IF Less(at, <<Time[was.first], id>>) THEN at ELSE <<Time[was.first], id>>
        /\ <<Time[Counted(was, r).last], id>> =
              IF Less(<<Time[was.last], id>>, at) THEN at ELSE <<Time[was.last], id>>
    BY <2>1, CountedTimes
  <2> QED
    BY <2>2 DEF was, From, To
<1>3. \A s : SevereIn(u, n, s) = SevereIn(g, n, s)
  BY <1>1, <1>2 DEF SevereIn
<1>4. id \in S
  BY <1>1 DEF SevereIn
<1>5. \A i \in DOMAIN g : i # id => From(u, i) = From(g, i) /\ To(u, i) = To(g, i)
  BY DEF From, To
<1>6. \A i \in S : i \in DOMAIN g /\ From(g, i) \in Nat \X Nat /\ To(g, i) \in Nat \X Nat
  <2>1. \A i \in S : i \in DOMAIN g
    BY <1>1 DEF SevereIn
  <2> HIDE DEF S
  <2> QED
    BY <2>1, GroupTimes
<1>7. at \in Nat \X Nat
  BY <1>1, RecordsAssumption
<1>8. \A s : s # service => id \notin SevereIn(g, n, s)
  BY DEF SevereIn
<1>9. \A s, i : i \in SevereIn(g, n, s) => i \in DOMAIN g
  BY <1>1 DEF SevereIn
<1>10. service \in DOMAIN severe
  BY <1>4 DEF SevereExact
<1> HIDE DEF n, service, S, at
<1>11. ASSUME NEW s \in DOMAIN severe, s # service PROVE SummaryOf(severe[s], u, n, s)
  <2>1. SummaryOf(severe[s], g, n, s)
    BY DEF SevereExact, n
  <2>2. \A i \in SevereIn(g, n, s) : From(u, i) = From(g, i) /\ To(u, i) = To(g, i)
    BY <1>5, <1>8, <1>9, <1>11
  <2> QED
    BY <1>3, <2>1, <2>2 DEF SummaryOf
<1> DEFINE oldest == IF Less(at, row.oldest) THEN at ELSE row.oldest
           newest == IF Less(row.newest, at) THEN at ELSE row.newest
           new == [count |-> row.count + 0, oldest |-> oldest, newest |-> newest]
<1>12. after = [severe EXCEPT ![service] = new]
  BY <1>10 DEF UpsertSevere, at
<1>13. SummaryOf(row, g, n, service)
  BY <1>10 DEF SevereExact, n
<1>14. /\ row.count = Cardinality(S)
       /\ \E i \in S : row.oldest = From(g, i)
       /\ \A i \in S : ~Less(From(g, i), row.oldest)
       /\ \E i \in S : row.newest = To(g, i)
       /\ \A i \in S : ~Less(row.newest, To(g, i))
  BY <1>13 DEF SummaryOf, S
<1>15. row.count + 0 = row.count
  <2>1. S \subseteq 1 .. n
    BY DEF S, SevereIn
  <2>2. IsFiniteSet(S)
    <3>1. IsFiniteSet(1 .. n)
      BY <1>0 DEF n
    <3> QED
      BY <2>1, <3>1, FS_Subset
  <2>3. Cardinality(S) \in Nat
    BY <2>2, FS_CardinalityType
  <2>4. row.count \in Nat
    BY <1>14, <2>3
  <2> HIDE DEF row
  <2> QED
    BY <2>4, SMTT(60)
<1> HIDE DEF row
<1>16. row.oldest \in Nat \X Nat /\ row.newest \in Nat \X Nat
  BY <1>6, <1>14
<1>17. /\ \E i \in S : oldest = From(u, i)
       /\ \A i \in S : ~Less(From(u, i), oldest)
  <2>1. PICK k \in S : row.oldest = From(g, k)
    BY <1>14
  <2>2. \E i \in S : oldest = From(u, i)
    <3>1. CASE Less(at, row.oldest)
      <4>1. From(g, id) \in Nat \X Nat /\ ~Less(From(g, id), row.oldest)
        BY <1>4, <1>6, <1>14
      <4>2. Less(at, From(g, id))
        BY <1>7, <1>16, <3>1, <4>1, PairOrder
      <4> QED
        BY <1>2, <1>4, <3>1, <4>2
    <3>2. CASE ~Less(at, row.oldest) /\ k = id
      BY <1>2, <1>4, <2>1, <3>2
    <3>3. CASE ~Less(at, row.oldest) /\ k # id
      BY <1>5, <1>6, <2>1, <3>3
    <3> QED
      BY <3>1, <3>2, <3>3
  <2>3. ASSUME NEW i \in S PROVE ~Less(From(u, i), oldest)
    <3>1. CASE i = id
      BY <1>2, <1>4, <1>6, <1>7, <1>14, <1>16, <3>1, PairOrder
    <3>2. CASE i # id
      <4>1. From(u, i) = From(g, i) /\ From(g, i) \in Nat \X Nat /\ ~Less(From(g, i), row.oldest)
        BY <1>5, <1>6, <1>14, <3>2
      <4>2. CASE Less(at, row.oldest)
        BY <1>7, <1>16, <4>1, <4>2, PairOrder
      <4>3. CASE ~Less(at, row.oldest)
        BY <4>1, <4>3
      <4> QED
        BY <4>2, <4>3
    <3> QED
      BY <3>1, <3>2
  <2> QED
    BY <2>2, <2>3
<1>18. /\ \E i \in S : newest = To(u, i)
       /\ \A i \in S : ~Less(newest, To(u, i))
  <2>1. PICK k \in S : row.newest = To(g, k)
    BY <1>14
  <2>2. \E i \in S : newest = To(u, i)
    <3>1. CASE Less(row.newest, at)
      <4>1. To(g, id) \in Nat \X Nat /\ ~Less(row.newest, To(g, id))
        BY <1>4, <1>6, <1>14
      <4>2. Less(To(g, id), at)
        BY <1>7, <1>16, <3>1, <4>1, PairOrder
      <4> QED
        BY <1>2, <1>4, <3>1, <4>2
    <3>2. CASE ~Less(row.newest, at) /\ k = id
      BY <1>2, <1>4, <2>1, <3>2
    <3>3. CASE ~Less(row.newest, at) /\ k # id
      BY <1>5, <1>6, <2>1, <3>3
    <3> QED
      BY <3>1, <3>2, <3>3
  <2>3. ASSUME NEW i \in S PROVE ~Less(newest, To(u, i))
    <3>1. CASE i = id
      BY <1>2, <1>4, <1>6, <1>7, <1>14, <1>16, <3>1, PairOrder
    <3>2. CASE i # id
      <4>1. To(u, i) = To(g, i) /\ To(g, i) \in Nat \X Nat /\ ~Less(row.newest, To(g, i))
        BY <1>5, <1>6, <1>14, <3>2
      <4>2. CASE Less(row.newest, at)
        BY <1>7, <1>16, <4>1, <4>2, PairOrder
      <4>3. CASE ~Less(row.newest, at)
        BY <4>1, <4>3
      <4> QED
        BY <4>2, <4>3
    <3> QED
      BY <3>1, <3>2
  <2> QED
    BY <2>2, <2>3
<1>19. SummaryOf(new, u, n, service)
  <2>1. /\ DOMAIN new = {"count", "oldest", "newest"} /\ new = [x \in DOMAIN new |-> new[x]]
        /\ new.count = row.count /\ new.oldest = oldest /\ new.newest = newest
    BY <1>15
  <2>2. SevereIn(u, n, service) = S
    BY <1>3 DEF S
  <2> HIDE DEF new, oldest, newest
  <2> QED
    BY <1>14, <1>17, <1>18, <2>1, <2>2 DEF SummaryOf
<1> HIDE DEF new
<1>20. /\ DOMAIN after = DOMAIN severe /\ after[service] = new
       /\ after = [s \in DOMAIN after |-> after[s]]
       /\ \A s \in DOMAIN severe : s # service => after[s] = severe[s]
  BY <1>10, <1>12
<1> HIDE DEF after
<1> SUFFICES SevereExact(after, u, n)
  BY DEF after, n, service
<1>21. \A s : s \in DOMAIN after <=> SevereIn(u, n, s) # {}
  BY <1>3, <1>20 DEF SevereExact, n
<1> QED
  BY <1>11, <1>19, <1>20, <1>21 DEF SevereExact

----------------------------------------------------------------------------
(* The tables of a corpus, and what indexing a record does to them *)

\* The summaries of the rows are those that Summaries computes from the groups.
LEMMA SevereSummaries ==
  ASSUME NEW K, db.groups \in Seq(Rows(K)), NEW n \in 0 .. Len(db.groups),
         SevereExact(db.severe, db.groups, n)
  PROVE  db.severe = Summaries(n)
<1> DEFINE g == db.groups
           In(s) == SevereIn(g, n, s)
           services == {g[i].key.service : i \in {j \in 1 .. n : Severe(g[j].key.role)}}
           first(s) == CHOOSE i \in In(s) : \A j \in In(s) : ~Less(From(g, j), From(g, i))
           last(s) == CHOOSE i \in In(s) : \A j \in In(s) : ~Less(To(g, i), To(g, j))
           Row(s) == [count |-> Cardinality(In(s)), oldest |-> From(g, first(s)),
                      newest |-> To(g, last(s))]
<1>1. Summaries(n) = [s \in services |-> Row(s)]
  BY DEF Summaries, SevereOf, SevereIn, From, To
<1>2. \A s : s \in services <=> In(s) # {}
  BY DEF SevereIn
<1>3. \A s : \A i \in In(s) : From(g, i) \in Nat \X Nat /\ To(g, i) \in Nat \X Nat
  <2>1. \A s : \A i \in In(s) : i \in DOMAIN g
    <3>1. \A i \in 1 .. n : i \in DOMAIN g
      BY SMTT(60)
    <3> QED
      BY <3>1 DEF SevereIn
  <2> HIDE DEF In
  <2> QED
    BY <2>1, GroupTimes
<1>4. ASSUME NEW s \in DOMAIN db.severe PROVE db.severe[s] = Row(s)
  <2> DEFINE row == db.severe[s]
             S == In(s)
  <2>1. SummaryOf(row, g, n, s)
    BY DEF SevereExact
  <2>2. /\ DOMAIN row = {"count", "oldest", "newest"} /\ row = [x \in DOMAIN row |-> row[x]]
        /\ row.count = Cardinality(S)
        /\ \E i \in S : row.oldest = From(g, i)
        /\ \A i \in S : ~Less(From(g, i), row.oldest)
        /\ \E i \in S : row.newest = To(g, i)
        /\ \A i \in S : ~Less(row.newest, To(g, i))
    BY <2>1 DEF SummaryOf
  <2> HIDE DEF row, In
  <2>3. first(s) \in S /\ \A j \in S : ~Less(From(g, j), From(g, first(s)))
    BY <2>2
  <2>4. last(s) \in S /\ \A j \in S : ~Less(To(g, last(s)), To(g, j))
    BY <2>2
  <2> HIDE DEF first, last
  <2>5. row.oldest = From(g, first(s))
    <3>1. PICK i \in S : row.oldest = From(g, i)
      BY <2>2
    <3>2. From(g, i) \in Nat \X Nat /\ From(g, first(s)) \in Nat \X Nat
      BY <1>3, <2>3
    <3>3. ~Less(From(g, i), From(g, first(s))) /\ ~Less(From(g, first(s)), From(g, i))
      BY <2>2, <2>3, <3>1
    <3> QED
      BY <3>1, <3>2, <3>3, PairOrder
  <2>6. row.newest = To(g, last(s))
    <3>1. PICK i \in S : row.newest = To(g, i)
      BY <2>2
    <3>2. To(g, i) \in Nat \X Nat /\ To(g, last(s)) \in Nat \X Nat
      BY <1>3, <2>4
    <3>3. ~Less(To(g, i), To(g, last(s))) /\ ~Less(To(g, last(s)), To(g, i))
      BY <2>2, <2>4, <3>1
    <3> QED
      BY <3>1, <3>2, <3>3, PairOrder
  <2>7. /\ DOMAIN Row(s) = {"count", "oldest", "newest"}
        /\ Row(s) = [x \in DOMAIN Row(s) |-> Row(s)[x]]
        /\ Row(s).count = Cardinality(S) /\ Row(s).oldest = From(g, first(s))
        /\ Row(s).newest = To(g, last(s))
    OBVIOUS
  <2> HIDE DEF Row, S
  <2>8. \A x \in DOMAIN row : row[x] = Row(s)[x]
    BY <2>2, <2>5, <2>6, <2>7
  <2>9. row = Row(s)
    BY <2>2, <2>7, <2>8
  <2> QED
    BY <2>9 DEF row
<1> HIDE DEF Row, services, In
<1>5. DOMAIN db.severe = services /\ db.severe = [s \in DOMAIN db.severe |-> db.severe[s]]
  BY <1>2 DEF SevereExact, In, g
<1> QED
  BY <1>1, <1>4, <1>5

----------------------------------------------------------------------------
\* The services that a parser and an extractor join for each record, the records of
\* which they make an edge, and the edges of all versions
Parsers == {Parsed, OldParsed, FirstParsed}
Extractors == {Peer, FirstPeer}
EdgeKey(parse, peer) == [r \in Records |-> Link(parse, peer, r)]
Edged(key, S) == {r \in S : IsEdge(key[r])}
EdgeKeys == {Link(parse, peer, r) : parse \in Parsers, peer \in Extractors, r \in Records}

\* The graph is one of these edges
Keyed(key, d) ==
  /\ DOMAIN d.evidence \subseteq Edged(key, d.stored)
  /\ d.evidence = [r \in DOMAIN d.evidence |-> key[r]]

Fields ==
  {"stored", "groups", "member", "severe", "termed", "edges", "evidence", "version",
   "parser", "extractor", "graph", "terms", "services", "at"}

\* The groups state their members, the edges their evidence
DbOk(parse, d) ==
  /\ DOMAIN d = Fields
  /\ d.stored \subseteq Records /\ DOMAIN d.member \subseteq d.stored
  /\ TableOf(d.groups, Cards, parse, DOMAIN d.member)
  /\ \A r \in DOMAIN d.member : /\ d.member[r] \in DOMAIN d.groups
                                /\ d.groups[d.member[r]].key = parse[r]
  /\ d.termed \subseteq DOMAIN d.groups
  /\ DOMAIN d.evidence \subseteq d.stored
  /\ TableOf(d.edges, EdgeKeys, d.evidence, DOMAIN d.evidence)
  /\ d.version = Cardinality(DOMAIN d.evidence)

\* Every group is summarised, and what one update leaves alone
SevereFull(d) == SevereExact(d.severe, d.groups, Len(d.groups))
SameMarks(d, e) ==
  /\ e.parser = d.parser /\ e.extractor = d.extractor /\ e.graph = d.graph
  /\ e.terms = d.terms /\ e.services = d.services /\ e.at = d.at
SameGraph(d, e) ==
  e.edges = d.edges /\ e.evidence = d.evidence /\ e.version = d.version
SameGroups(d, e) ==
  /\ e.groups = d.groups /\ e.member = d.member
  /\ e.severe = d.severe /\ e.termed = d.termed

\* The fields that index_new_record writes.
LEMMA IndexFields ==
  ASSUME NEW parse, NEW d, DOMAIN d = Fields, NEW r
  PROVE  LET e == IndexNewRecord(parse, d, r)
             u == Upsert(d.groups, parse[r], r)
             id == CHOOSE i \in Positions(u, parse[r]) : TRUE
         IN /\ DOMAIN e = Fields /\ e.groups = u /\ e.member = Put(d.member, r, id)
            /\ e.termed = d.termed \cup {id}
            /\ e.severe = IF Severe(parse[r].role)
                          THEN UpsertSevere(d.severe, parse[r].service, id, Time[r], Time[r],
                                            Positions(d.groups, parse[r]) = {})
                          ELSE d.severe
            /\ e.stored = d.stored /\ SameMarks(d, e) /\ SameGraph(d, e)
<1> DEFINE u == Upsert(d.groups, parse[r], r)
           id == CHOOSE i \in Positions(u, parse[r]) : TRUE
           severe == IF Severe(parse[r].role)
                     THEN UpsertSevere(d.severe, parse[r].service, id, Time[r], Time[r],
                                       Positions(d.groups, parse[r]) = {})
                     ELSE d.severe
           termed == d.termed \cup {id}
           member == Put(d.member, r, id)
           e == [d EXCEPT !.groups = u, !.severe = severe, !.termed = termed, !.member = member]
<1>1. IndexNewRecord(parse, d, r) = e
  BY DEF IndexNewRecord
<1>2. SUFFICES /\ DOMAIN e = Fields /\ e.groups = u /\ e.member = member
               /\ e.termed = termed /\ e.severe = severe
               /\ e.stored = d.stored /\ SameMarks(d, e) /\ SameGraph(d, e)
  BY <1>1
<1> HIDE DEF u, id, severe, termed, member
<1>3. DOMAIN e = Fields /\ e.stored = d.stored /\ e.groups = u /\ e.member = member
  BY DEF Fields
<1>4. e.termed = termed /\ e.severe = severe
  BY DEF Fields
<1>5. SameMarks(d, e)
  BY DEF SameMarks, Fields
<1>6. SameGraph(d, e)
  BY DEF SameGraph, Fields
<1> QED
  BY <1>3, <1>4, <1>5, <1>6

\* The fields that index_new_edge writes.
LEMMA EdgeFields ==
  ASSUME NEW parse, NEW peer, NEW d, DOMAIN d = Fields, NEW r,
         r \notin DOMAIN d.evidence, IsEdge(Link(parse, peer, r))
  PROVE  LET e == IndexNewEdge(parse, peer, d, r)
             link == Link(parse, peer, r)
         IN /\ DOMAIN e = Fields /\ e.edges = Upsert(d.edges, link, r)
            /\ e.evidence = Put(d.evidence, r, link) /\ e.version = d.version + 1
            /\ e.stored = d.stored /\ SameMarks(d, e) /\ SameGroups(d, e)
<1> DEFINE edges == Upsert(d.edges, Link(parse, peer, r), r)
           evidence == Put(d.evidence, r, Link(parse, peer, r))
           version == d.version + 1
           e == [d EXCEPT !.edges = edges, !.evidence = evidence, !.version = version]
<1>1. IndexNewEdge(parse, peer, d, r) = e
  BY DEF IndexNewEdge
<1>2. SUFFICES /\ DOMAIN e = Fields /\ e.edges = edges
               /\ e.evidence = evidence /\ e.version = version
               /\ e.stored = d.stored /\ SameMarks(d, e) /\ SameGroups(d, e)
  BY <1>1
<1> HIDE DEF edges, evidence, version
<1>3. DOMAIN e = Fields /\ e.stored = d.stored /\ e.edges = edges
  BY DEF Fields
<1>4. e.evidence = evidence /\ e.version = version
  BY DEF Fields
<1>5. SameMarks(d, e)
  BY DEF SameMarks, Fields
<1>6. SameGroups(d, e)
  BY DEF SameGroups, Fields
<1> QED
  BY <1>3, <1>4, <1>5, <1>6

\* What index_new_record leaves of the tables
Indexed(parse, d, r) ==
  LET e == IndexNewRecord(parse, d, r)
  IN /\ DbOk(parse, e) /\ SevereFull(e)
     /\ DOMAIN e.member = DOMAIN d.member \cup {r}
     /\ d.termed = DOMAIN d.groups => e.termed = DOMAIN e.groups
     /\ e.stored = d.stored /\ SameMarks(d, e) /\ SameGraph(d, e)

\* A record that is indexed joins its group, and every table is exact again
\* (index_new_record).
LEMMA IndexKeeps ==
  ASSUME NEW parse, \A x \in Records : parse[x] \in Cards,
         NEW d, DbOk(parse, d), SevereFull(d), NEW r \in d.stored \ DOMAIN d.member
  PROVE  Indexed(parse, d, r)
<1> DEFINE e == IndexNewRecord(parse, d, r)
           card == parse[r]
           t == d.groups
           u == Upsert(t, card, r)
           new == Positions(t, card) = {}
           id == CHOOSE i \in Positions(u, card) : TRUE
           M == DOMAIN d.member
<1>1. /\ DOMAIN d = Fields /\ d.stored \subseteq Records /\ M \subseteq d.stored
      /\ TableOf(t, Cards, parse, M)
      /\ \A x \in M : d.member[x] \in DOMAIN t /\ t[d.member[x]].key = parse[x]
      /\ d.termed \subseteq DOMAIN t
  BY DEF DbOk
<1>2. IsFiniteSet(M) /\ M \in SUBSET Records /\ r \in Records \ M
  <2>1. M \in SUBSET Records /\ r \in Records \ M
    BY <1>1
  <2>2. IsFiniteSet(Records)
    BY RecordsAssumption
  <2> QED
    BY <2>1, <2>2, FS_Subset
<1>3. /\ TableOf(u, Cards, parse, M \cup {r})
      /\ id \in DOMAIN u /\ u[id].key = card
      /\ new => /\ id = Len(t) + 1 /\ Len(u) = Len(t) + 1
                /\ u[id].first = r /\ u[id].last = r
      /\ ~new => /\ id \in DOMAIN t /\ Len(u) = Len(t) /\ u[id] = Counted(t[id], r)
                 /\ t[id].key = card
      /\ \A i \in DOMAIN t : i # id => u[i] = t[i]
  <2>1. Upserted(t, Cards, parse, M, r)
    BY <1>1, <1>2, UpsertTable
  <2> QED
    BY <2>1 DEF Upserted
<1>4. /\ DOMAIN e = Fields /\ e.groups = u /\ e.member = Put(d.member, r, id)
      /\ e.termed = d.termed \cup {id}
      /\ e.severe = IF Severe(card.role)
                    THEN UpsertSevere(d.severe, card.service, id, Time[r], Time[r], new)
                    ELSE d.severe
      /\ e.stored = d.stored /\ SameMarks(d, e) /\ SameGraph(d, e)
  BY <1>1, IndexFields
<1>5. SevereExact(d.severe, t, Len(t))
  BY DEF SevereFull
<1>6. DbOk(parse, d)
  OBVIOUS
<1> HIDE DEF e, card, t, u, new, id, M
<1>7. t \in Seq(Rows(Cards)) /\ u \in Seq(Rows(Cards))
  BY <1>1, <1>3 DEF TableOf
<1>8. /\ DOMAIN t = 1 .. Len(t) /\ Len(t) \in Nat /\ Len(u) \in Nat /\ DOMAIN u = 1 .. Len(u)
  BY <1>7, SMTT(60)
<1>9. /\ new => DOMAIN u = DOMAIN t \cup {id} /\ id \notin DOMAIN t
      /\ ~new => DOMAIN u = DOMAIN t
  <2>1. CASE new
    <3>1. id = Len(t) + 1 /\ Len(u) = Len(t) + 1
      BY <1>3, <2>1
    <3>2. DOMAIN u = DOMAIN t \cup {id} /\ id \notin DOMAIN t
      BY <1>8, <3>1, SMTT(60)
    <3> QED
      BY <2>1, <3>2
  <2>2. CASE ~new
    <3>1. Len(u) = Len(t)
      BY <1>3, <2>2
    <3>2. DOMAIN u = DOMAIN t
      BY <1>8, <3>1
    <3> QED
      BY <2>2, <3>2
  <2> QED
    BY <2>1, <2>2
<1>10. DOMAIN u = DOMAIN t \cup {id}
  BY <1>3, <1>9
<1>11. \A i \in DOMAIN t : u[i].key = t[i].key
  <2>1. ~new => u[id].key = t[id].key
    BY <1>3
  <2> QED
    BY <1>3, <1>9, <2>1
<1>12. /\ DOMAIN e.member = M \cup {r} /\ e.member[r] = id
       /\ \A x \in M : x # r => e.member[x] = d.member[x]
  BY <1>4 DEF Put, M
<1>13. \A x \in DOMAIN e.member : e.member[x] \in DOMAIN u /\ u[e.member[x]].key = parse[x]
  BY <1>1, <1>2, <1>3, <1>10, <1>11, <1>12 DEF card
<1>14. e.termed \subseteq DOMAIN u /\ (d.termed = DOMAIN t => e.termed = DOMAIN u)
  BY <1>1, <1>4, <1>10
<1>15. DbOk(parse, e)
  <2>1. /\ DOMAIN e = Fields /\ e.stored \subseteq Records /\ DOMAIN e.member \subseteq e.stored
    BY <1>1, <1>4, <1>12
  <2>2. TableOf(e.groups, Cards, parse, DOMAIN e.member)
    BY <1>3, <1>4, <1>12
  <2>3. /\ DOMAIN e.evidence \subseteq e.stored
        /\ TableOf(e.edges, EdgeKeys, e.evidence, DOMAIN e.evidence)
        /\ e.version = Cardinality(DOMAIN e.evidence)
    BY <1>4, <1>6 DEF DbOk, SameGraph
  <2> QED
    BY <1>4, <1>13, <1>14, <2>1, <2>2, <2>3 DEF DbOk
<1>16. SevereExact(e.severe, u, Len(u))
  <2>1. CASE ~Severe(card.role)
    <3>1. e.severe = d.severe
      BY <1>4, <2>1
    <3>2. \A i \in 1 .. Len(t) : u[i].key = t[i].key /\ (Severe(t[i].key.role) => u[i] = t[i])
      BY <1>3, <1>8, <1>11, <2>1
    <3>3. SevereExact(d.severe, u, Len(t))
      BY <1>5, <3>2, SevereSame
    <3>4. CASE new
      <4>1. ~Severe(u[Len(t) + 1].key.role)
        BY <1>3, <2>1, <3>4
      <4> QED
        BY <1>3, <1>8, <3>1, <3>3, <3>4, <4>1, SevereSkip
    <3>5. CASE ~new
      BY <1>3, <3>1, <3>3, <3>5
    <3> QED
      BY <3>4, <3>5
  <2>2. CASE Severe(card.role) /\ new
    <3>1. \A i \in 1 .. Len(t) : u[i] = t[i]
      BY <1>3, <1>8, <1>9, <2>2
    <3>2. SevereExact(d.severe, u, Len(t))
      BY <1>5, <3>1, SevereSame
    <3>3. /\ id = Len(t) + 1 /\ Len(u) = Len(t) + 1 /\ u[Len(t) + 1].first = r
          /\ u[Len(t) + 1].last = r /\ u[Len(t) + 1].key = card /\ Len(t) + 1 \in DOMAIN u
      BY <1>3, <2>2
    <3>4. e.severe = UpsertSevere(d.severe, u[Len(t) + 1].key.service, Len(t) + 1,
                                  Time[u[Len(t) + 1].first], Time[u[Len(t) + 1].last], TRUE)
      BY <1>4, <2>2, <3>3
    <3>5. Severe(u[Len(t) + 1].key.role)
      BY <2>2, <3>3
    <3>6. SevereExact(e.severe, u, Len(t) + 1)
      BY <1>7, <1>8, <3>2, <3>3, <3>4, <3>5, SevereNew
    <3> QED
      BY <3>3, <3>6
  <2>3. CASE Severe(card.role) /\ ~new
    <3>1. /\ id \in DOMAIN t /\ Len(u) = Len(t) /\ u[id] = Counted(t[id], r) /\ t[id].key = card
          /\ \A i \in DOMAIN t : i # id => u[i] = t[i]
      BY <1>3, <2>3
    <3>2. e.severe = UpsertSevere(d.severe, t[id].key.service, id, Time[r], Time[r], FALSE)
      <4>1. new = FALSE
        BY <2>3 DEF new
      <4> QED
        BY <1>4, <2>3, <3>1, <4>1
    <3>3. Severe(t[id].key.role) /\ r \in Records
      BY <1>2, <2>3, <3>1
    <3>4. SevereExact(e.severe, u, Len(t))
      BY <1>5, <1>7, <3>1, <3>2, <3>3, SevereUpdate
    <3> QED
      BY <3>1, <3>4
  <2> QED
    BY <2>1, <2>2, <2>3
<1>17. SevereFull(e)
  BY <1>4, <1>16 DEF SevereFull
<1>18. d.termed = DOMAIN d.groups => e.termed = DOMAIN e.groups
  BY <1>4, <1>14 DEF t
<1>19. DOMAIN e.member = DOMAIN d.member \cup {r}
  BY <1>12 DEF M
<1> QED
  BY <1>4, <1>15, <1>17, <1>18, <1>19 DEF e, Indexed

\* Rows that state the records of the keys state them of any keys that agree.
LEMMA TableRekeyed ==
  ASSUME NEW K, NEW t, NEW M, NEW key, NEW other,
         TableOf(t, K, key, M), \A r \in M : other[r] = key[r]
  PROVE  TableOf(t, K, other, M)
<1>1. \A i \in DOMAIN t : {r \in M : other[r] = t[i].key} = {r \in M : key[r] = t[i].key}
  OBVIOUS
<1> QED
  BY <1>1 DEF TableOf

\* A record whose peer is explicit adds its edge once, and the edges are exact again
\* (index_new_edge).
LEMMA EdgeKeeps ==
  ASSUME NEW card, NEW parse \in Parsers, NEW peer \in Extractors,
         NEW d, DbOk(card, d), Keyed(EdgeKey(parse, peer), d), NEW r \in d.stored
  PROVE  LET e == IndexNewEdge(parse, peer, d, r)
             key == EdgeKey(parse, peer)
         IN /\ DbOk(card, e) /\ Keyed(key, e)
            /\ DOMAIN e.evidence = DOMAIN d.evidence \cup Edged(key, {r})
            /\ e.stored = d.stored /\ SameMarks(d, e) /\ SameGroups(d, e)
<1> DEFINE e == IndexNewEdge(parse, peer, d, r)
           key == EdgeKey(parse, peer)
           link == Link(parse, peer, r)
           D == DOMAIN d.evidence
<1>1. /\ DOMAIN d = Fields /\ d.stored \subseteq Records /\ D \subseteq d.stored
      /\ TableOf(d.edges, EdgeKeys, d.evidence, D) /\ d.version = Cardinality(D)
      /\ DbOk(card, d)
  BY DEF DbOk
<1>2. key[r] = link /\ \A x \in Records : key[x] \in EdgeKeys
  <2>1. \A x \in Records : key[x] = Link(parse, peer, x)
    BY DEF EdgeKey
  <2>2. \A x \in Records : Link(parse, peer, x) \in EdgeKeys
    BY SMTT(60) DEF EdgeKeys
  <2> HIDE DEF key
  <2> QED
    BY <1>1, <2>1, <2>2
<1>3. Keyed(key, d) /\ D \subseteq Edged(key, d.stored) /\ \A x \in D : d.evidence[x] = key[x]
  BY DEF Keyed
<1>4. Edged(key, {r}) = IF IsEdge(link) THEN {r} ELSE {}
  BY <1>2 DEF Edged
<1>5. CASE r \in D \/ ~IsEdge(link)
  <2>1. e = d
    BY <1>5 DEF IndexNewEdge
  <2> HIDE DEF e, key, link
  <2>2. Edged(key, {r}) \subseteq D
    BY <1>4, <1>5
  <2>3. SameMarks(d, e) /\ SameGroups(d, e)
    BY <2>1 DEF SameMarks, SameGroups
  <2>4. /\ DbOk(card, e) /\ Keyed(key, e) /\ DOMAIN e.evidence = D \cup Edged(key, {r})
        /\ e.stored = d.stored
    BY <1>1, <1>3, <2>1, <2>2
  <2> QED
    BY <2>3, <2>4 DEF e, key
<1>6. CASE r \notin D /\ IsEdge(link)
  <2>1. /\ DOMAIN e = Fields /\ e.edges = Upsert(d.edges, link, r)
        /\ e.evidence = Put(d.evidence, r, link) /\ e.version = d.version + 1
        /\ e.stored = d.stored /\ SameMarks(d, e) /\ SameGroups(d, e)
    BY <1>1, <1>6, EdgeFields
  <2> HIDE DEF e, key, link
  <2>2. D \in SUBSET Records /\ r \in Records \ D
    BY <1>1, <1>6
  <2>3. IsFiniteSet(D)
    BY <2>2, RecordsAssumption, FS_Subset
  <2>4. /\ DOMAIN e.evidence = D \cup {r}
        /\ \A x \in D \cup {r} : e.evidence[x] = key[x]
        /\ e.evidence = [x \in D \cup {r} |-> key[x]]
    <3>1. DOMAIN e.evidence = D \cup {r} /\ e.evidence[r] = link
      BY <2>1 DEF Put
    <3>2. \A x \in D : e.evidence[x] = d.evidence[x]
      BY <1>6, <2>1 DEF Put
    <3>3. \A x \in D \cup {r} : e.evidence[x] = key[x]
      BY <1>2, <1>3, <3>1, <3>2
    <3>4. e.evidence = [x \in D \cup {r} |-> e.evidence[x]]
      BY <2>1 DEF Put
    <3> QED
      BY <3>1, <3>3, <3>4
  <2>5. TableOf(e.edges, EdgeKeys, e.evidence, D \cup {r})
    <3>1. TableOf(d.edges, EdgeKeys, key, D)
      BY <1>1, <1>3, TableRekeyed
    <3>2. Upserted(d.edges, EdgeKeys, key, D, r)
      BY <1>2, <2>2, <2>3, <3>1, UpsertTable
    <3>3. TableOf(Upsert(d.edges, key[r], r), EdgeKeys, key, D \cup {r})
      BY <3>2 DEF Upserted
    <3>4. TableOf(e.edges, EdgeKeys, key, D \cup {r})
      BY <1>2, <2>1, <3>3
    <3> QED
      BY <2>4, <3>4, TableRekeyed
  <2>6. Cardinality(D \cup {r}) = Cardinality(D) + 1
    BY <2>2, <2>3, FS_AddElement
  <2>7. Keyed(key, e)
    <3>1. r \in Edged(key, d.stored)
      BY <1>2, <1>6 DEF Edged
    <3> QED
      BY <1>3, <2>1, <2>4, <3>1 DEF Keyed
  <2>8. DbOk(card, e)
    <3>1. e.groups = d.groups /\ e.member = d.member /\ e.termed = d.termed
      BY <2>1 DEF SameGroups
    <3>2. /\ DOMAIN e.evidence \subseteq e.stored
          /\ TableOf(e.edges, EdgeKeys, e.evidence, DOMAIN e.evidence)
          /\ e.version = Cardinality(DOMAIN e.evidence)
      BY <1>1, <2>1, <2>4, <2>5, <2>6
    <3> QED
      BY <1>1, <2>1, <3>1, <3>2 DEF DbOk
  <2>9. DOMAIN e.evidence = D \cup Edged(key, {r})
    BY <1>4, <1>6, <2>4
  <2> QED
    BY <2>1, <2>7, <2>8, <2>9 DEF e, key
<1> QED
  BY <1>5, <1>6

\* Every stored record has its group and its edge, and every group its terms
Complete(key, d) ==
  /\ DOMAIN d.member = d.stored
  /\ Keyed(key, d) /\ DOMAIN d.evidence = Edged(key, d.stored)
  /\ d.termed = DOMAIN d.groups

\* Nothing is left to backfill
Whole(parse, peer, d) ==
  DbOk(parse, d) /\ SevereFull(d) /\ Complete(EdgeKey(parse, peer), d)

\* Versions and backfill marks that two updates leave alone (index_new_record, then
\* index_new_edge).
LEMMA SameMarksTrans ==
  ASSUME NEW a, NEW b, NEW c, SameMarks(a, b), SameMarks(b, c)
  PROVE  SameMarks(a, c)
  BY DEF SameMarks

\* A record of a provider page, indexed in the transaction that stores it, leaves the
\* tables whole (commit_page_checked).
LEMMA CommitKeeps ==
  ASSUME NEW parse \in Parsers, NEW peer \in Extractors,
         NEW d, Whole(parse, peer, d), NEW r \in Records
  PROVE  LET e == CommitParsed(parse, peer, d, r) IN Whole(parse, peer, e) /\ SameMarks(d, e)
<1> DEFINE key == EdgeKey(parse, peer)
<1>0. \A x \in Records : parse[x] \in Cards
  BY RecordsAssumption DEF Parsers
<1>1. CASE r \in d.stored
  <2>1. CommitParsed(parse, peer, d, r) = d
    BY <1>1 DEF CommitParsed
  <2> QED
    BY <2>1 DEF SameMarks
<1>2. CASE r \notin d.stored
  <2> DEFINE a == [d EXCEPT !.stored = @ \cup {r}]
             b == IndexNewRecord(parse, a, r)
             c == IndexNewEdge(parse, peer, b, r)
  <2>1. CommitParsed(parse, peer, d, r) = c
    BY <1>2 DEF CommitParsed
  <2>2. /\ DOMAIN d = Fields /\ DOMAIN d.member = d.stored /\ DbOk(parse, d)
        /\ Keyed(key, d) /\ DOMAIN d.evidence = Edged(key, d.stored)
    BY DEF Whole, DbOk, Complete
  <2>3. DOMAIN a = Fields /\ a.stored = d.stored \cup {r}
    BY <2>2 DEF Fields
  <2>4. SameMarks(d, a)
    BY <2>2 DEF Fields, SameMarks
  <2>5. SameGraph(d, a)
    BY <2>2 DEF Fields, SameGraph
  <2>6. SameGroups(d, a)
    BY <2>2 DEF Fields, SameGroups
  <2> HIDE DEF a
  <2>7. DbOk(parse, a)
    <3>1. d.stored \subseteq a.stored /\ (d.stored \subseteq Records => a.stored \subseteq Records)
      BY <2>3
    <3>2. /\ DOMAIN a.evidence \subseteq a.stored /\ a.version = Cardinality(DOMAIN a.evidence)
          /\ TableOf(a.edges, EdgeKeys, a.evidence, DOMAIN a.evidence)
      BY <2>2, <2>5, <3>1 DEF DbOk, SameGraph
    <3> QED
      BY <2>2, <2>3, <2>6, <3>1, <3>2 DEF DbOk, SameGroups
  <2>8. SevereFull(a)
    BY <2>6 DEF Whole, SevereFull, SameGroups
  <2>9. r \in a.stored \ DOMAIN a.member
    BY <1>2, <2>2, <2>3, <2>6 DEF SameGroups
  <2>10. a.termed = DOMAIN a.groups
    BY <2>6 DEF SameGroups, Whole, Complete
  <2>11. /\ DbOk(parse, b) /\ SevereFull(b)
         /\ DOMAIN b.member = DOMAIN a.member \cup {r} /\ b.termed = DOMAIN b.groups
         /\ b.stored = a.stored /\ SameMarks(a, b) /\ SameGraph(a, b)
    <3>1. Indexed(parse, a, r)
      BY <1>0, <2>7, <2>8, <2>9, IndexKeeps
    <3> QED
      BY <2>10, <3>1 DEF Indexed
  <2> HIDE DEF b
  <2>12. r \in b.stored /\ Keyed(key, b) /\ b.evidence = d.evidence
    <3>1. r \in b.stored /\ b.evidence = d.evidence /\ d.stored \subseteq b.stored
      BY <2>3, <2>5, <2>9, <2>11 DEF SameGraph
    <3>2. Edged(key, d.stored) \subseteq Edged(key, b.stored)
      BY <3>1 DEF Edged
    <3> QED
      BY <2>2, <3>1, <3>2 DEF Keyed
  <2>13. /\ DbOk(parse, c) /\ Keyed(key, c)
         /\ DOMAIN c.evidence = DOMAIN b.evidence \cup Edged(key, {r})
         /\ c.stored = b.stored /\ SameMarks(b, c) /\ SameGroups(b, c)
    BY <2>11, <2>12, EdgeKeeps
  <2> HIDE DEF c
  <2>14. SevereFull(c)
    BY <2>11, <2>13 DEF SevereFull, SameGroups
  <2>15. Complete(key, c)
    <3>1. c.stored = d.stored \cup {r}
      BY <2>3, <2>11, <2>13
    <3>2. DOMAIN c.member = d.stored \cup {r} /\ c.termed = DOMAIN c.groups
      BY <2>2, <2>6, <2>11, <2>13 DEF SameGroups
    <3>3. DOMAIN c.evidence = Edged(key, d.stored) \cup Edged(key, {r})
      BY <2>2, <2>12, <2>13
    <3>4. Edged(key, d.stored) \cup Edged(key, {r}) = Edged(key, d.stored \cup {r})
      BY DEF Edged
    <3> QED
      BY <2>13, <3>1, <3>2, <3>3, <3>4 DEF Complete
  <2>16. SameMarks(d, c)
    BY <2>4, <2>11, <2>13, SameMarksTrans
  <2> QED
    BY <2>1, <2>13, <2>14, <2>15, <2>16 DEF Whole
<1> QED
  BY <1>1, <1>2

----------------------------------------------------------------------------
(* A loop over a page is the chain of its turns *)

CommitAll(d, page) == FoldLeft(CommitRecord, d, page)
CommitOldAll(d, page) == FoldLeft(CommitOldRecord, d, page)
IndexAll(d, page) == FoldLeft(IndexMissing, d, page)
LinkAll(d, page) == FoldLeft(IndexEdge, d, page)
SummariseAll(d, page) == FoldLeft(Summarise, d, page)

\* One turn of a loop
Turn(loop, d, x) ==
  IF loop = "commit" THEN CommitRecord(d, x)
  ELSE IF loop = "old commit" THEN CommitOldRecord(d, x)
  ELSE IF loop = "members" THEN IndexMissing(d, x)
  ELSE IF loop = "graph" THEN IndexEdge(d, x)
  ELSE Summarise(d, x)

\* The function on sets of positions that FoldLeft computes a loop with
Iterates(loop, base, seq, f) ==
  f = [s \in SUBSET DOMAIN seq |->
        IF s = {} THEN base
        ELSE LET x == CHOOSE x \in s : \A y \in s : x >= y
             IN Turn(loop, f[s \ {x}], seq[x])]

\* f has what each turn of a loop leaves
Run(loop, base, seq, result, f) ==
  /\ f[0] = base /\ result = f[Len(seq)]
  /\ \A i \in 1 .. Len(seq) : f[i] = Turn(loop, f[i - 1], seq[i])

\* Induction over the natural numbers, for the numbers of a set: how the loops over
\* pages are followed.
LEMMA NatInductive ==
  ASSUME NEW S, 0 \in S, \A n \in S \cap Nat : n + 1 \in S
  PROVE  Nat \subseteq S
<1> SUFFICES ASSUME Nat \ S # {} PROVE FALSE
  OBVIOUS
<1> DEFINE R == OpToRel(<, Nat)
           T == Nat \ S
<1>1. PICK x \in T : \A y \in T : ~(<<y, x>> \in R)
  <2>1. IsWellFoundedOn(R, Nat)
    BY NatLessThanWellFounded
  <2> HIDE DEF R
  <2> QED BY <2>1, WFMin
<1>2. x # 0 /\ x \in Nat
  OBVIOUS
<1>3. x - 1 \in Nat /\ x - 1 < x /\ (x - 1) + 1 = x
  BY <1>2, SMTT(60)
<1>4. <<x - 1, x>> \in R
  BY <1>2, <1>3, SMTT(60) DEF OpToRel
<1>5. x - 1 \in S
  BY <1>1, <1>3, <1>4
<1> QED
  BY <1>2, <1>3, <1>5

\* Induction over the steps of a loop over a page.
LEMMA LoopInduction ==
  ASSUME NEW n \in Nat, NEW S, 0 \in S, \A i \in 1 .. n : i - 1 \in S => i \in S
  PROVE  n \in S
<1> DEFINE T == {i \in Nat : i <= n => i \in S}
<1>1. 0 \in T
  BY SMTT(60)
<1>2. \A i \in T \cap Nat : i + 1 \in T
  <2> SUFFICES ASSUME NEW i \in T, i + 1 <= n PROVE i + 1 \in S
    BY SMTT(60)
  <2>1. i \in Nat /\ i <= n /\ i + 1 \in 1 .. n /\ (i + 1) - 1 = i
    BY SMTT(60)
  <2> QED
    BY <2>1
<1> HIDE DEF T
<1>3. Nat \subseteq T
  BY <1>1, <1>2, NatInductive
<1>4. n <= n
  BY SMTT(60)
<1> QED
  BY <1>3, <1>4 DEF T

\* The last position of a page, and the positions before it.
LEMMA Greatest ==
  ASSUME NEW n \in Nat, NEW s \in SUBSET (1 .. n + 1), n + 1 \in s
  PROVE  /\ (CHOOSE x \in s : \A y \in s : x >= y) = n + 1
         /\ s \ {n + 1} \in SUBSET (1 .. n)
<1>1. \A y \in s : n + 1 >= y /\ (y >= n + 1 => y = n + 1)
  BY SMTT(60)
<1>2. s \ {n + 1} \in SUBSET (1 .. n)
  BY SMTT(60)
<1> QED
  BY <1>1, <1>2

\* The function that a loop over a page is computed with exists for every page
\* (FoldLeft, for commit_page_checked and the backfills).
LEMMA IteratesExists ==
  ASSUME NEW loop, NEW base, NEW T
  PROVE  \A seq \in Seq(T) : \E f : Iterates(loop, base, seq, f)
<1> DEFINE S == {n \in Nat : \A seq \in Seq(T) : Len(seq) = n => \E f : Iterates(loop, base, seq, f)}
<1>1. 0 \in S
  <2> SUFFICES ASSUME NEW seq \in Seq(T), Len(seq) = 0 PROVE \E f : Iterates(loop, base, seq, f)
    OBVIOUS
  <2>1. DOMAIN seq = {}
    BY SMTT(60)
  <2>2. \A s \in SUBSET DOMAIN seq : s = {}
    BY <2>1
  <2>3. Iterates(loop, base, seq, [s \in SUBSET DOMAIN seq |-> base])
    BY <2>2 DEF Iterates
  <2> QED
    BY <2>3
<1>2. ASSUME NEW n \in S \cap Nat PROVE n + 1 \in S
  <2> SUFFICES ASSUME NEW seq \in Seq(T), Len(seq) = n + 1
               PROVE  \E f : Iterates(loop, base, seq, f)
    <3>1. n + 1 \in Nat
      BY SMTT(60)
    <3> QED BY <3>1
  <2> DEFINE tt == [i \in 1 .. n |-> seq[i]]
  <2>1. /\ tt \in Seq(T) /\ Len(tt) = n /\ DOMAIN tt = 1 .. n /\ DOMAIN seq = 1 .. n + 1
        /\ \A i \in 1 .. n : tt[i] = seq[i]
    BY SMTT(60)
  <2> HIDE DEF tt
  <2>2. PICK f : Iterates(loop, base, tt, f)
    BY <2>1
  <2> DEFINE last(s) == CHOOSE x \in s : \A y \in s : x >= y
             g == [s \in SUBSET (1 .. n + 1) |->
                    IF n + 1 \in s THEN Turn(loop, f[s \ {n + 1}], seq[n + 1]) ELSE f[s]]
  <2>3. ASSUME NEW s \in SUBSET (1 .. n + 1), n + 1 \notin s
        PROVE  s \in SUBSET (1 .. n)
    BY <2>3, SMTT(60)
  <2>4. ASSUME NEW s \in SUBSET (1 .. n), s # {}
        PROVE  last(s) \in s
    <3>1. \E x \in s : \A y \in s : x >= y
      <4> DEFINE R == {m \in Nat : \A x \in s : x + m <= n}
      <4> SUFFICES ASSUME \A x \in s : \E y \in s : ~(x >= y) PROVE FALSE
        OBVIOUS
      <4>1. 0 \in R
        BY SMTT(60)
      <4>2. ASSUME NEW m \in R \cap Nat PROVE m + 1 \in R
        <5>1. ASSUME NEW x \in s PROVE x + (m + 1) <= n
          <6>1. PICK y \in s : ~(x >= y)
            OBVIOUS
          <6>2. y + m <= n
            OBVIOUS
          <6> QED
            BY <6>1, <6>2, SMTT(60)
        <5> QED
          BY <5>1, SMTT(60)
      <4>3. Nat \subseteq R
        <5> HIDE DEF R
        <5> QED BY <4>1, <4>2, NatInductive
      <4>4. PICK x \in s : TRUE
        BY <2>4
      <4>5. x + n <= n /\ x \in 1 .. n
        BY <4>3
      <4> QED
        BY <4>5, SMTT(60)
    <3> QED
      BY <3>1
  <2>5. Iterates(loop, base, seq, g)
    <3>1. f = [s \in SUBSET (1 .. n) |->
                IF s = {} THEN base ELSE Turn(loop, f[s \ {last(s)}], tt[last(s)])]
      BY <2>1, <2>2 DEF Iterates
    <3>2. ASSUME NEW s \in SUBSET (1 .. n + 1)
          PROVE  g[s] = IF s = {} THEN base ELSE Turn(loop, g[s \ {last(s)}], seq[last(s)])
      <4>1. CASE n + 1 \in s
        <5>1. last(s) = n + 1 /\ s \ {n + 1} \in SUBSET (1 .. n)
          BY <4>1, Greatest
        <5>2. s \ {n + 1} \in SUBSET (1 .. n + 1) /\ n + 1 \notin s \ {n + 1}
          OBVIOUS
        <5> HIDE DEF last
        <5> QED
          BY <4>1, <5>1, <5>2
      <4>2. CASE n + 1 \notin s
        <5>1. s \in SUBSET (1 .. n) /\ g[s] = f[s]
          BY <2>3, <4>2
        <5>2. CASE s = {}
          BY <3>1, <5>1, <5>2
        <5>3. CASE s # {}
          <6>1. last(s) \in s /\ last(s) \in 1 .. n
            BY <2>4, <5>1, <5>3
          <6>2. /\ s \ {last(s)} \in SUBSET (1 .. n + 1) /\ n + 1 \notin s \ {last(s)}
            BY <4>2
          <6> HIDE DEF last
          <6>3. g[s \ {last(s)}] = f[s \ {last(s)}]
            BY <6>2
          <6> QED
            BY <2>1, <3>1, <5>1, <5>3, <6>1, <6>3
        <5> QED
          BY <5>2, <5>3
      <4> QED
        BY <4>1, <4>2
    <3> QED
      BY <2>1, <3>2 DEF Iterates
  <2> QED
    BY <2>5
<1>3. Nat \subseteq S
  <2> HIDE DEF S
  <2> QED BY <1>1, <1>2, NatInductive
<1>4. \A seq \in Seq(T) : Len(seq) \in Nat
  BY SMTT(60)
<1> QED
  BY <1>3, <1>4

\* A loop makes one turn after the other: the values it goes through.
LEMMA TurnSteps ==
  ASSUME NEW T, NEW seq \in Seq(T), NEW base, NEW loop, NEW it, Iterates(loop, base, seq, it)
  PROVE  \E f : Run(loop, base, seq, it[DOMAIN seq], f)
<1> DEFINE n == Len(seq)
           f == [i \in 0 .. n |-> it[1 .. i]]
<1>1. n \in Nat /\ DOMAIN seq = 1 .. n /\ 0 \in 0 .. n /\ n \in 0 .. n /\ 1 .. 0 = {}
  BY SMTT(60)
<1> HIDE DEF n
<1>2. f[0] = base
  BY <1>1 DEF Iterates
<1>3. ASSUME NEW i \in 1 .. n PROVE f[i] = Turn(loop, f[i - 1], seq[i])
  <2> DEFINE s == 1 .. i
             m == i - 1
  <2>1. /\ m \in Nat /\ m + 1 = i /\ i \in s /\ s \in SUBSET (1 .. n) /\ s # {}
        /\ i \in 0 .. n /\ m \in 0 .. n
    <3> HIDE DEF f
    <3>1. m \in Nat /\ m + 1 = i /\ i \in s /\ i \in 0 .. n /\ m \in 0 .. n
      BY <1>1, SMTT(60)
    <3>2. \A x \in s : x \in 1 .. n
      BY <1>1, SMTT(60)
    <3> HIDE DEF s
    <3> QED
      BY <3>1, <3>2
  <2> HIDE DEF m
  <2>2. (CHOOSE x \in s : \A y \in s : x >= y) = i
    BY <2>1, Greatest
  <2>3. s \ {i} = 1 .. m
    <3>1. \A x : x \in 1 .. i /\ x # i <=> x \in 1 .. m
      BY <2>1, SMTT(60)
    <3> QED
      BY <3>1
  <2> HIDE DEF s
  <2>4. it[s] = Turn(loop, it[s \ {i}], seq[i])
    BY <1>1, <2>1, <2>2 DEF Iterates
  <2>5. f[i] = it[s] /\ f[m] = it[1 .. m]
    BY <2>1 DEF s
  <2> HIDE DEF f
  <2> QED
    BY <2>1, <2>3, <2>4, <2>5 DEF m
<1> QED
  BY <1>1, <1>2, <1>3 DEF n, Run

CommitRun(d, page, f) ==
  /\ f[0] = d /\ CommitAll(d, page) = f[Len(page)]
  /\ \A i \in 1 .. Len(page) : f[i] = CommitRecord(f[i - 1], page[i])

\* The records of a page are committed one after the other (commit_page_checked).
LEMMA CommitSteps ==
  ASSUME NEW T, NEW page \in Seq(T), NEW d
  PROVE  \E f : CommitRun(d, page, f)
<1> DEFINE last(s) == CHOOSE x \in s : \A y \in s : x >= y
           it(f) == f = [s \in SUBSET DOMAIN page |->
                           IF s = {} THEN d ELSE CommitRecord(f[s \ {last(s)}], page[last(s)])]
           h == CHOOSE f : it(f)
<1>1. \A a, b : Turn("commit", a, b) = CommitRecord(a, b)
  BY DEF Turn
<1>2. ASSUME NEW f PROVE it(f) <=> Iterates("commit", d, page, f)
  <2>1. Iterates("commit", d, page, f) <=>
          f = [s \in SUBSET DOMAIN page |->
                IF s = {} THEN d ELSE Turn("commit", f[s \ {last(s)}], page[last(s)])]
    BY DEF Iterates
  <2> HIDE DEF last
  <2>2. [s \in SUBSET DOMAIN page |->
          IF s = {} THEN d ELSE Turn("commit", f[s \ {last(s)}], page[last(s)])] =
        [s \in SUBSET DOMAIN page |->
          IF s = {} THEN d ELSE CommitRecord(f[s \ {last(s)}], page[last(s)])]
    BY <1>1
  <2> QED
    BY <2>1, <2>2
<1>3. \E f : it(f)
  <2>1. \E f : Iterates("commit", d, page, f)
    BY IteratesExists
  <2> HIDE DEF it
  <2> QED
    BY <1>2, <2>1
<1>4. it(h)
  <2> HIDE DEF it
  <2> QED
    BY <1>3
<1>5. Iterates("commit", d, page, h)
  <2> HIDE DEF it, h
  <2> QED
    BY <1>2, <1>4
<1>6. CommitAll(d, page) = h[DOMAIN page]
  BY DEF CommitAll, FoldLeft, Max, MapThenFoldSet
<1> HIDE DEF h, it, last
<1>7. PICK f : Run("commit", d, page, h[DOMAIN page], f)
  BY <1>5, TurnSteps
<1>8. /\ f[0] = d /\ h[DOMAIN page] = f[Len(page)]
      /\ \A i \in 1 .. Len(page) : f[i] = Turn("commit", f[i - 1], page[i])
  BY <1>7 DEF Run
<1>9. \A i \in 1 .. Len(page) : f[i] = CommitRecord(f[i - 1], page[i])
  BY <1>1, <1>8
<1>10. CommitRun(d, page, f)
  BY <1>6, <1>8, <1>9 DEF CommitRun
<1> QED
  BY <1>10

CommitOldRun(d, page, f) ==
  /\ f[0] = d /\ CommitOldAll(d, page) = f[Len(page)]
  /\ \A i \in 1 .. Len(page) : f[i] = CommitOldRecord(f[i - 1], page[i])

\* An earlier program committed them one after the other (commit_page_checked).
LEMMA OldCommitSteps ==
  ASSUME NEW T, NEW page \in Seq(T), NEW d
  PROVE  \E f : CommitOldRun(d, page, f)
<1> DEFINE last(s) == CHOOSE x \in s : \A y \in s : x >= y
           it(f) == f = [s \in SUBSET DOMAIN page |->
                           IF s = {} THEN d ELSE CommitOldRecord(f[s \ {last(s)}], page[last(s)])]
           h == CHOOSE f : it(f)
<1>1. \A a, b : Turn("old commit", a, b) = CommitOldRecord(a, b)
  BY DEF Turn
<1>2. ASSUME NEW f PROVE it(f) <=> Iterates("old commit", d, page, f)
  <2>1. Iterates("old commit", d, page, f) <=>
          f = [s \in SUBSET DOMAIN page |->
                IF s = {} THEN d ELSE Turn("old commit", f[s \ {last(s)}], page[last(s)])]
    BY DEF Iterates
  <2> HIDE DEF last
  <2>2. [s \in SUBSET DOMAIN page |->
          IF s = {} THEN d ELSE Turn("old commit", f[s \ {last(s)}], page[last(s)])] =
        [s \in SUBSET DOMAIN page |->
          IF s = {} THEN d ELSE CommitOldRecord(f[s \ {last(s)}], page[last(s)])]
    BY <1>1
  <2> QED
    BY <2>1, <2>2
<1>3. \E f : it(f)
  <2>1. \E f : Iterates("old commit", d, page, f)
    BY IteratesExists
  <2> HIDE DEF it
  <2> QED
    BY <1>2, <2>1
<1>4. it(h)
  <2> HIDE DEF it
  <2> QED
    BY <1>3
<1>5. Iterates("old commit", d, page, h)
  <2> HIDE DEF it, h
  <2> QED
    BY <1>2, <1>4
<1>6. CommitOldAll(d, page) = h[DOMAIN page]
  BY DEF CommitOldAll, FoldLeft, Max, MapThenFoldSet
<1> HIDE DEF h, it, last
<1>7. PICK f : Run("old commit", d, page, h[DOMAIN page], f)
  BY <1>5, TurnSteps
<1>8. /\ f[0] = d /\ h[DOMAIN page] = f[Len(page)]
      /\ \A i \in 1 .. Len(page) : f[i] = Turn("old commit", f[i - 1], page[i])
  BY <1>7 DEF Run
<1>9. \A i \in 1 .. Len(page) : f[i] = CommitOldRecord(f[i - 1], page[i])
  BY <1>1, <1>8
<1>10. CommitOldRun(d, page, f)
  BY <1>6, <1>8, <1>9 DEF CommitOldRun
<1> QED
  BY <1>10

IndexRun(d, page, f) ==
  /\ f[0] = d /\ IndexAll(d, page) = f[Len(page)]
  /\ \A i \in 1 .. Len(page) : f[i] = IndexMissing(f[i - 1], page[i])

\* The records of a page of read_page that have no group are indexed one after the
\* other (index_unindexed_records).
LEMMA MissingSteps ==
  ASSUME NEW T, NEW page \in Seq(T), NEW d
  PROVE  \E f : IndexRun(d, page, f)
<1> DEFINE last(s) == CHOOSE x \in s : \A y \in s : x >= y
           it(f) == f = [s \in SUBSET DOMAIN page |->
                           IF s = {} THEN d ELSE IndexMissing(f[s \ {last(s)}], page[last(s)])]
           h == CHOOSE f : it(f)
<1>1. \A a, b : Turn("members", a, b) = IndexMissing(a, b)
  BY DEF Turn
<1>2. ASSUME NEW f PROVE it(f) <=> Iterates("members", d, page, f)
  <2>1. Iterates("members", d, page, f) <=>
          f = [s \in SUBSET DOMAIN page |->
                IF s = {} THEN d ELSE Turn("members", f[s \ {last(s)}], page[last(s)])]
    BY DEF Iterates
  <2> HIDE DEF last
  <2>2. [s \in SUBSET DOMAIN page |->
          IF s = {} THEN d ELSE Turn("members", f[s \ {last(s)}], page[last(s)])] =
        [s \in SUBSET DOMAIN page |->
          IF s = {} THEN d ELSE IndexMissing(f[s \ {last(s)}], page[last(s)])]
    BY <1>1
  <2> QED
    BY <2>1, <2>2
<1>3. \E f : it(f)
  <2>1. \E f : Iterates("members", d, page, f)
    BY IteratesExists
  <2> HIDE DEF it
  <2> QED
    BY <1>2, <2>1
<1>4. it(h)
  <2> HIDE DEF it
  <2> QED
    BY <1>3
<1>5. Iterates("members", d, page, h)
  <2> HIDE DEF it, h
  <2> QED
    BY <1>2, <1>4
<1>6. IndexAll(d, page) = h[DOMAIN page]
  BY DEF IndexAll, FoldLeft, Max, MapThenFoldSet
<1> HIDE DEF h, it, last
<1>7. PICK f : Run("members", d, page, h[DOMAIN page], f)
  BY <1>5, TurnSteps
<1>8. /\ f[0] = d /\ h[DOMAIN page] = f[Len(page)]
      /\ \A i \in 1 .. Len(page) : f[i] = Turn("members", f[i - 1], page[i])
  BY <1>7 DEF Run
<1>9. \A i \in 1 .. Len(page) : f[i] = IndexMissing(f[i - 1], page[i])
  BY <1>1, <1>8
<1>10. IndexRun(d, page, f)
  BY <1>6, <1>8, <1>9 DEF IndexRun
<1> QED
  BY <1>10

LinkRun(d, page, f) ==
  /\ f[0] = d /\ LinkAll(d, page) = f[Len(page)]
  /\ \A i \in 1 .. Len(page) : f[i] = IndexEdge(f[i - 1], page[i])

\* The edges of a page of read_page are added one after the other
\* (backfill_graph_if_needed).
LEMMA EdgeSteps ==
  ASSUME NEW T, NEW page \in Seq(T), NEW d
  PROVE  \E f : LinkRun(d, page, f)
<1> DEFINE last(s) == CHOOSE x \in s : \A y \in s : x >= y
           it(f) == f = [s \in SUBSET DOMAIN page |->
                           IF s = {} THEN d ELSE IndexEdge(f[s \ {last(s)}], page[last(s)])]
           h == CHOOSE f : it(f)
<1>1. \A a, b : Turn("graph", a, b) = IndexEdge(a, b)
  BY DEF Turn
<1>2. ASSUME NEW f PROVE it(f) <=> Iterates("graph", d, page, f)
  <2>1. Iterates("graph", d, page, f) <=>
          f = [s \in SUBSET DOMAIN page |->
                IF s = {} THEN d ELSE Turn("graph", f[s \ {last(s)}], page[last(s)])]
    BY DEF Iterates
  <2> HIDE DEF last
  <2>2. [s \in SUBSET DOMAIN page |->
          IF s = {} THEN d ELSE Turn("graph", f[s \ {last(s)}], page[last(s)])] =
        [s \in SUBSET DOMAIN page |->
          IF s = {} THEN d ELSE IndexEdge(f[s \ {last(s)}], page[last(s)])]
    BY <1>1
  <2> QED
    BY <2>1, <2>2
<1>3. \E f : it(f)
  <2>1. \E f : Iterates("graph", d, page, f)
    BY IteratesExists
  <2> HIDE DEF it
  <2> QED
    BY <1>2, <2>1
<1>4. it(h)
  <2> HIDE DEF it
  <2> QED
    BY <1>3
<1>5. Iterates("graph", d, page, h)
  <2> HIDE DEF it, h
  <2> QED
    BY <1>2, <1>4
<1>6. LinkAll(d, page) = h[DOMAIN page]
  BY DEF LinkAll, FoldLeft, Max, MapThenFoldSet
<1> HIDE DEF h, it, last
<1>7. PICK f : Run("graph", d, page, h[DOMAIN page], f)
  BY <1>5, TurnSteps
<1>8. /\ f[0] = d /\ h[DOMAIN page] = f[Len(page)]
      /\ \A i \in 1 .. Len(page) : f[i] = Turn("graph", f[i - 1], page[i])
  BY <1>7 DEF Run
<1>9. \A i \in 1 .. Len(page) : f[i] = IndexEdge(f[i - 1], page[i])
  BY <1>1, <1>8
<1>10. LinkRun(d, page, f)
  BY <1>6, <1>8, <1>9 DEF LinkRun
<1> QED
  BY <1>10

SummariseRun(d, page, f) ==
  /\ f[0] = d /\ SummariseAll(d, page) = f[Len(page)]
  /\ \A i \in 1 .. Len(page) : f[i] = Summarise(f[i - 1], page[i])

\* The groups of a page are summarised one after the other (backfill of
\* severe_services).
LEMMA SummariseSteps ==
  ASSUME NEW T, NEW page \in Seq(T), NEW d
  PROVE  \E f : SummariseRun(d, page, f)
<1> DEFINE last(s) == CHOOSE x \in s : \A y \in s : x >= y
           it(f) == f = [s \in SUBSET DOMAIN page |->
                           IF s = {} THEN d ELSE Summarise(f[s \ {last(s)}], page[last(s)])]
           h == CHOOSE f : it(f)
<1>1. \A a, b : Turn("services", a, b) = Summarise(a, b)
  BY DEF Turn
<1>2. ASSUME NEW f PROVE it(f) <=> Iterates("services", d, page, f)
  <2>1. Iterates("services", d, page, f) <=>
          f = [s \in SUBSET DOMAIN page |->
                IF s = {} THEN d ELSE Turn("services", f[s \ {last(s)}], page[last(s)])]
    BY DEF Iterates
  <2> HIDE DEF last
  <2>2. [s \in SUBSET DOMAIN page |->
          IF s = {} THEN d ELSE Turn("services", f[s \ {last(s)}], page[last(s)])] =
        [s \in SUBSET DOMAIN page |->
          IF s = {} THEN d ELSE Summarise(f[s \ {last(s)}], page[last(s)])]
    BY <1>1
  <2> QED
    BY <2>1, <2>2
<1>3. \E f : it(f)
  <2>1. \E f : Iterates("services", d, page, f)
    BY IteratesExists
  <2> HIDE DEF it
  <2> QED
    BY <1>2, <2>1
<1>4. it(h)
  <2> HIDE DEF it
  <2> QED
    BY <1>3
<1>5. Iterates("services", d, page, h)
  <2> HIDE DEF it, h
  <2> QED
    BY <1>2, <1>4
<1>6. SummariseAll(d, page) = h[DOMAIN page]
  BY DEF SummariseAll, FoldLeft, Max, MapThenFoldSet
<1> HIDE DEF h, it, last
<1>7. PICK f : Run("services", d, page, h[DOMAIN page], f)
  BY <1>5, TurnSteps
<1>8. /\ f[0] = d /\ h[DOMAIN page] = f[Len(page)]
      /\ \A i \in 1 .. Len(page) : f[i] = Turn("services", f[i - 1], page[i])
  BY <1>7 DEF Run
<1>9. \A i \in 1 .. Len(page) : f[i] = Summarise(f[i - 1], page[i])
  BY <1>1, <1>8
<1>10. SummariseRun(d, page, f)
  BY <1>6, <1>8, <1>9 DEF SummariseRun
<1> QED
  BY <1>10

----------------------------------------------------------------------------
(* What the loops over pages leave *)

\* Versions and backfill marks before the first record of a page.
LEMMA SameMarksRefl == ASSUME NEW d PROVE SameMarks(d, d)
  BY DEF SameMarks

\* A page is committed: the tables stay whole (commit_page_checked).
LEMMA CommitLoop ==
  ASSUME NEW page \in Seq(Records), NEW d, Whole(Parsed, Peer, d)
  PROVE  LET e == CommitAll(d, page) IN Whole(Parsed, Peer, e) /\ SameMarks(d, e)
<1>1. PICK f : /\ f[0] = d /\ CommitAll(d, page) = f[Len(page)]
               /\ \A i \in 1 .. Len(page) : f[i] = CommitRecord(f[i - 1], page[i])
  <2>1. \E f : CommitRun(d, page, f)
    BY CommitSteps
  <2> QED
    BY <2>1 DEF CommitRun
<1>2. Len(page) \in Nat /\ \A i \in 1 .. Len(page) : page[i] \in Records /\ i - 1 \in Nat
  BY SMTT(60)
<1>3. Parsed \in Parsers /\ Peer \in Extractors
  BY DEF Parsers, Extractors
<1> DEFINE S == {i \in Nat : Whole(Parsed, Peer, f[i]) /\ SameMarks(d, f[i])}
<1>4. 0 \in S
  BY <1>1, SameMarksRefl
<1>5. ASSUME NEW i \in 1 .. Len(page), i - 1 \in S PROVE i \in S
  <2>1. f[i] = CommitParsed(Parsed, Peer, f[i - 1], page[i])
    BY <1>1 DEF CommitRecord
  <2>2. Whole(Parsed, Peer, f[i]) /\ SameMarks(f[i - 1], f[i])
    BY <1>2, <1>3, <1>5, <2>1, CommitKeeps
  <2>3. i \in Nat
    BY SMTT(60)
  <2> QED
    BY <1>5, <2>2, <2>3, SameMarksTrans
<1> HIDE DEF S
<1>6. Len(page) \in S
  BY <1>2, <1>4, <1>5, LoopInduction
<1> QED
  BY <1>1, <1>6 DEF S

\* A page that an earlier program committed: its tables are whole for its own parser
\* and extractor (commit_page_checked).
LEMMA OldCommitLoop ==
  ASSUME NEW page \in Seq(Records), NEW d,
         Whole(ParserOf(d.parser), ExtractorOf(d.extractor), d)
  PROVE  LET e == CommitOldAll(d, page)
         IN Whole(ParserOf(d.parser), ExtractorOf(d.extractor), e) /\ SameMarks(d, e)
<1> DEFINE parse == ParserOf(d.parser)
           peer == ExtractorOf(d.extractor)
<1>1. PICK f : /\ f[0] = d /\ CommitOldAll(d, page) = f[Len(page)]
               /\ \A i \in 1 .. Len(page) : f[i] = CommitOldRecord(f[i - 1], page[i])
  <2>1. \E f : CommitOldRun(d, page, f)
    BY OldCommitSteps
  <2> QED
    BY <2>1 DEF CommitOldRun
<1>2. Len(page) \in Nat /\ \A i \in 1 .. Len(page) : page[i] \in Records /\ i - 1 \in Nat
  BY SMTT(60)
<1>3. parse \in Parsers /\ peer \in Extractors
  BY DEF Parsers, Extractors, ParserOf, ExtractorOf
<1> HIDE DEF parse, peer
<1> DEFINE S == {i \in Nat : Whole(parse, peer, f[i]) /\ SameMarks(d, f[i])}
<1>4. 0 \in S
  BY <1>1, SameMarksRefl DEF parse, peer
<1>5. ASSUME NEW i \in 1 .. Len(page), i - 1 \in S PROVE i \in S
  <2>1. f[i] = CommitParsed(parse, peer, f[i - 1], page[i])
    BY <1>1, <1>5 DEF CommitOldRecord, SameMarks, parse, peer
  <2>2. Whole(parse, peer, f[i]) /\ SameMarks(f[i - 1], f[i])
    BY <1>2, <1>3, <1>5, <2>1, CommitKeeps
  <2>3. i \in Nat
    BY SMTT(60)
  <2> QED
    BY <1>5, <2>2, <2>3, SameMarksTrans
<1> HIDE DEF S
<1>6. Len(page) \in S
  BY <1>2, <1>4, <1>5, LoopInduction
<1> QED
  BY <1>1, <1>6 DEF S, parse, peer

\* The first records of a page
First(page, i) == {page[j] : j \in 1 .. i}

\* The first records of a page, and the next.
LEMMA PageParts ==
  ASSUME NEW T, NEW page \in Seq(T)
  PROVE  /\ Len(page) \in Nat /\ Range(page) = First(page, Len(page))
         /\ First(page, 0) = {}
         /\ \A i \in 1 .. Len(page) :
              /\ i - 1 \in Nat /\ i \in Nat /\ page[i] \in T
              /\ First(page, i) = First(page, i - 1) \cup {page[i]}
<1>1. Len(page) \in Nat /\ DOMAIN page = 1 .. Len(page) /\ 1 .. 0 = {}
  BY SMTT(60)
<1>2. ASSUME NEW i \in 1 .. Len(page)
      PROVE  /\ i - 1 \in Nat /\ i \in Nat /\ page[i] \in T
             /\ 1 .. i = (1 .. i - 1) \cup {i}
  BY SMTT(60)
<1>3. ASSUME NEW i \in 1 .. Len(page)
      PROVE  First(page, i) = First(page, i - 1) \cup {page[i]}
  BY <1>2 DEF First
<1>4. Range(page) = First(page, Len(page)) /\ First(page, 0) = {}
  BY <1>1 DEF Range, First
<1> QED
  BY <1>1, <1>2, <1>3, <1>4

\* A page of the backfill of memberships gives each of its records a group.
MissingIndexed(d, e, R) ==
  /\ DbOk(Parsed, e) /\ SevereFull(e)
  /\ DOMAIN e.member = DOMAIN d.member \cup R
  /\ d.termed = DOMAIN d.groups => e.termed = DOMAIN e.groups
  /\ e.stored = d.stored /\ SameMarks(d, e) /\ SameGraph(d, e)

\* A record of a page of index_unindexed_records: one that has a group is passed over.
LEMMA MissingStep ==
  ASSUME NEW d, NEW a, NEW R, MissingIndexed(d, a, R), NEW r \in d.stored
  PROVE  MissingIndexed(d, IndexMissing(a, r), R \cup {r})
<1>1. /\ DbOk(Parsed, a) /\ SevereFull(a) /\ DOMAIN a.member = DOMAIN d.member \cup R
      /\ d.termed = DOMAIN d.groups => a.termed = DOMAIN a.groups
      /\ a.stored = d.stored /\ SameMarks(d, a) /\ SameGraph(d, a)
  BY DEF MissingIndexed
<1>2. CASE r \in DOMAIN a.member
  <2>1. IndexMissing(a, r) = a
    BY <1>2 DEF IndexMissing
  <2>2. DOMAIN a.member = DOMAIN d.member \cup (R \cup {r})
    BY <1>1, <1>2
  <2> QED
    BY <1>1, <2>1, <2>2 DEF MissingIndexed
<1>3. CASE r \notin DOMAIN a.member
  <2> DEFINE b == IndexNewRecord(Parsed, a, r)
  <2>1. IndexMissing(a, r) = b
    BY <1>3 DEF IndexMissing
  <2>2. \A x \in Records : Parsed[x] \in Cards
    BY RecordsAssumption
  <2>3. r \in a.stored \ DOMAIN a.member
    BY <1>1, <1>3
  <2>4. Indexed(Parsed, a, r)
    BY <1>1, <2>2, <2>3, IndexKeeps
  <2>5. /\ DbOk(Parsed, b) /\ SevereFull(b)
        /\ DOMAIN b.member = DOMAIN a.member \cup {r}
        /\ a.termed = DOMAIN a.groups => b.termed = DOMAIN b.groups
        /\ b.stored = a.stored /\ SameMarks(a, b) /\ SameGraph(a, b)
    BY <2>4 DEF Indexed
  <2> HIDE DEF b
  <2>6. SameMarks(d, b) /\ SameGraph(d, b)
    BY <1>1, <2>5, SameMarksTrans DEF SameGraph
  <2>7. DOMAIN b.member = DOMAIN d.member \cup (R \cup {r})
    BY <1>1, <2>5
  <2> QED
    BY <1>1, <2>1, <2>5, <2>6, <2>7 DEF MissingIndexed
<1> QED
  BY <1>2, <1>3

\* A page of index_unindexed_records.
LEMMA MissingLoop ==
  ASSUME NEW d, DbOk(Parsed, d), SevereFull(d), NEW page \in Seq(d.stored)
  PROVE  MissingIndexed(d, IndexAll(d, page), Range(page))
<1>1. PICK f : /\ f[0] = d /\ IndexAll(d, page) = f[Len(page)]
               /\ \A i \in 1 .. Len(page) : f[i] = IndexMissing(f[i - 1], page[i])
  <2>1. \E f : IndexRun(d, page, f)
    BY MissingSteps
  <2> QED
    BY <2>1 DEF IndexRun
<1> DEFINE S == {i \in Nat : MissingIndexed(d, f[i], First(page, i))}
<1>2. /\ Len(page) \in Nat /\ Range(page) = First(page, Len(page)) /\ First(page, 0) = {}
      /\ \A i \in 1 .. Len(page) :
           /\ i - 1 \in Nat /\ i \in Nat /\ page[i] \in d.stored
           /\ First(page, i) = First(page, i - 1) \cup {page[i]}
  BY PageParts
<1>3. 0 \in S
  <2>1. MissingIndexed(d, d, {})
    BY SameMarksRefl DEF MissingIndexed, SameGraph
  <2> QED
    BY <1>1, <1>2, <2>1
<1>4. ASSUME NEW i \in 1 .. Len(page), i - 1 \in S PROVE i \in S
  <2>1. MissingIndexed(d, f[i - 1], First(page, i - 1)) /\ page[i] \in d.stored /\ i \in Nat
    BY <1>2, <1>4
  <2>2. MissingIndexed(d, IndexMissing(f[i - 1], page[i]), First(page, i - 1) \cup {page[i]})
    BY <2>1, MissingStep
  <2> QED
    BY <1>1, <1>2, <2>1, <2>2
<1> HIDE DEF S
<1>5. Len(page) \in S
  BY <1>2, <1>3, <1>4, LoopInduction
<1> QED
  BY <1>1, <1>2, <1>5 DEF S

\* The edges of this program
Key == EdgeKey(Parsed, Peer)

\* A page of the backfill of the graph adds the edges of its records.
EdgesIndexed(d, e, R) ==
  /\ DbOk(Parsed, e) /\ Keyed(Key, e)
  /\ DOMAIN e.evidence = DOMAIN d.evidence \cup Edged(Key, R)
  /\ e.stored = d.stored /\ SameMarks(d, e) /\ SameGroups(d, e)

\* A record of a page of backfill_graph_if_needed.
LEMMA EdgeStep ==
  ASSUME NEW d, NEW a, NEW R, EdgesIndexed(d, a, R), NEW r \in d.stored
  PROVE  EdgesIndexed(d, IndexEdge(a, r), R \cup {r})
<1> DEFINE b == IndexNewEdge(Parsed, Peer, a, r)
<1>1. /\ DbOk(Parsed, a) /\ Keyed(Key, a)
      /\ DOMAIN a.evidence = DOMAIN d.evidence \cup Edged(Key, R)
      /\ a.stored = d.stored /\ SameMarks(d, a) /\ SameGroups(d, a)
  BY DEF EdgesIndexed
<1>2. /\ DbOk(Parsed, b) /\ Keyed(Key, b)
      /\ DOMAIN b.evidence = DOMAIN a.evidence \cup Edged(Key, {r})
      /\ b.stored = a.stored /\ SameMarks(a, b) /\ SameGroups(a, b)
  <2>1. Parsed \in Parsers /\ Peer \in Extractors
    BY DEF Parsers, Extractors
  <2> QED
    BY <1>1, <2>1, EdgeKeeps DEF Key
<1>3. IndexEdge(a, r) = b
  BY DEF IndexEdge
<1> HIDE DEF b
<1>4. Edged(Key, R) \cup Edged(Key, {r}) = Edged(Key, R \cup {r})
  BY DEF Edged
<1>5. SameMarks(d, b) /\ SameGroups(d, b)
  BY <1>1, <1>2, SameMarksTrans DEF SameGroups
<1>6. DOMAIN b.evidence = DOMAIN d.evidence \cup Edged(Key, R \cup {r})
  BY <1>1, <1>2, <1>4
<1> QED
  BY <1>1, <1>2, <1>3, <1>5, <1>6 DEF EdgesIndexed

\* A page of backfill_graph_if_needed.
LEMMA EdgeLoop ==
  ASSUME NEW d, DbOk(Parsed, d), Keyed(Key, d), NEW page \in Seq(d.stored)
  PROVE  EdgesIndexed(d, LinkAll(d, page), Range(page))
<1>1. PICK f : /\ f[0] = d /\ LinkAll(d, page) = f[Len(page)]
               /\ \A i \in 1 .. Len(page) : f[i] = IndexEdge(f[i - 1], page[i])
  <2>1. \E f : LinkRun(d, page, f)
    BY EdgeSteps
  <2> QED
    BY <2>1 DEF LinkRun
<1> DEFINE S == {i \in Nat : EdgesIndexed(d, f[i], First(page, i))}
<1>2. /\ Len(page) \in Nat /\ Range(page) = First(page, Len(page)) /\ First(page, 0) = {}
      /\ \A i \in 1 .. Len(page) :
           /\ i - 1 \in Nat /\ i \in Nat /\ page[i] \in d.stored
           /\ First(page, i) = First(page, i - 1) \cup {page[i]}
  BY PageParts
<1>3. 0 \in S
  <2>1. EdgesIndexed(d, d, {})
    BY SameMarksRefl DEF EdgesIndexed, SameGroups, Edged
  <2> QED
    BY <1>1, <1>2, <2>1
<1>4. ASSUME NEW i \in 1 .. Len(page), i - 1 \in S PROVE i \in S
  <2>1. EdgesIndexed(d, f[i - 1], First(page, i - 1)) /\ page[i] \in d.stored /\ i \in Nat
    BY <1>2, <1>4
  <2>2. EdgesIndexed(d, IndexEdge(f[i - 1], page[i]), First(page, i - 1) \cup {page[i]})
    BY <2>1, EdgeStep
  <2> QED
    BY <1>1, <1>2, <2>1, <2>2
<1> HIDE DEF S
<1>5. Len(page) \in S
  BY <1>2, <1>3, <1>4, LoopInduction
<1> QED
  BY <1>1, <1>2, <1>5 DEF S

\* A page of the backfill of severe services summarises its groups.
LEMMA SummariseLoop ==
  ASSUME NEW K, db.groups \in Seq(Rows(K)), NEW c \in Nat, NEW last \in Nat,
         c <= last, last <= Len(db.groups), SevereExact(db.severe, db.groups, c)
  PROVE  SevereExact(SummariseAll(db.severe, [i \in 1 .. last - c |-> c + i]),
                     db.groups, last)
<1> DEFINE page == [i \in 1 .. last - c |-> c + i]
           g == db.groups

<1>1. page \in Seq(Nat) /\ Len(page) = last - c /\ last - c \in Nat /\ c + 0 = c
      /\ c + (last - c) = last
  BY SMTT(60)
<1>2. \A i \in 1 .. last - c : page[i] = c + i
  OBVIOUS
<1>3. \A i \in 1 .. last - c : /\ i - 1 \in Nat /\ i \in Nat /\ c + (i - 1) \in Nat
                               /\ (c + (i - 1)) + 1 = c + i /\ c + i \in DOMAIN g
  BY SMTT(60)
<1> HIDE DEF page
<1>4. PICK f : /\ f[0] = db.severe /\ SummariseAll(db.severe, page) = f[last - c]
               /\ \A i \in 1 .. last - c : f[i] = Summarise(f[i - 1], page[i])
  <2>1. \E f : SummariseRun(db.severe, page, f)
    BY <1>1, SummariseSteps
  <2> QED
    BY <1>1, <2>1 DEF SummariseRun
<1> DEFINE D == {i \in Nat : SevereExact(f[i], g, c + i)}
<1>5. 0 \in D
  BY <1>1, <1>4
<1>6. ASSUME NEW i \in 1 .. last - c, i - 1 \in D PROVE i \in D
  <2> DEFINE n == c + (i - 1)
             severe == f[i - 1]
  <2>1. SevereExact(severe, g, n) /\ n \in Nat /\ n + 1 = c + i /\ n + 1 \in DOMAIN g
    BY <1>3, <1>6
  <2>2. f[i] = Summarise(severe, n + 1)
    BY <1>2, <1>4, <2>1
  <2> HIDE DEF n, severe
  <2>3. CASE Severe(g[n + 1].key.role)
    <3>1. f[i] = UpsertSevere(severe, g[n + 1].key.service, n + 1,
                              Time[g[n + 1].first], Time[g[n + 1].last], TRUE)
      BY <2>2, <2>3 DEF Summarise
    <3> HIDE DEF g
    <3>2. g \in Seq(Rows(K))
      BY DEF g
    <3>3. SevereExact(f[i], g, n + 1)
      BY <2>1, <2>3, <3>1, <3>2, SevereNew
    <3> QED
      BY <1>3, <2>1, <3>3
  <2>4. CASE ~Severe(g[n + 1].key.role)
    <3>1. f[i] = severe
      BY <2>2, <2>4 DEF Summarise
    <3>2. SevereExact(f[i], g, n + 1)
      BY <2>1, <2>4, <3>1, SevereSkip
    <3> QED
      BY <1>3, <2>1, <3>2
  <2> QED
    BY <2>3, <2>4
<1> HIDE DEF D
<1>7. last - c \in D
  BY <1>1, <1>5, <1>6, LoopInduction
<1> QED
  BY <1>1, <1>4, <1>7 DEF D, page

----------------------------------------------------------------------------
(* Every table is exact as far as the marks and the cursor say *)

\* The groups of a corpus were made with the parser that it names
ParseOf(d) == ParserOf(d.parser)

\* A graph that open() does not clear has the edges of this program
GraphOk(d) ==
  d.parser # 1 /\ d.extractor = 2 =>
    Keyed(Key, d) /\ (d.graph => DOMAIN d.evidence = Edged(Key, d.stored))

\* What holds of a database whatever open() or commit is doing, also one that an
\* earlier program left: the tables are exact as far as the marks say.
DataOk(d) ==
  /\ DbOk(ParseOf(d), d)
  /\ d.parser \in {1, 2, 6} /\ d.extractor \in {1, 2}
  /\ ~d.services => d.at \in 0 .. Len(d.groups)
  /\ SevereExact(d.severe, d.groups, IF d.services THEN Len(d.groups) ELSE d.at)
  /\ d.terms => d.termed = DOMAIN d.groups
  /\ GraphOk(d)

\* The records that read_page has still to return after the cursor
RestOf(S, c) == {r \in S : c = 0 \/ Before(c, r)}

\* How far an open has come: what the backfills before the current one completed, and
\* what the pages up to the cursor did.
StepInv ==
  /\ pc \in {"closed", "extractor", "services", "services page", "members", "members page",
             "graph", "graph page", "terms", "terms page", "ready"}
  /\ pc # "closed" => db.parser = 6
  /\ pc \notin {"closed", "extractor"} => db.extractor = 2
  /\ pc = "services page" => ~db.services /\ cursor = db.at
  /\ pc \notin {"closed", "extractor", "services", "services page"} => db.services
  /\ pc = "members page" =>
       cursor \in Records \cup {0} /\ db.stored \ RestOf(db.stored, cursor) \subseteq DOMAIN db.member
  /\ pc \in {"graph", "graph page", "terms", "terms page", "ready"} => DOMAIN db.member = db.stored
  /\ pc = "graph page" =>
       /\ cursor \in Records \cup {0}
       /\ Edged(Key, db.stored \ RestOf(db.stored, cursor)) \subseteq DOMAIN db.evidence
  /\ pc \in {"terms", "terms page", "ready"} => db.graph
  /\ pc = "terms page" => cursor \in Nat /\ (1 .. cursor) \cap DOMAIN db.groups \subseteq db.termed
  /\ pc = "ready" => db.terms

IndexInv == DataOk(db) /\ StepInv

\* Tables without rows are exact.
LEMMA EmptyTables ==
  /\ \A K, key : TableOf(<<>>, K, key, {})
  /\ \A g : SevereExact(<<>>, g, 0)
<1>1. \A R : <<>> \in Seq(R)
  BY SMTT(60)
<1>2. DOMAIN <<>> = {}
  BY SMTT(60)
<1>3. ASSUME NEW K, NEW key PROVE TableOf(<<>>, K, key, {})
  BY <1>1, <1>2 DEF TableOf, Distinct
<1>4. ASSUME NEW g PROVE SevereExact(<<>>, g, 0)
  <2>1. 1 .. 0 = {}
    BY SMTT(60)
  <2>2. \A s : SevereIn(g, 0, s) = {}
    BY <2>1 DEF SevereIn
  <2>3. <<>> = [s \in DOMAIN <<>> |-> <<>>[s]]
    BY SMTT(60)
  <2> QED
    BY <1>2, <2>2, <2>3 DEF SevereExact
<1> QED
  BY <1>3, <1>4

\* An open that leaves the graph alone leaves it right (open, after a parser version
\* that came after the first).
LEMMA GraphStays ==
  ASSUME NEW d, NEW e, GraphOk(d), SameGraph(d, e), e.stored = d.stored,
         e.graph = d.graph, e.extractor = d.extractor, d.parser # 1
  PROVE  GraphOk(e)
<1>1. e.evidence = d.evidence
  BY DEF SameGraph
<1> QED
  BY <1>1 DEF GraphOk, Keyed

\* A corpus that was just created.
LEMMA FreshWhole ==
  ASSUME NEW parser, NEW extractor
  PROVE  LET d == Fresh(parser, extractor)
         IN /\ \A parse, peer : Whole(parse, peer, d)
            /\ d.parser = parser /\ d.extractor = extractor /\ d.at = 0
<1> DEFINE d == Fresh(parser, extractor)
<1>1. DOMAIN d = Fields
  BY DEF Fresh, Fields
<1>2. /\ d.stored = {} /\ d.groups = <<>> /\ d.member = <<>> /\ d.severe = <<>>
      /\ d.termed = {} /\ d.edges = <<>> /\ d.evidence = <<>> /\ d.version = 0
      /\ d.parser = parser /\ d.extractor = extractor /\ d.at = 0
  BY DEF Fresh
<1>3. DOMAIN <<>> = {} /\ Len(<<>>) = 0
  BY SMTT(60)
<1>4. Cardinality({}) = 0
  BY FS_EmptySet
<1>5. \A key : Edged(key, {}) = {}
  BY DEF Edged
<1> HIDE DEF d
<1>6. ASSUME NEW parse PROVE DbOk(parse, d)
  BY <1>1, <1>2, <1>3, <1>4, EmptyTables DEF DbOk
<1>7. SevereFull(d)
  BY <1>2, <1>3, EmptyTables DEF SevereFull
<1>8. ASSUME NEW key PROVE Complete(key, d)
  <2>1. <<>> = [r \in {} |-> key[r]]
    BY SMTT(60)
  <2>2. Keyed(key, d)
    BY <1>2, <1>3, <2>1 DEF Keyed
  <2> QED
    BY <1>2, <1>3, <1>5, <2>2 DEF Complete
<1> QED
  BY <1>2, <1>6, <1>7, <1>8 DEF Whole, d

\* What deleting the edges leaves (open, after a new extractor version).
LEMMA EdgesDropped ==
  ASSUME NEW parse, NEW d, DbOk(parse, d)
  PROVE  LET e == DropEdges(d)
         IN /\ DbOk(parse, e) /\ e.stored = d.stored /\ SameGroups(d, e) /\ SameMarks(d, e)
            /\ \A key : Keyed(key, e)
<1> DEFINE e == DropEdges(d)
<1>1. DOMAIN d = Fields
  BY DEF DbOk
<1>2. DOMAIN e = Fields /\ e.edges = <<>> /\ e.evidence = <<>> /\ e.version = 0
  BY <1>1 DEF DropEdges, Fields
<1>3. e.stored = d.stored /\ SameGroups(d, e)
  BY <1>1 DEF DropEdges, Fields, SameGroups
<1>4. SameMarks(d, e)
  BY <1>1 DEF DropEdges, Fields, SameMarks
<1> HIDE DEF e
<1>5. DOMAIN <<>> = {}
  BY SMTT(60)
<1>6. DbOk(parse, e)
  <2>1. Cardinality({}) = 0
    BY FS_EmptySet
  <2>2. TableOf(e.edges, EdgeKeys, e.evidence, DOMAIN e.evidence)
    BY <1>2, <1>5, EmptyTables
  <2>3. DOMAIN e.evidence \subseteq e.stored
    BY <1>2, <1>5
  <2> QED
    BY <1>2, <1>3, <1>5, <2>1, <2>2, <2>3 DEF DbOk, SameGroups
<1>7. ASSUME NEW key PROVE Keyed(key, e)
  <2>1. <<>> = [r \in {} |-> key[r]]
    BY SMTT(60)
  <2> QED
    BY <1>2, <1>5, <2>1 DEF Keyed
<1> QED
  BY <1>3, <1>4, <1>6, <1>7 DEF e

\* What clearing the service graph leaves (open, after a new extractor version).
LEMMA GraphCleared ==
  ASSUME NEW parse, NEW d, DbOk(parse, d)
  PROVE  LET e == ClearGraph(d)
         IN /\ DbOk(parse, e) /\ e.stored = d.stored /\ SameGroups(d, e) /\ GraphOk(e)
            /\ e.extractor = 2
            /\ e.parser = d.parser /\ e.terms = d.terms /\ e.services = d.services /\ e.at = d.at
<1> DEFINE c == DropEdges(d)
           e == [c EXCEPT !.extractor = 2, !.graph = FALSE]
<1>1. ClearGraph(d) = e
  BY DEF ClearGraph
<1>2. /\ DbOk(parse, c) /\ c.stored = d.stored /\ SameGroups(d, c) /\ SameMarks(d, c)
      /\ Keyed(Key, c)
  BY EdgesDropped
<1> HIDE DEF c
<1>3. DOMAIN c = Fields
  BY <1>2 DEF DbOk
<1>4. DOMAIN e = Fields /\ e.extractor = 2 /\ e.graph = FALSE /\ e.stored = c.stored
  BY <1>3 DEF Fields
<1>5. e.parser = c.parser /\ e.terms = c.terms /\ e.services = c.services /\ e.at = c.at
  BY <1>3 DEF Fields
<1>6. SameGroups(c, e)
  BY <1>3 DEF Fields, SameGroups
<1>7. SameGraph(c, e)
  BY <1>3 DEF Fields, SameGraph
<1> HIDE DEF e
<1>8. DbOk(parse, e)
  BY <1>2, <1>4, <1>6, <1>7 DEF DbOk, SameGroups, SameGraph
<1>9. GraphOk(e)
  BY <1>2, <1>4, <1>7 DEF GraphOk, Keyed, SameGraph
<1>10. SameGroups(d, e)
  BY <1>2, <1>6 DEF SameGroups
<1>11. /\ e.parser = d.parser /\ e.terms = d.terms /\ e.services = d.services /\ e.at = d.at
       /\ e.stored = d.stored
  BY <1>2, <1>4, <1>5 DEF SameMarks
<1> QED
  BY <1>1, <1>4, <1>8, <1>9, <1>10, <1>11

\* What clearing the groups leaves (open, after a new parser version).
LEMMA IndexCleared ==
  ASSUME NEW parse, NEW d, DbOk(parse, d)
  PROVE  LET e == ClearIndex(d)
         IN /\ DbOk(Parsed, e) /\ e.stored = d.stored /\ SameGraph(d, e) /\ e.graph = d.graph
            /\ e.extractor = d.extractor
            /\ e.parser = 6 /\ e.terms = FALSE /\ e.services = FALSE /\ e.at = 0
            /\ e.groups = <<>> /\ e.severe = <<>>
<1> DEFINE e == ClearIndex(d)
<1>1. DOMAIN d = Fields
  BY DEF DbOk
<1>2. DOMAIN e = Fields /\ e.groups = <<>> /\ e.member = <<>> /\ e.severe = <<>> /\ e.termed = {}
  BY <1>1 DEF ClearIndex, Fields
<1>3. e.parser = 6 /\ e.terms = FALSE /\ e.services = FALSE /\ e.at = 0
  BY <1>1 DEF ClearIndex, Fields
<1>4. e.stored = d.stored /\ e.graph = d.graph /\ e.extractor = d.extractor
  BY <1>1 DEF ClearIndex, Fields
<1>5. SameGraph(d, e)
  BY <1>1 DEF ClearIndex, Fields, SameGraph
<1> HIDE DEF e
<1>6. DbOk(Parsed, e)
  <2>1. DOMAIN <<>> = {}
    BY SMTT(60)
  <2>2. TableOf(e.groups, Cards, Parsed, DOMAIN e.member)
    BY <1>2, <2>1, EmptyTables
  <2>3. DOMAIN e.member = {} /\ e.termed = {}
    BY <1>2, <2>1
  <2> QED
    BY <1>2, <1>4, <1>5, <2>2, <2>3 DEF DbOk, SameGraph
<1> QED
  BY <1>2, <1>3, <1>4, <1>5, <1>6 DEF e

\* What an earlier program left: the tables it kept are complete
LeftWith(d, parser, extractor, tables) ==
  /\ DataOk(d) /\ DOMAIN d.member = d.stored
  /\ d.parser = parser /\ d.extractor = extractor
  /\ d.graph = ("graph" \in tables) /\ d.terms = ("terms" \in tables)
  /\ d.services = ("services" \in tables)

\* The parsers from the second on agree on every edge ("the independently versioned
\* graph").
LEMMA OldEdges ==
  ASSUME NEW d, d.stored \subseteq Records, NEW key,
         key \in {EdgeKey(OldParsed, Peer), EdgeKey(Parsed, Peer)}
  PROVE  /\ Edged(key, d.stored) = Edged(Key, d.stored)
         /\ Keyed(key, d) => Keyed(Key, d)
<1>1. \A r \in Records : /\ IsEdge(key[r]) <=> IsEdge(Key[r])
                         /\ IsEdge(key[r]) => key[r] = Key[r]
  <2>1. CASE key = EdgeKey(OldParsed, Peer)
    <3>1. \A r \in Records : /\ key[r] = <<OldParsed[r].service, Peer[r]>>
                             /\ Key[r] = <<Parsed[r].service, Peer[r]>>
      BY <2>1 DEF EdgeKey, Key, Link
    <3>2. \A r \in Records : Peer[r] # NoPeer => key[r] = Key[r]
      BY <3>1, GraphAssumption
    <3>3. \A r \in Records : key[r][2] = Peer[r] /\ Key[r][2] = Peer[r]
      BY <3>1, SMTT(60)
    <3> QED
      BY <3>2, <3>3 DEF IsEdge
  <2>2. CASE key = EdgeKey(Parsed, Peer)
    BY <2>2 DEF Key
  <2> QED
    BY <2>1, <2>2
<1>2. Edged(key, d.stored) = Edged(Key, d.stored)
  <2>1. \A r \in d.stored : IsEdge(key[r]) <=> IsEdge(Key[r])
    BY <1>1
  <2> QED
    BY <2>1 DEF Edged
<1>3. ASSUME Keyed(key, d) PROVE Keyed(Key, d)
  <2>1. DOMAIN d.evidence \subseteq Edged(key, d.stored)
        /\ d.evidence = [r \in DOMAIN d.evidence |-> key[r]]
    BY <1>3 DEF Keyed
  <2>2. \A r \in DOMAIN d.evidence : key[r] = Key[r]
    <3>1. \A r \in DOMAIN d.evidence : r \in Records /\ IsEdge(key[r])
      BY <2>1 DEF Edged
    <3> QED
      BY <1>1, <3>1
  <2>3. d.evidence = [r \in DOMAIN d.evidence |-> Key[r]]
    BY <2>1, <2>2
  <2> QED
    BY <1>2, <2>1, <2>3 DEF Keyed
<1> QED
  BY <1>2, <1>3

\* What an earlier program left is exact, as far as it went.
LEMMA LeftOk ==
  ASSUME NEW page \in Seq(Records), NEW parser \in {1, 2, 6}, NEW extractor \in {1, 2},
         NEW tables
  PROVE  LeftWith(Left(page, parser, extractor, tables), parser, extractor, tables)
<1> DEFINE fresh == Fresh(parser, extractor)
           parse == ParserOf(parser)
           key == EdgeKey(parse, ExtractorOf(extractor))
           all == CommitOldAll(fresh, page)
           graph == IF "graph" \in tables THEN all ELSE DropEdges(all)
           severe == IF "services" \in tables THEN graph.severe ELSE <<>>
           termed == IF "terms" \in tables THEN graph.termed ELSE {}
           g == "graph" \in tables
           t == "terms" \in tables
           v == "services" \in tables
           d == [graph EXCEPT !.severe = severe, !.termed = termed,
                              !.graph = g, !.terms = t, !.services = v]
<1>1. Left(page, parser, extractor, tables) = d
  BY DEF Left, CommitOldAll
<1>2. /\ Whole(parse, ExtractorOf(extractor), all)
      /\ all.at = 0 /\ all.parser = parser /\ all.extractor = extractor
  <2>1. /\ Whole(parse, ExtractorOf(extractor), fresh)
        /\ fresh.parser = parser /\ fresh.extractor = extractor /\ fresh.at = 0
    BY FreshWhole
  <2> HIDE DEF fresh, parse
  <2>2. /\ Whole(ParserOf(fresh.parser), ExtractorOf(fresh.extractor), all)
        /\ SameMarks(fresh, all)
    BY <2>1, OldCommitLoop DEF parse
  <2> HIDE DEF all
  <2> QED
    BY <2>1, <2>2 DEF SameMarks, parse
<1> HIDE DEF all, parse
<1>3. /\ DbOk(parse, all) /\ SevereFull(all) /\ DOMAIN all.member = all.stored
      /\ Keyed(key, all) /\ DOMAIN all.evidence = Edged(key, all.stored)
      /\ all.termed = DOMAIN all.groups
  BY <1>2 DEF Whole, Complete
<1> HIDE DEF key
<1>4. /\ DbOk(parse, graph) /\ SameGroups(all, graph) /\ SameMarks(all, graph)
      /\ graph.stored = all.stored /\ Keyed(key, graph)
      /\ g => DOMAIN graph.evidence = Edged(key, graph.stored)
  <2>1. CASE g
    <3>1. graph = all
      BY <2>1
    <3> HIDE DEF graph
    <3> QED
      BY <1>2, <1>3, <3>1, SameMarksRefl DEF SameGroups
  <2>2. CASE ~g
    <3>1. graph = DropEdges(all)
      BY <2>2
    <3>2. /\ DbOk(parse, DropEdges(all)) /\ DropEdges(all).stored = all.stored
          /\ SameGroups(all, DropEdges(all)) /\ SameMarks(all, DropEdges(all))
          /\ Keyed(key, DropEdges(all))
      BY <1>3, EdgesDropped
    <3> HIDE DEF graph
    <3> QED
      BY <2>2, <3>1, <3>2
  <2> QED
    BY <2>1, <2>2
<1> HIDE DEF graph
<1>5. /\ graph.groups = all.groups /\ graph.member = all.member /\ graph.termed = all.termed
      /\ graph.severe = all.severe
      /\ graph.at = 0 /\ graph.parser = parser /\ graph.extractor = extractor
  BY <1>2, <1>4 DEF SameGroups, SameMarks
<1>6. DOMAIN graph = Fields
  BY <1>4 DEF DbOk
<1> HIDE DEF severe, termed, g, t, v
<1>7. /\ DOMAIN d = Fields /\ d.severe = severe /\ d.termed = termed
      /\ d.parser = parser /\ d.extractor = extractor
  BY <1>5, <1>6 DEF Fields
<1>8. d.graph = g /\ d.terms = t /\ d.services = v
  BY <1>6 DEF Fields
<1>9. d.stored = graph.stored /\ d.groups = graph.groups /\ d.member = graph.member /\ d.at = graph.at
  BY <1>6 DEF Fields
<1>10. SameGraph(graph, d)
  BY <1>6 DEF Fields, SameGraph
<1> HIDE DEF d
<1>11. DbOk(parse, d)
  <2>1. d.termed \subseteq DOMAIN d.groups
    BY <1>3, <1>5, <1>7, <1>9 DEF termed
  <2>2. d.edges = graph.edges /\ d.evidence = graph.evidence /\ d.version = graph.version
    BY <1>10 DEF SameGraph
  <2> QED
    BY <1>4, <1>7, <1>9, <2>1, <2>2 DEF DbOk
<1>12. parse = ParseOf(d)
  BY <1>7 DEF ParseOf, parse
<1>13. SevereExact(d.severe, d.groups, IF d.services THEN Len(d.groups) ELSE d.at)
  <2>1. CASE v
    <3>1. d.severe = all.severe /\ d.groups = all.groups /\ d.services
      BY <1>5, <1>7, <1>8, <1>9, <2>1 DEF severe, v
    <3> QED
      BY <1>3, <3>1 DEF SevereFull
  <2>2. CASE ~v
    <3>1. d.severe = <<>> /\ d.at = 0 /\ ~d.services
      BY <1>5, <1>7, <1>8, <1>9, <2>2 DEF severe, v
    <3> QED
      BY <3>1, EmptyTables
  <2> QED
    BY <2>1, <2>2
<1>14. ~d.services => d.at \in 0 .. Len(d.groups)
  <2>1. d.groups \in Seq(Rows(Cards)) /\ d.at = 0
    BY <1>5, <1>9, <1>11 DEF DbOk, TableOf
  <2> QED
    BY <2>1, SMTT(60)
<1>15. d.terms => d.termed = DOMAIN d.groups
  BY <1>3, <1>5, <1>7, <1>8, <1>9 DEF termed, t
<1>16. GraphOk(d)
  <2> SUFFICES ASSUME d.parser # 1, d.extractor = 2
               PROVE  Keyed(Key, d) /\ (d.graph => DOMAIN d.evidence = Edged(Key, d.stored))
    BY DEF GraphOk
  <2>1. key \in {EdgeKey(OldParsed, Peer), EdgeKey(Parsed, Peer)}
    <3>1. parse \in {OldParsed, Parsed}
      BY <1>7 DEF parse, ParserOf
    <3>2. ExtractorOf(extractor) = Peer
      <4>1. 2 # 1
        BY SMTT(60)
      <4> QED
        BY <1>7, <4>1 DEF ExtractorOf
    <3> QED
      BY <3>1, <3>2 DEF key
  <2>2. Keyed(key, d) /\ (d.graph => DOMAIN d.evidence = Edged(key, d.stored))
    BY <1>4, <1>8, <1>9, <1>10 DEF SameGraph, Keyed
  <2>3. d.stored \subseteq Records
    BY <1>11 DEF DbOk
  <2> QED
    BY <2>1, <2>2, <2>3, OldEdges
<1>17. DOMAIN d.member = d.stored
  BY <1>3, <1>4, <1>5, <1>9
<1>18. DataOk(d)
  BY <1>7, <1>11, <1>12, <1>13, <1>14, <1>15, <1>16 DEF DataOk
<1> QED
  BY <1>1, <1>7, <1>8, <1>17, <1>18 DEF LeftWith, g, t, v

\* A corpus begins with exact tables (what an earlier program left, or an open corpus).
LEMMA IndexInit == Init => IndexInv
<1> SUFFICES ASSUME Init PROVE IndexInv
  OBVIOUS
<1>1. CASE load.uses = "sync"
  <2>1. db \in Databases /\ pc = "closed"
    BY <1>1 DEF Init
  <2>2. PICK page \in {p \in SeqOf(Records, Cardinality(Records)) : IsInjective(p)},
             parser \in {1, 2, 6}, extractor \in {1, 2},
             tables \in SUBSET {"graph", "terms", "services"} :
               db = Left(page, parser, extractor, tables)
    BY <2>1, SMTT(60) DEF Databases
  <2>3. page \in Seq(Records)
    <3>1. page \in SeqOf(Records, Cardinality(Records))
      OBVIOUS
    <3> HIDE <2>2
    <3> QED
      BY <3>1, SMTT(60) DEF SeqOf
  <2>4. DataOk(Left(page, parser, extractor, tables))
    BY <2>3, LeftOk DEF LeftWith
  <2> QED
    BY <2>1, <2>2, <2>4 DEF IndexInv, StepInv
<1>2. CASE load.uses # "sync"
  <2> DEFINE T == {"graph", "terms", "services"}
             stored == load.stored
  <2>1. db = Left(stored, 6, 2, T) /\ pc = "ready"
    BY <1>2 DEF Init, Opened
  <2>2. stored \in Seq(Records)
    <3>1. load \in [uses : {"sync", "feedback", "route"}, stored : Seq(Records),
                    cases : SUBSET Cases, versions : Nat]
      BY LearningAssumption DEF Init
    <3> QED
      BY <3>1
  <2> HIDE DEF stored, T
  <2>3. /\ DataOk(db) /\ DOMAIN db.member = db.stored /\ db.parser = 6 /\ db.extractor = 2
        /\ db.graph = ("graph" \in T) /\ db.terms = ("terms" \in T)
        /\ db.services = ("services" \in T)
    <3>1. 6 \in {1, 2, 6} /\ 2 \in {1, 2}
      OBVIOUS
    <3>2. LeftWith(Left(stored, 6, 2, T), 6, 2, T)
      BY <2>2, <3>1, LeftOk
    <3> QED
      BY <2>1, <3>2 DEF LeftWith
  <2>4. db.graph /\ db.terms /\ db.services
    BY <2>3 DEF T
  <2> QED
    BY <2>1, <2>3, <2>4 DEF IndexInv, StepInv
<1> QED
  BY <1>1, <1>2

\* The parser of this program is not the first.
LEMMA NotFirst == 6 # 1
  BY SMTT(60)

\* The parser of this program.
LEMMA LastParser == ParserOf(6) = Parsed
  BY NotFirst DEF ParserOf

\* open(): groups of an earlier parser are cleared.
LEMMA OpenStep == ASSUME IndexInv, Open PROVE IndexInv'
<1>1. /\ DataOk(db) /\ DbOk(ParseOf(db), db) /\ db.parser \in {1, 2, 6} /\ pc = "closed"
      /\ GraphOk(db) /\ db.extractor \in {1, 2}
  BY DEF IndexInv, DataOk, Open
<1>2. ASSUME NEW e, DbOk(Parsed, e), e.parser = 6, e.terms = FALSE, e.services = FALSE, e.at = 0,
             e.groups = <<>>, e.severe = <<>>, GraphOk(e), e.extractor \in {1, 2}
      PROVE  DataOk(e)
  <2>1. 0 \in 0 .. Len(e.groups)
    BY <1>2, SMTT(60)
  <2>2. SevereExact(e.severe, e.groups, e.at)
    BY <1>2, EmptyTables
  <2>3. e.parser \in {1, 2, 6} /\ ParseOf(e) = Parsed
    BY <1>2, LastParser DEF ParseOf
  <2> QED
    BY <1>2, <2>1, <2>2, <2>3 DEF DataOk
<1> DEFINE c == ClearIndex(db)
<1>3. /\ DbOk(Parsed, c) /\ c.stored = db.stored /\ SameGraph(db, c) /\ c.graph = db.graph
      /\ c.extractor = db.extractor
      /\ c.parser = 6 /\ c.terms = FALSE /\ c.services = FALSE /\ c.at = 0
      /\ c.groups = <<>> /\ c.severe = <<>>
  BY <1>1, IndexCleared
<1> HIDE DEF c
<1>4. CASE db.parser = 1
  <2> DEFINE e == ClearGraph(c)
  <2>1. db' = e /\ pc' = "services"
    <3>1. 1 # 6
      BY SMTT(60)
    <3> QED
      BY <1>4, <3>1 DEF Open, Goto, c
  <2>2. /\ DbOk(Parsed, e) /\ e.stored = c.stored /\ SameGroups(c, e) /\ GraphOk(e)
        /\ e.extractor = 2
        /\ e.parser = c.parser /\ e.terms = c.terms /\ e.services = c.services /\ e.at = c.at
    BY <1>3, GraphCleared
  <2> HIDE DEF e
  <2>3. DataOk(e) /\ e.parser = 6
    BY <1>2, <1>3, <2>2 DEF SameGroups
  <2> QED
    BY <2>1, <2>2, <2>3 DEF IndexInv, StepInv
<1>5. CASE db.parser = 6
  <2>1. db' = db /\ pc' = "extractor"
    <3>1. 6 # 1
      BY SMTT(60)
    <3> QED
      BY <1>5, <3>1 DEF Open, Goto
  <2> QED
    BY <1>1, <1>5, <2>1 DEF IndexInv, StepInv
<1>6. CASE db.parser = 2
  <2>0. 2 # 1 /\ 2 # 6
    BY SMTT(60)
  <2>1. db' = c /\ pc' = "extractor"
    BY <1>6, <2>0 DEF Open, Goto, c
  <2>2. GraphOk(c)
    BY <1>1, <1>3, <1>6, <2>0, GraphStays
  <2>3. DataOk(c) /\ c.parser = 6
    BY <1>1, <1>2, <1>3, <2>2
  <2> QED
    BY <2>1, <2>3 DEF IndexInv, StepInv
<1> QED
  BY <1>1, <1>4, <1>5, <1>6

\* open(): the version of the graph extractor.
LEMMA ResetGraphStep == ASSUME IndexInv, ResetGraph PROVE IndexInv'
<1>1. DataOk(db) /\ pc = "extractor" /\ db.parser = 6 /\ pc' = "services"
  BY DEF IndexInv, StepInv, ResetGraph, Goto
<1>2. CASE db.extractor = 1
  <2> DEFINE e == ClearGraph(db)
  <2>1. db' = e
    BY <1>2 DEF ResetGraph
  <2>2. DbOk(ParseOf(db), db)
    BY <1>1 DEF DataOk
  <2>3. /\ DbOk(ParseOf(db), e) /\ e.stored = db.stored /\ SameGroups(db, e) /\ GraphOk(e)
        /\ e.extractor = 2
        /\ e.parser = db.parser /\ e.terms = db.terms /\ e.services = db.services /\ e.at = db.at
    BY <2>2, GraphCleared
  <2> HIDE DEF e
  <2>4. ParseOf(e) = ParseOf(db) /\ e.extractor \in {1, 2}
    BY <2>3 DEF ParseOf
  <2>5. DataOk(e)
    BY <1>1, <2>3, <2>4 DEF DataOk, SameGroups
  <2> QED
    BY <1>1, <2>1, <2>3, <2>5 DEF IndexInv, StepInv
<1>3. CASE db.extractor # 1
  <2>1. db' = db /\ db.extractor = 2
    BY <1>1, <1>3 DEF ResetGraph, DataOk
  <2> QED
    BY <1>1, <2>1 DEF IndexInv, StepInv
<1> QED
  BY <1>2, <1>3

\* backfill_severe_services_if_needed begins, from the position that was saved.
LEMMA BackfillServicesStep == ASSUME IndexInv, BackfillServices PROVE IndexInv'
<1>1. DataOk(db) /\ pc = "services" /\ db.parser = 6 /\ db.extractor = 2
  BY DEF IndexInv, StepInv, BackfillServices
<1>2. CASE db.services
  <2>1. db' = db /\ pc' = "members"
    BY <1>2 DEF BackfillServices, Goto
  <2> QED
    BY <1>1, <1>2, <2>1 DEF IndexInv, StepInv
<1>3. CASE ~db.services
  <2> DEFINE severe == IF db.at = 0 THEN <<>> ELSE db.severe
             e == [db EXCEPT !.severe = severe]
  <2>1. db' = e /\ pc' = "services page" /\ cursor' = db.at
    BY <1>3 DEF BackfillServices, Goto
  <2>2. DOMAIN db = Fields /\ DbOk(Parsed, db)
    BY <1>1, LastParser DEF DataOk, DbOk, ParseOf
  <2> HIDE DEF severe
  <2>3. DOMAIN e = Fields /\ e.severe = severe /\ SameMarks(db, e)
    BY <2>2 DEF Fields, SameMarks
  <2>4. e.stored = db.stored /\ e.groups = db.groups /\ e.member = db.member /\ e.termed = db.termed
    BY <2>2 DEF Fields
  <2>5. SameGraph(db, e)
    BY <2>2 DEF Fields, SameGraph
  <2> HIDE DEF e
  <2>6. DbOk(Parsed, e)
    BY <2>2, <2>3, <2>4, <2>5 DEF DbOk, SameGraph
  <2>7. SevereExact(severe, db.groups, db.at)
    <3>1. SevereExact(db.severe, db.groups, db.at)
      BY <1>1, <1>3 DEF DataOk
    <3>2. CASE db.at = 0
      BY <3>2, EmptyTables DEF severe
    <3>3. CASE db.at # 0
      BY <3>1, <3>3 DEF severe
    <3> QED
      BY <3>2, <3>3
  <2>8. /\ e.parser = db.parser /\ e.services = db.services /\ e.at = db.at
        /\ e.terms = db.terms /\ e.graph = db.graph /\ e.extractor = db.extractor
    BY <2>3 DEF SameMarks
  <2>9. ParseOf(e) = Parsed
    BY <1>1, <2>8, LastParser DEF ParseOf
  <2>10. DataOk(e)
    <3>1. e.terms => e.termed = DOMAIN e.groups
      BY <1>1, <2>4, <2>8 DEF DataOk
    <3>2. GraphOk(e)
      BY <1>1, <2>4, <2>5, <2>8, NotFirst, GraphStays DEF DataOk
    <3>3. /\ ~e.services /\ e.at \in 0 .. Len(e.groups) /\ e.parser \in {1, 2, 6}
          /\ e.extractor \in {1, 2}
      BY <1>1, <1>3, <2>4, <2>8 DEF DataOk
    <3>4. SevereExact(e.severe, e.groups, e.at)
      BY <2>3, <2>4, <2>7, <2>8
    <3> QED
      BY <2>6, <2>9, <3>1, <3>2, <3>3, <3>4 DEF DataOk
  <2> QED
    BY <1>1, <1>3, <2>1, <2>8, <2>10 DEF IndexInv, StepInv
<1> QED
  BY <1>2, <1>3

\* A page of groups has the next ones, and there is none only after the last.
LEMMA CardsNext ==
  ASSUME NEW K, db.groups \in Seq(Rows(K)), NEW c \in Nat
  PROVE  /\ CardsAfter(c) = {} => Len(db.groups) <= c
         /\ CardsAfter(c) # {} => /\ Max(CardsAfter(c)) \in Nat /\ c <= Max(CardsAfter(c))
                                  /\ Max(CardsAfter(c)) <= Len(db.groups)
                                  /\ CardsAfter(c) = (c + 1) .. Max(CardsAfter(c))
<1> DEFINE n == Len(db.groups)
           m == Min({c + CardPage, n})
<1>1. n \in Nat /\ CardPage \in Nat \ {0}
  BY RecordsAssumption, SMTT(60)
<1>2. CardsAfter(c) = (c + 1) .. m
  BY DEF CardsAfter
<1> HIDE DEF n
<1>3. c + CardPage \in Nat
  BY <1>1, SMTT(60)
<1>4. \A a, b \in Nat : a =< b \/ b =< a
  BY SMTT(60)
<1>5. \A a \in Nat : a =< a
  BY SMTT(60)
<1>6. m \in {c + CardPage, n} /\ \A y \in {c + CardPage, n} : m =< y
  <2>1. \E x \in {c + CardPage, n} : \A y \in {c + CardPage, n} : x =< y
    <3>1. CASE c + CardPage =< n
      BY <1>1, <1>3, <1>5, <3>1
    <3>2. CASE n =< c + CardPage
      BY <1>1, <1>3, <1>5, <3>2
    <3> QED
      BY <1>1, <1>3, <1>4, <3>1, <3>2
  <2> QED
    BY <2>1 DEF Min
<1> HIDE DEF m
<1>7. m \in Nat /\ m <= n /\ (m = c + CardPage \/ m = n)
  BY <1>1, <1>3, <1>6
<1>8. CASE (c + 1) .. m = {}
  <2>1. ~(c + 1 <= m)
    BY <1>7, <1>8, SMTT(60)
  <2>2. n <= c
    BY <1>1, <1>7, <2>1, SMTT(60)
  <2> QED
    BY <1>2, <1>8, <2>2 DEF n
<1>9. CASE (c + 1) .. m # {}
  <2>1. c + 1 <= m /\ c <= m
    BY <1>7, <1>9, SMTT(60)
  <2>2. m \in (c + 1) .. m /\ \A y \in (c + 1) .. m : m >= y /\ (y >= m => y = m)
    BY <1>7, <2>1, SMTT(60)
  <2>3. Max((c + 1) .. m) = m
    BY <2>2 DEF Max
  <2> QED
    BY <1>2, <1>7, <1>9, <2>1, <2>3 DEF n
<1> QED
  BY <1>8, <1>9

\* A page of backfill_severe_services_if_needed: its groups are summarised and the
\* position is saved in one transaction.
LEMMA ServicesPageStep == ASSUME IndexInv, ServicesPage PROVE IndexInv'
<1>1. /\ DataOk(db) /\ pc = "services page" /\ db.parser = 6 /\ ~db.services /\ cursor = db.at
      /\ db.extractor = 2
  BY DEF IndexInv, StepInv, ServicesPage
<1>2. /\ DOMAIN db = Fields /\ DbOk(Parsed, db) /\ db.groups \in Seq(Rows(Cards))
      /\ db.at \in 0 .. Len(db.groups) /\ SevereExact(db.severe, db.groups, db.at)
      /\ db.terms => db.termed = DOMAIN db.groups
      /\ GraphOk(db)
  BY <1>1, LastParser DEF DataOk, DbOk, ParseOf, TableOf
<1>3. Len(db.groups) \in Nat /\ db.at \in Nat /\ db.at <= Len(db.groups)
  BY <1>2, SMTT(60)
<1>4. ASSUME NEW e, DOMAIN e = Fields, e.stored = db.stored, e.groups = db.groups,
             e.member = db.member, e.termed = db.termed, SameGraph(db, e), e.parser = 6,
             e.terms = db.terms, e.graph = db.graph, e.extractor = 2,
             ~e.services => e.at \in 0 .. Len(e.groups),
             SevereExact(e.severe, e.groups, IF e.services THEN Len(e.groups) ELSE e.at)
      PROVE  DataOk(e)
  <2>1. DbOk(Parsed, e)
    BY <1>2, <1>4 DEF DbOk, SameGraph
  <2>2. ParseOf(e) = Parsed
    BY <1>4, LastParser DEF ParseOf
  <2>3. e.terms => e.termed = DOMAIN e.groups
    BY <1>2, <1>4
  <2>4. GraphOk(e)
    BY <1>1, <1>2, <1>4, NotFirst, GraphStays
  <2>5. e.parser \in {1, 2, 6} /\ e.extractor \in {1, 2}
    BY <1>4
  <2> QED
    BY <1>4, <2>1, <2>2, <2>3, <2>4, <2>5 DEF DataOk
<1>5. CASE CardsAfter(cursor) = {}
  <2> DEFINE e == [db EXCEPT !.services = TRUE]
  <2>1. db' = e /\ pc' = "members"
    BY <1>5 DEF ServicesPage, Goto
  <2>2. DOMAIN e = Fields /\ e.services = TRUE /\ e.stored = db.stored /\ e.groups = db.groups
    BY <1>2 DEF Fields
  <2>3. /\ e.member = db.member /\ e.termed = db.termed /\ e.severe = db.severe
        /\ e.parser = db.parser /\ e.terms = db.terms /\ e.graph = db.graph
        /\ e.extractor = db.extractor
    BY <1>2 DEF Fields
  <2>4. SameGraph(db, e)
    BY <1>2 DEF Fields, SameGraph
  <2>5. db.at = Len(db.groups)
    <3>1. Len(db.groups) <= db.at
      BY <1>1, <1>2, <1>3, <1>5, CardsNext
    <3> QED
      BY <1>3, <3>1, SMTT(60)
  <2> HIDE DEF e
  <2>6. SevereExact(e.severe, e.groups, IF e.services THEN Len(e.groups) ELSE e.at)
    BY <1>2, <2>2, <2>3, <2>5
  <2>7. DataOk(e)
    BY <1>1, <1>4, <2>2, <2>3, <2>4, <2>6
  <2> QED
    BY <1>1, <2>1, <2>2, <2>3, <2>7 DEF IndexInv, StepInv
<1>6. CASE CardsAfter(cursor) # {}
  <2> DEFINE last == Max(CardsAfter(cursor))
             severe == FoldLeft(Summarise, db.severe, [i \in 1 .. last - cursor |-> cursor + i])
             e == [db EXCEPT !.at = last, !.severe = severe]
  <2>1. db' = e /\ pc' = "services page" /\ cursor' = last
    BY <1>6 DEF ServicesPage, Goto
  <2>2. last \in Nat /\ cursor <= last /\ last <= Len(db.groups) /\ cursor \in Nat
    BY <1>1, <1>2, <1>3, <1>6, CardsNext
  <2> HIDE DEF last
  <2>3. SevereExact(severe, db.groups, last)
    <3>1. severe = SummariseAll(db.severe, [i \in 1 .. last - cursor |-> cursor + i])
      BY DEF SummariseAll
    <3>2. SevereExact(db.severe, db.groups, cursor)
      BY <1>1, <1>2
    <3> HIDE DEF severe
    <3>3. SevereExact(SummariseAll(db.severe, [i \in 1 .. last - cursor |-> cursor + i]),
                      db.groups, last)
      BY <1>2, <2>2, <3>2, SummariseLoop
    <3> QED
      BY <3>1, <3>3
  <2> HIDE DEF severe
  <2>4. DOMAIN e = Fields /\ e.at = last /\ e.severe = severe /\ e.stored = db.stored
    BY <1>2 DEF Fields
  <2>5. /\ e.groups = db.groups /\ e.member = db.member /\ e.termed = db.termed
        /\ e.parser = db.parser /\ e.terms = db.terms /\ e.extractor = db.extractor
    BY <1>2 DEF Fields
  <2>6. e.graph = db.graph /\ e.services = db.services /\ SameGraph(db, e)
    BY <1>2 DEF Fields, SameGraph
  <2> HIDE DEF e
  <2>7. e.at \in 0 .. Len(e.groups)
    BY <1>3, <2>2, <2>4, <2>5, SMTT(60)
  <2>8. ~e.services
    BY <1>1, <2>6
  <2>9. SevereExact(e.severe, e.groups, IF e.services THEN Len(e.groups) ELSE e.at)
    BY <2>3, <2>4, <2>5, <2>8
  <2>10. DataOk(e)
    BY <1>1, <1>4, <2>4, <2>5, <2>6, <2>7, <2>9
  <2> QED
    BY <1>1, <2>1, <2>4, <2>5, <2>8, <2>10 DEF IndexInv, StepInv
<1> QED
  BY <1>5, <1>6

\* Every stored record has a group when the counts are the same.
LEMMA CountsDecide ==
  ASSUME DbOk(Parsed, db)
  PROVE  Counts <=> DOMAIN db.member = db.stored
<1>1. DOMAIN db.member \in SUBSET db.stored /\ db.stored \in SUBSET Records
  BY DEF DbOk
<1>2. IsFiniteSet(db.stored)
  BY <1>1, RecordsAssumption, FS_Subset
<1>3. Cardinality(db.stored) = Cardinality(DOMAIN db.member) => db.stored = DOMAIN db.member
  BY <1>1, <1>2, FS_Subset
<1> QED
  BY <1>3 DEF Counts

\* What the invariant says of an open that is past the summaries.
LEMMA PastServices ==
  ASSUME IndexInv, pc \in {"members", "members page", "graph", "graph page", "terms",
                           "terms page", "ready"}
  PROVE  /\ DataOk(db) /\ db.parser = 6 /\ db.services /\ DbOk(Parsed, db) /\ SevereFull(db)
         /\ db.terms => db.termed = DOMAIN db.groups
         /\ GraphOk(db) /\ db.extractor = 2 /\ Keyed(Key, db)
         /\ db.graph => DOMAIN db.evidence = Edged(Key, db.stored)
         /\ db.stored \subseteq Records
<1>1. DataOk(db) /\ db.parser = 6 /\ db.services /\ db.extractor = 2
  BY DEF IndexInv, StepInv
<1>2. DbOk(Parsed, db) /\ SevereFull(db)
  BY <1>1, LastParser DEF DataOk, ParseOf, SevereFull
<1>3. GraphOk(db)
  BY <1>1 DEF DataOk
<1>4. Keyed(Key, db) /\ (db.graph => DOMAIN db.evidence = Edged(Key, db.stored))
  BY <1>1, <1>3, NotFirst DEF GraphOk
<1> QED
  BY <1>1, <1>2, <1>3, <1>4 DEF DataOk, DbOk

\* index_unindexed_records begins.
LEMMA BackfillMembersStep == ASSUME IndexInv, BackfillMembers PROVE IndexInv'
<1>1. pc = "members" /\ db' = db /\ cursor' = 0
  BY DEF BackfillMembers, Goto
<1>2. DataOk(db) /\ db.parser = 6 /\ db.services /\ DbOk(Parsed, db) /\ db.extractor = 2
  BY <1>1, PastServices
<1>3. CASE Counts
  <2>1. pc' = "graph" /\ DOMAIN db.member = db.stored
    BY <1>2, <1>3, CountsDecide DEF BackfillMembers, Goto
  <2> QED
    BY <1>1, <1>2, <2>1 DEF IndexInv, StepInv
<1>4. CASE ~Counts
  <2>1. pc' = "members page"
    BY <1>4 DEF BackfillMembers, Goto
  <2>2. db.stored \ RestOf(db.stored, 0) = {}
    BY DEF RestOf
  <2>3. 0 \in Records \cup {0}
    OBVIOUS
  <2> QED
    BY <1>1, <1>2, <2>1, <2>2, <2>3 DEF IndexInv, StepInv
<1> QED
  BY <1>3, <1>4

\* A page of read_page covers the records up to its last one.
LEMMA PageCovers ==
  ASSUME db.stored \subseteq Records, NEW c, NEW page \in Pages(c)
  PROVE  /\ page \in Seq(db.stored) /\ Last(page) \in Records \cup {0}
         /\ Range(page) \subseteq db.stored
         /\ db.stored \ RestOf(db.stored, Last(page)) \subseteq
              (db.stored \ RestOf(db.stored, c)) \cup Range(page)
<1>1. page \in SeqOf(Rest(c), RecordPage) /\ page # <<>>
  BY DEF Pages
<1>2. \A r \in Rest(c) : r \in Range(page) \/ Before(Last(page), r)
  BY DEF Pages
<1>3. Rest(c) = RestOf(db.stored, c) /\ Rest(c) \subseteq db.stored
  BY DEF Rest, RestOf
<1>4. page \in Seq(Rest(c))
  BY <1>1, SMTT(60) DEF SeqOf
<1> HIDE DEF Rest
<1>5. page \in Seq(db.stored)
  BY <1>3, <1>4, SMTT(60)
<1>6. Last(page) \in db.stored
  BY <1>1, <1>5, SMTT(60) DEF Last
<1>7. Range(page) \subseteq db.stored
  BY <1>5, SMTT(60) DEF Range
<1>8. db.stored \ RestOf(db.stored, Last(page)) \subseteq
        (db.stored \ RestOf(db.stored, c)) \cup Range(page)
  BY <1>2, <1>3 DEF RestOf
<1> QED
  BY <1>5, <1>6, <1>7, <1>8

\* A page of index_unindexed_records, or its end: then the counts are the same.
LEMMA MembersPageStep == ASSUME IndexInv, MembersPage PROVE IndexInv'
<1>1. pc = "members page"
  BY DEF MembersPage
<1>2. /\ DataOk(db) /\ db.parser = 6 /\ db.services /\ DbOk(Parsed, db) /\ SevereFull(db)
      /\ db.terms => db.termed = DOMAIN db.groups
      /\ GraphOk(db) /\ db.extractor = 2 /\ Keyed(Key, db)
      /\ db.graph => DOMAIN db.evidence = Edged(Key, db.stored)
      /\ db.stored \subseteq Records
  BY <1>1, PastServices
<1>3. cursor \in Records \cup {0} /\ db.stored \ RestOf(db.stored, cursor) \subseteq DOMAIN db.member
  BY <1>1 DEF IndexInv, StepInv
<1>4. CASE Rest(cursor) = {} /\ Goto(IF Counts THEN "graph" ELSE "refused", 0) /\ UNCHANGED db
  <2>1. RestOf(db.stored, cursor) = {}
    BY <1>4 DEF Rest, RestOf
  <2>2. DOMAIN db.member = db.stored
    BY <1>2, <1>3, <2>1 DEF DbOk
  <2>3. pc' = "graph" /\ db' = db
    BY <1>2, <1>4, <2>2, CountsDecide DEF Goto
  <2> QED
    BY <1>2, <2>2, <2>3 DEF IndexInv, StepInv
<1>5. ASSUME NEW page \in Pages(cursor), db' = FoldLeft(IndexMissing, db, page),
             Goto("members page", Last(page))
      PROVE  IndexInv'
  <2>1. /\ page \in Seq(db.stored) /\ Last(page) \in Records \cup {0}
        /\ Range(page) \subseteq db.stored
        /\ db.stored \ RestOf(db.stored, Last(page)) \subseteq
             (db.stored \ RestOf(db.stored, cursor)) \cup Range(page)
    BY <1>2, PageCovers
  <2>2. pc' = "members page" /\ cursor' = Last(page)
    BY <1>5 DEF Goto
  <2> DEFINE e == IndexAll(db, page)
  <2>3. db' = e
    BY <1>5 DEF IndexAll
  <2>4. MissingIndexed(db, e, Range(page))
    BY <1>2, <2>1, MissingLoop
  <2> HIDE DEF e
  <2>5. /\ DbOk(Parsed, e) /\ SevereFull(e)
        /\ DOMAIN e.member = DOMAIN db.member \cup Range(page)
        /\ db.termed = DOMAIN db.groups => e.termed = DOMAIN e.groups
        /\ e.stored = db.stored /\ e.parser = db.parser /\ e.services = db.services
        /\ e.terms = db.terms /\ e.graph = db.graph /\ SameGraph(db, e)
        /\ e.extractor = db.extractor
    BY <2>4 DEF MissingIndexed, SameMarks
  <2>6. DataOk(e)
    <3>1. ParseOf(e) = Parsed /\ e.parser \in {1, 2, 6} /\ e.extractor \in {1, 2}
      BY <1>2, <2>5, LastParser DEF ParseOf
    <3>2. SevereExact(e.severe, e.groups, IF e.services THEN Len(e.groups) ELSE e.at)
      BY <1>2, <2>5 DEF SevereFull
    <3>3. GraphOk(e)
      BY <1>2, <2>5, NotFirst, GraphStays
    <3> QED
      BY <1>2, <2>5, <3>1, <3>2, <3>3 DEF DataOk
  <2>7. e.stored \ RestOf(e.stored, Last(page)) \subseteq DOMAIN e.member
    BY <1>3, <2>1, <2>5
  <2> QED
    BY <1>2, <2>1, <2>2, <2>3, <2>5, <2>6, <2>7 DEF IndexInv, StepInv
<1> QED
  BY <1>4, <1>5 DEF MembersPage

\* backfill_graph_if_needed begins.
LEMMA BackfillGraphStep == ASSUME IndexInv, BackfillGraph PROVE IndexInv'
<1>1. pc = "graph" /\ db' = db /\ cursor' = 0
  BY DEF BackfillGraph, Goto
<1>2. DataOk(db) /\ db.parser = 6 /\ db.services /\ db.extractor = 2
  BY <1>1, PastServices
<1>3. DOMAIN db.member = db.stored
  BY <1>1 DEF IndexInv, StepInv
<1>4. CASE db.graph
  <2>1. pc' = "terms"
    BY <1>4 DEF BackfillGraph, Goto
  <2> QED
    BY <1>1, <1>2, <1>3, <1>4, <2>1 DEF IndexInv, StepInv
<1>5. CASE ~db.graph
  <2>1. pc' = "graph page"
    BY <1>5 DEF BackfillGraph, Goto
  <2>2. Edged(Key, db.stored \ RestOf(db.stored, 0)) = {}
    BY DEF RestOf, Edged
  <2>3. 0 \in Records \cup {0}
    OBVIOUS
  <2> QED
    BY <1>1, <1>2, <1>3, <2>1, <2>2, <2>3 DEF IndexInv, StepInv
<1> QED
  BY <1>4, <1>5

\* A page of backfill_graph_if_needed, or its end: then every edge is there.
LEMMA GraphPageStep == ASSUME IndexInv, GraphPage PROVE IndexInv'
<1>1. pc = "graph page"
  BY DEF GraphPage
<1>2. /\ DataOk(db) /\ db.parser = 6 /\ db.services /\ DbOk(Parsed, db) /\ SevereFull(db)
      /\ db.terms => db.termed = DOMAIN db.groups
      /\ GraphOk(db) /\ db.extractor = 2 /\ Keyed(Key, db)
      /\ db.graph => DOMAIN db.evidence = Edged(Key, db.stored)
      /\ db.stored \subseteq Records
  BY <1>1, PastServices
<1>3. /\ cursor \in Records \cup {0} /\ DOMAIN db.member = db.stored
      /\ Edged(Key, db.stored \ RestOf(db.stored, cursor)) \subseteq DOMAIN db.evidence
  BY <1>1 DEF IndexInv, StepInv
<1>4. DOMAIN db.evidence \subseteq Edged(Key, db.stored)
  BY <1>2 DEF Keyed
<1>5. CASE Rest(cursor) = {} /\ db' = [db EXCEPT !.graph = TRUE] /\ Goto("terms", 0)
  <2> DEFINE e == [db EXCEPT !.graph = TRUE]
  <2>1. pc' = "terms" /\ db' = e
    BY <1>5 DEF Goto
  <2>2. RestOf(db.stored, cursor) = {}
    BY <1>5 DEF Rest, RestOf
  <2>3. db.stored \ RestOf(db.stored, cursor) = db.stored
    BY <2>2
  <2>4. DOMAIN db.evidence = Edged(Key, db.stored)
    BY <1>3, <1>4, <2>3
  <2>5. DOMAIN db = Fields
    BY <1>2 DEF DbOk
  <2>6. DOMAIN e = Fields /\ e.stored = db.stored /\ e.graph = TRUE
    BY <2>5 DEF Fields
  <2>7. SameGraph(db, e)
    BY <2>5 DEF Fields, SameGraph
  <2>8. SameGroups(db, e)
    BY <2>5 DEF Fields, SameGroups
  <2>9. /\ e.parser = db.parser /\ e.services = db.services /\ e.terms = db.terms /\ e.at = db.at
        /\ e.extractor = db.extractor
    BY <2>5 DEF Fields
  <2> HIDE DEF e
  <2>10. DbOk(Parsed, e)
    BY <1>2, <2>6, <2>7, <2>8 DEF DbOk, SameGroups, SameGraph
  <2>11. DataOk(e)
    <3>1. ParseOf(e) = Parsed /\ e.parser \in {1, 2, 6} /\ e.extractor \in {1, 2}
      BY <1>2, <2>9, LastParser DEF ParseOf
    <3>2. SevereExact(e.severe, e.groups, IF e.services THEN Len(e.groups) ELSE e.at)
      BY <1>2, <2>8, <2>9 DEF SevereFull, SameGroups
    <3>3. GraphOk(e)
      BY <1>2, <2>4, <2>6, <2>7 DEF GraphOk, Keyed, SameGraph
    <3>4. e.terms => e.termed = DOMAIN e.groups
      BY <1>2, <2>8, <2>9 DEF SameGroups
    <3> QED
      BY <1>2, <2>9, <2>10, <3>1, <3>2, <3>3, <3>4 DEF DataOk
  <2>12. DOMAIN e.member = e.stored
    BY <1>3, <2>6, <2>8 DEF SameGroups
  <2> QED
    BY <1>2, <2>1, <2>6, <2>9, <2>11, <2>12 DEF IndexInv, StepInv
<1>6. ASSUME NEW page \in Pages(cursor), db' = FoldLeft(IndexEdge, db, page),
             Goto("graph page", Last(page))
      PROVE  IndexInv'
  <2>1. /\ page \in Seq(db.stored) /\ Last(page) \in Records \cup {0}
        /\ Range(page) \subseteq db.stored
        /\ db.stored \ RestOf(db.stored, Last(page)) \subseteq
             (db.stored \ RestOf(db.stored, cursor)) \cup Range(page)
    BY <1>2, PageCovers
  <2>2. pc' = "graph page" /\ cursor' = Last(page)
    BY <1>6 DEF Goto
  <2> DEFINE e == LinkAll(db, page)
  <2>3. db' = e
    BY <1>6 DEF LinkAll
  <2>4. EdgesIndexed(db, e, Range(page))
    BY <1>2, <2>1, EdgeLoop
  <2> HIDE DEF e
  <2>5. /\ DbOk(Parsed, e) /\ Keyed(Key, e)
        /\ DOMAIN e.evidence = DOMAIN db.evidence \cup Edged(Key, Range(page))
        /\ e.stored = db.stored /\ SameGroups(db, e)
        /\ e.parser = db.parser /\ e.services = db.services
        /\ e.terms = db.terms /\ e.graph = db.graph /\ e.extractor = db.extractor
    BY <2>4 DEF EdgesIndexed, SameMarks
  <2>6. DataOk(e)
    <3>1. ParseOf(e) = Parsed /\ e.parser \in {1, 2, 6} /\ e.extractor \in {1, 2}
      BY <1>2, <2>5, LastParser DEF ParseOf
    <3>2. SevereExact(e.severe, e.groups, IF e.services THEN Len(e.groups) ELSE e.at)
      BY <1>2, <2>5 DEF SevereFull, SameGroups
    <3>3. e.terms => e.termed = DOMAIN e.groups
      BY <1>2, <2>5 DEF SameGroups
    <3>4. GraphOk(e)
      <4>1. DOMAIN e.evidence \subseteq Edged(Key, e.stored)
        BY <2>5 DEF Keyed
      <4>2. e.graph => Edged(Key, e.stored) \subseteq DOMAIN e.evidence
        BY <1>2, <2>5
      <4>3. e.graph => DOMAIN e.evidence = Edged(Key, e.stored)
        BY <4>1, <4>2
      <4> QED
        BY <2>5, <4>3 DEF GraphOk
    <3> QED
      BY <1>2, <2>5, <3>1, <3>2, <3>3, <3>4 DEF DataOk
  <2>7. Edged(Key, e.stored \ RestOf(e.stored, Last(page))) \subseteq DOMAIN e.evidence
    <3>1. e.stored \ RestOf(e.stored, Last(page)) \subseteq
             (db.stored \ RestOf(db.stored, cursor)) \cup Range(page)
      BY <2>1, <2>5
    <3>2. Edged(Key, e.stored \ RestOf(e.stored, Last(page))) \subseteq
            Edged(Key, db.stored \ RestOf(db.stored, cursor)) \cup Edged(Key, Range(page))
      BY <3>1 DEF Edged
    <3> QED
      BY <1>3, <2>5, <3>2
  <2>8. DOMAIN e.member = e.stored
    BY <1>3, <2>5 DEF SameGroups
  <2> QED
    BY <1>2, <2>1, <2>2, <2>3, <2>5, <2>6, <2>7, <2>8 DEF IndexInv, StepInv
<1> QED
  BY <1>5, <1>6 DEF GraphPage

\* backfill_terms_if_needed begins.
LEMMA BackfillTermsStep == ASSUME IndexInv, BackfillTerms PROVE IndexInv'
<1>1. pc = "terms" /\ db' = db /\ cursor' = 0
  BY DEF BackfillTerms, Goto
<1>2. DataOk(db) /\ db.parser = 6 /\ db.services /\ db.extractor = 2
  BY <1>1, PastServices
<1>3. DOMAIN db.member = db.stored /\ db.graph
  BY <1>1 DEF IndexInv, StepInv
<1>4. CASE db.terms
  <2>1. pc' = "ready"
    BY <1>4 DEF BackfillTerms, Goto
  <2> QED
    BY <1>1, <1>2, <1>3, <1>4, <2>1 DEF IndexInv, StepInv
<1>5. CASE ~db.terms
  <2>1. pc' = "terms page"
    BY <1>5 DEF BackfillTerms, Goto
  <2>2. 0 \in Nat /\ 1 .. 0 = {}
    BY SMTT(60)
  <2> QED
    BY <1>1, <1>2, <1>3, <2>1, <2>2 DEF IndexInv, StepInv
<1> QED
  BY <1>4, <1>5

\* A page of backfill_terms_if_needed, or its end: then every group has its terms.
LEMMA TermsPageStep == ASSUME IndexInv, TermsPage PROVE IndexInv'
<1>1. pc = "terms page"
  BY DEF TermsPage
<1>2. /\ DataOk(db) /\ db.parser = 6 /\ db.services /\ DbOk(Parsed, db) /\ SevereFull(db)
      /\ db.terms => db.termed = DOMAIN db.groups
      /\ GraphOk(db) /\ db.extractor = 2 /\ Keyed(Key, db)
      /\ db.graph => DOMAIN db.evidence = Edged(Key, db.stored)
  BY <1>1, PastServices
<1>3. /\ DOMAIN db.member = db.stored /\ db.graph
      /\ cursor \in Nat /\ (1 .. cursor) \cap DOMAIN db.groups \subseteq db.termed
  BY <1>1 DEF IndexInv, StepInv
<1>4. /\ DOMAIN db = Fields /\ db.groups \in Seq(Rows(Cards)) /\ db.termed \subseteq DOMAIN db.groups
  BY <1>2 DEF DbOk, TableOf
<1>5. DOMAIN db.groups = 1 .. Len(db.groups) /\ Len(db.groups) \in Nat
  BY <1>4, SMTT(60)
<1>6. ASSUME NEW e, DOMAIN e = Fields, e.stored = db.stored, e.groups = db.groups,
             e.member = db.member, e.severe = db.severe, SameGraph(db, e), e.parser = 6,
             e.graph = db.graph, e.services = db.services, e.extractor = 2,
             e.termed \subseteq DOMAIN db.groups, e.terms => e.termed = DOMAIN db.groups
      PROVE  DataOk(e)
  <2>1. DbOk(Parsed, e)
    BY <1>2, <1>6 DEF DbOk, SameGraph
  <2>2. ParseOf(e) = Parsed
    BY <1>6, LastParser DEF ParseOf
  <2>3. GraphOk(e)
    BY <1>2, <1>6, NotFirst, GraphStays
  <2>4. e.parser \in {1, 2, 6} /\ e.extractor \in {1, 2}
    BY <1>6
  <2>5. SevereExact(e.severe, e.groups, IF e.services THEN Len(e.groups) ELSE e.at)
    BY <1>2, <1>6 DEF SevereFull
  <2> QED
    BY <1>2, <1>6, <2>1, <2>2, <2>3, <2>4, <2>5 DEF DataOk
<1>7. CASE CardsAfter(cursor) = {}
  <2> DEFINE e == [db EXCEPT !.terms = TRUE]
  <2>1. db' = e /\ pc' = "ready"
    BY <1>7 DEF TermsPage, Goto
  <2>2. /\ DOMAIN e = Fields /\ e.terms = TRUE /\ e.stored = db.stored /\ e.groups = db.groups
    BY <1>4 DEF Fields
  <2>3. /\ e.member = db.member /\ e.severe = db.severe /\ e.termed = db.termed
        /\ e.parser = db.parser /\ e.graph = db.graph /\ e.services = db.services
        /\ e.extractor = db.extractor
    BY <1>4 DEF Fields
  <2>4. SameGraph(db, e)
    BY <1>4 DEF Fields, SameGraph
  <2>5. db.termed = DOMAIN db.groups
    <3>1. Len(db.groups) <= cursor
      BY <1>3, <1>4, <1>7, CardsNext
    <3>2. \A i \in 1 .. Len(db.groups) : i \in 1 .. cursor
      BY <1>3, <1>5, <3>1, SMTT(60)
    <3> QED
      BY <1>3, <1>4, <1>5, <3>2
  <2> HIDE DEF e
  <2>6. DataOk(e)
    BY <1>2, <1>4, <1>6, <2>2, <2>3, <2>4, <2>5
  <2> QED
    BY <1>2, <1>3, <2>1, <2>2, <2>3, <2>6 DEF IndexInv, StepInv
<1>8. CASE CardsAfter(cursor) # {}
  <2> DEFINE last == Max(CardsAfter(cursor))
             termed == db.termed \cup CardsAfter(cursor)
             e == [db EXCEPT !.termed = termed]
  <2>1. db' = e /\ pc' = "terms page" /\ cursor' = last
    BY <1>8 DEF TermsPage, Goto
  <2>2. /\ last \in Nat /\ cursor <= last /\ last <= Len(db.groups)
        /\ CardsAfter(cursor) = (cursor + 1) .. last
    BY <1>3, <1>4, <1>8, CardsNext
  <2> HIDE DEF last
  <2>3. /\ \A i \in (cursor + 1) .. last : i \in 1 .. Len(db.groups)
        /\ \A i \in 1 .. last : i \in 1 .. cursor \/ i \in (cursor + 1) .. last
    BY <1>3, <1>5, <2>2, SMTT(60)
  <2>4. termed \subseteq DOMAIN db.groups /\ (1 .. last) \cap DOMAIN db.groups \subseteq termed
    BY <1>3, <1>4, <1>5, <2>2, <2>3
  <2>5. db.termed \subseteq termed
    OBVIOUS
  <2> HIDE DEF termed
  <2>6. DOMAIN e = Fields /\ e.termed = termed /\ e.stored = db.stored /\ e.groups = db.groups
    BY <1>4 DEF Fields
  <2>7. /\ e.member = db.member /\ e.severe = db.severe /\ e.terms = db.terms
        /\ e.parser = db.parser /\ e.graph = db.graph /\ e.services = db.services
        /\ e.extractor = db.extractor
    BY <1>4 DEF Fields
  <2>8. SameGraph(db, e)
    BY <1>4 DEF Fields, SameGraph
  <2> HIDE DEF e
  <2>9. e.terms => e.termed = DOMAIN db.groups
    BY <1>2, <2>4, <2>5, <2>6, <2>7
  <2>10. DataOk(e)
    BY <1>2, <1>6, <2>4, <2>6, <2>7, <2>8, <2>9
  <2>11. (1 .. last) \cap DOMAIN e.groups \subseteq e.termed
    BY <2>4, <2>6
  <2> QED
    BY <1>2, <1>3, <2>1, <2>2, <2>6, <2>7, <2>10, <2>11 DEF IndexInv, StepInv
<1> QED
  BY <1>7, <1>8

\* A provider page is committed to an open corpus.
LEMMA CommitStep == ASSUME IndexInv, Commit PROVE IndexInv'
<1>1. pc = "ready" /\ pc' = "ready"
  BY DEF Commit
<1>2. /\ DataOk(db) /\ db.parser = 6 /\ db.services /\ DbOk(Parsed, db) /\ SevereFull(db)
      /\ db.terms => db.termed = DOMAIN db.groups
      /\ GraphOk(db) /\ db.extractor = 2 /\ Keyed(Key, db)
      /\ db.graph => DOMAIN db.evidence = Edged(Key, db.stored)
  BY <1>1, PastServices
<1>3. DOMAIN db.member = db.stored /\ db.graph /\ db.terms
  BY <1>1 DEF IndexInv, StepInv
<1>4. Whole(Parsed, Peer, db)
  BY <1>2, <1>3 DEF Whole, Complete, Key
<1>5. PICK page \in SeqOf(Records, CommitPage) : db' = FoldLeft(CommitRecord, db, page)
  BY DEF Commit
<1>6. page \in Seq(Records)
  <2>1. page \in SeqOf(Records, CommitPage)
    OBVIOUS
  <2> QED
    BY <2>1, SMTT(60) DEF SeqOf
<1> DEFINE e == CommitAll(db, page)
<1>7. db' = e
  BY <1>5 DEF CommitAll
<1>8. Whole(Parsed, Peer, e) /\ SameMarks(db, e)
  BY <1>4, <1>6, CommitLoop
<1> HIDE DEF e
<1>9. /\ DbOk(Parsed, e) /\ SevereFull(e) /\ DOMAIN e.member = e.stored
      /\ Keyed(Key, e) /\ DOMAIN e.evidence = Edged(Key, e.stored)
      /\ e.termed = DOMAIN e.groups
      /\ e.parser = db.parser /\ e.services = db.services /\ e.graph = db.graph
      /\ e.terms = db.terms /\ e.extractor = db.extractor
  BY <1>8 DEF Whole, Complete, SameMarks, Key
<1>10. DataOk(e)
  <2>1. ParseOf(e) = Parsed /\ e.parser \in {1, 2, 6} /\ e.extractor \in {1, 2}
    BY <1>2, <1>9, LastParser DEF ParseOf
  <2>2. SevereExact(e.severe, e.groups, IF e.services THEN Len(e.groups) ELSE e.at)
    BY <1>2, <1>9 DEF SevereFull
  <2>3. GraphOk(e)
    BY <1>9 DEF GraphOk
  <2> QED
    BY <1>2, <1>9, <2>1, <2>2, <2>3 DEF DataOk
<1> QED
  BY <1>1, <1>2, <1>3, <1>7, <1>9, <1>10 DEF IndexInv, StepInv

\* Every step keeps the invariant of the tables.
LEMMA IndexNextKeeps == IndexInv /\ [Next]_vars => IndexInv'
<1> SUFFICES ASSUME IndexInv, [Next]_vars PROVE IndexInv'
  OBVIOUS
<1>1. CASE UNCHANGED index
  <2>1. db' = db /\ pc' = pc /\ cursor' = cursor
    BY <1>1 DEF index
  <2> QED
    BY <2>1 DEF IndexInv, StepInv
<1>2. CASE IndexStep
  <2>1. CASE Close
    <3>1. db' = db /\ pc' = "closed"
      BY <2>1 DEF Close, Goto
    <3> QED
      BY <3>1 DEF IndexInv, StepInv
  <2>2. CASE Opening
    BY <2>2, ResetGraphStep, BackfillServicesStep, ServicesPageStep, BackfillMembersStep,
       MembersPageStep, BackfillGraphStep, GraphPageStep, BackfillTermsStep, TermsPageStep
       DEF Opening
  <2> QED
    BY <1>2, <2>1, <2>2, OpenStep, CommitStep DEF IndexStep, IndexNext
<1>3. CASE \E r \in Records, n \in Nonces, verdict \in {"useful", "not_useful"} :
             Rate(r, n, verdict)
  BY <1>1, <1>3 DEF Rate
<1>4. CASE Promote \/ Rollback
  BY <1>1, <1>4 DEF Promote, Rollback
<1>5. CASE LearningCommand
  BY <1>1, <1>5 DEF LearningCommand
<1>6. CASE \/ \E c \in Cases, r \in Records, label \in {"relevant", "irrelevant"},
                 split \in {"development", "held_out"} : Label(c, r, label, split)
           \/ \E r \in Records : Revoke(r)
           \/ \E passed \in BOOLEAN : Register(passed)
  BY <1>5, <1>6 DEF Label, Revoke, Register
<1>7. CASE (\E v \in DOMAIN routes : PromoteRoute(v)) \/ RollbackRoute
  BY <1>5, <1>7 DEF PromoteRoute, RollbackRoute
<1>8. CASE UNCHANGED vars
  BY <1>1, <1>8 DEF vars
<1> QED
  BY <1>2, <1>3, <1>4, <1>6, <1>7, <1>8 DEF Next

\* The tables that the invariant describes are exact as TablesExact says.
LEMMA IndexIsExact == IndexInv => TablesExact
<1> SUFFICES ASSUME IndexInv PROVE TablesExact
  OBVIOUS
<1> DEFINE n == IF db.services THEN Len(db.groups) ELSE db.at
<1>1. /\ DbOk(ParseOf(db), db) /\ SevereExact(db.severe, db.groups, n)
      /\ ~db.services => db.at \in 0 .. Len(db.groups)
  BY DEF IndexInv, DataOk
<1>2. /\ TableOf(db.groups, Cards, ParseOf(db), DOMAIN db.member)
      /\ \A r \in DOMAIN db.member : /\ db.member[r] \in DOMAIN db.groups
                                     /\ db.groups[db.member[r]].key = ParseOf(db)[r]
      /\ TableOf(db.edges, EdgeKeys, db.evidence, DOMAIN db.evidence)
      /\ db.version = Cardinality(DOMAIN db.evidence)
  BY <1>1 DEF DbOk
<1>3. db.groups \in Seq(Rows(Cards)) /\ Len(db.groups) \in 0 .. Len(db.groups)
  <2>1. db.groups \in Seq(Rows(Cards))
    BY <1>2 DEF TableOf
  <2> QED
    BY <2>1, SMTT(60)
<1>4. n \in 0 .. Len(db.groups)
  BY <1>1, <1>3
<1> HIDE DEF n
<1>5. db.severe = Summaries(n)
  BY <1>1, <1>3, <1>4, SevereSummaries
<1>6. ASSUME db.parser = 6
      PROVE  /\ Distinct(db.groups)
             /\ \A i \in DOMAIN db.groups :
                  Exact(db.groups[i], {r \in DOMAIN db.member : db.member[r] = i})
             /\ \A r \in DOMAIN db.member : db.groups[db.member[r]].key = Parsed[r]
  <2>1. ParseOf(db) = Parsed
    BY <1>6, LastParser DEF ParseOf
  <2>2. /\ Distinct(db.groups)
        /\ \A i \in DOMAIN db.groups :
             Exact(db.groups[i], {r \in DOMAIN db.member : Parsed[r] = db.groups[i].key})
    BY <1>2, <2>1 DEF TableOf
  <2>3. ASSUME NEW i \in DOMAIN db.groups
        PROVE  {r \in DOMAIN db.member : Parsed[r] = db.groups[i].key} =
               {r \in DOMAIN db.member : db.member[r] = i}
    <3>1. ASSUME NEW r \in DOMAIN db.member, Parsed[r] = db.groups[i].key
          PROVE  db.member[r] = i
      BY <1>2, <2>1, <2>2, <3>1 DEF Distinct
    <3>2. ASSUME NEW r \in DOMAIN db.member, db.member[r] = i
          PROVE  Parsed[r] = db.groups[i].key
      BY <1>2, <2>1, <3>2
    <3> QED
      BY <3>1, <3>2
  <2> QED
    BY <1>2, <2>1, <2>2, <2>3
<1>7. /\ Distinct(db.edges)
      /\ \A i \in DOMAIN db.edges :
           Exact(db.edges[i], {r \in DOMAIN db.evidence : db.evidence[r] = db.edges[i].key})
  BY <1>2 DEF TableOf
<1> QED
  BY <1>2, <1>5, <1>6, <1>7 DEF TablesExact, n

\* TablesExact: whatever an earlier program left, and wherever earlier opens and
\* commits ended, each group states exactly its members, each edge its evidence and
\* each summary the severe groups summarised so far.
THEOREM TablesAlwaysExact == Spec => []TablesExact
<1>1. Spec => []IndexInv
  BY IndexInit, IndexNextKeeps, PTL DEF Spec
<1> QED
  BY <1>1, IndexIsExact, PTL

\* ReadyComplete: a corpus that open() returns is complete, and open() does not refuse
\* it for missing memberships.
THEOREM ReadyIsComplete == Spec => []ReadyComplete
<1>1. Spec => []IndexInv
  BY IndexInit, IndexNextKeeps, PTL DEF Spec
<1>2. IndexInv => ReadyComplete
  <2> SUFFICES ASSUME IndexInv PROVE ReadyComplete
    OBVIOUS
  <2>1. pc # "refused"
    BY DEF IndexInv, StepInv
  <2>2. ASSUME pc = "ready"
        PROVE  /\ DOMAIN db.member = db.stored /\ db.termed = DOMAIN db.groups /\ db.services
               /\ db.evidence = [r \in {s \in db.stored : IsEdge(Link(Parsed, Peer, s))}
                                   |-> Link(Parsed, Peer, r)]
    <3>1. /\ db.services
          /\ db.terms => db.termed = DOMAIN db.groups
          /\ Keyed(Key, db) /\ (db.graph => DOMAIN db.evidence = Edged(Key, db.stored))
          /\ db.stored \subseteq Records
      BY <2>2, PastServices
    <3>2. DOMAIN db.member = db.stored /\ db.graph /\ db.terms
      BY <2>2 DEF IndexInv, StepInv
    <3>3. \A r \in db.stored : Key[r] = Link(Parsed, Peer, r)
      BY <3>1 DEF Key, EdgeKey
    <3>4. Edged(Key, db.stored) = {s \in db.stored : IsEdge(Link(Parsed, Peer, s))}
      BY <3>3 DEF Edged
    <3>5. db.evidence = [r \in Edged(Key, db.stored) |-> Link(Parsed, Peer, r)]
      <4>1. db.evidence = [r \in Edged(Key, db.stored) |-> Key[r]]
        BY <3>1, <3>2 DEF Keyed
      <4>2. \A r \in Edged(Key, db.stored) : Key[r] = Link(Parsed, Peer, r)
        BY <3>3 DEF Edged
      <4> QED
        BY <4>1, <4>2
    <3>6. db.evidence = [r \in {s \in db.stored : IsEdge(Link(Parsed, Peer, s))}
                           |-> Link(Parsed, Peer, r)]
      BY <3>4, <3>5
    <3> QED
      BY <3>1, <3>2, <3>6
  <2> QED
    BY <2>1, <2>2 DEF ReadyComplete
<1> QED
  BY <1>1, <1>2, PTL
=============================================================================
