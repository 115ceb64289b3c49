------------------------ MODULE WorkloadBuildProofs ------------------------
(***************************************************************************)
(* Theorems about the build path, for every contract, every assignment to  *)
(* it and every set of packages.                                           *)
(***************************************************************************)
EXTENDS WorkloadBuild, SequenceTheorems, TLAPS

USE DEF vars, registryVars

-----------------------------------------------------------------------------
(* What a handler does, put together from what its parts do.               *)

Completes(plan) == Runs(plan, Len(plan))

(* A plan that does not complete has a first check that fails.             *)
Settles(plan) == \/ Completes(plan)
                 \/ \E i \in DOMAIN plan : FailsAt(plan, i) /\ Runs(plan, i - 1)

(* A part that follows takes effect if and only if the part before it      *)
(* completes.                                                              *)
LEMMA Following ==
    ASSUME NEW S, NEW p \in Seq(S), NEW q \in Seq(S)
    PROVE  /\ p \o q \in Seq(S)
           /\ Completes(p \o q) <=> Completes(p) /\ Completes(q)
           /\ Registered(p \o q) = Registered(p) \cup (IF Completes(p) THEN Registered(q) ELSE {})
           /\ Settles(p) /\ Settles(q) => Settles(p \o q)
<1> DEFINE r == p \o q
           m == Len(p)
           n == Len(q)
<1>1. /\ r \in Seq(S) /\ Len(r) = m + n
      /\ m \in Nat /\ n \in Nat
      /\ DOMAIN p = 1..m /\ DOMAIN q = 1..n /\ DOMAIN r = 1..(m + n)
  BY ConcatProperties, LenProperties
<1>2. \A i \in 1..m : r[i] = p[i]
  BY <1>1, ConcatProperties
<1>3. \A i \in 1..n : r[m + i] = q[i]
  <2> SUFFICES ASSUME NEW i \in 1..n PROVE r[m + i] = q[i]
    OBVIOUS
  <2>1. m + i \in 1..(m + n) /\ ~ (m + i <= m) /\ (m + i) - m = i
    BY <1>1
  <2> QED BY <1>1, <2>1, ConcatProperties
<1> HIDE DEF r, m, n
<1>4. /\ \A i \in 1..m : FailsAt(r, i) <=> FailsAt(p, i)
      /\ \A i \in 1..n : FailsAt(r, m + i) <=> FailsAt(q, i)
  BY <1>2, <1>3 DEF FailsAt
<1>5. \A i \in 0..m : Runs(r, i) <=> Runs(p, i)
  BY <1>1, <1>4 DEF Runs
<1>6. ASSUME NEW i \in 0..n PROVE Runs(r, m + i) <=> Runs(p, m) /\ Runs(q, i)
  <2>1. ASSUME Runs(r, m + i) PROVE Runs(p, m) /\ Runs(q, i)
    <3>1. \A j \in 1..m : j \in 1..(m + i)
      BY <1>1
    <3>2. \A j \in 1..i : m + j \in 1..(m + i) /\ j \in 1..n
      BY <1>1
    <3> QED BY <1>4, <2>1, <3>1, <3>2 DEF Runs
  <2>2. ASSUME Runs(p, m), Runs(q, i), NEW j \in 1..(m + i) PROVE ~ FailsAt(r, j)
    <3>1. CASE j \in 1..m
      BY <1>4, <2>2, <3>1 DEF Runs
    <3>2. CASE j \notin 1..m
      <4>1. j - m \in 1..i /\ j - m \in 1..n /\ m + (j - m) = j
        BY <1>1, <3>2
      <4> QED BY <1>4, <2>2, <4>1 DEF Runs
    <3> QED BY <3>1, <3>2
  <2> QED BY <2>1, <2>2 DEF Runs
<1>7. Completes(r) <=> Completes(p) /\ Completes(q)
  <2>1. n \in 0..n
    BY <1>1
  <2> QED BY <1>1, <1>6, <2>1 DEF Completes, m, n
<1>8. Registered(r) = Registered(p) \cup (IF Completes(p) THEN Registered(q) ELSE {})
  <2>1. ASSUME NEW i \in 1..(m + n), r[i].step = "register", Runs(r, i)
        PROVE  r[i].object \in Registered(p) \cup (IF Completes(p) THEN Registered(q) ELSE {})
    <3>1. CASE i \in 1..m
      BY <1>1, <1>2, <1>5, <2>1, <3>1 DEF Registered
    <3>2. CASE i \notin 1..m
      <4>1. i - m \in 1..n /\ i - m \in 0..n /\ m + (i - m) = i
        BY <1>1, <3>2
      <4>2. Runs(p, m) /\ Runs(q, i - m) /\ r[i] = q[i - m]
        BY <1>3, <1>6, <2>1, <4>1
      <4> QED BY <1>1, <2>1, <4>1, <4>2 DEF Registered, Completes, m
    <3> QED BY <3>1, <3>2
  <2>2. ASSUME NEW i \in 1..m, p[i].step = "register", Runs(p, i)
        PROVE  p[i].object \in Registered(r)
    BY <1>1, <1>2, <1>5, <2>2 DEF Registered
  <2>3. ASSUME Completes(p), NEW i \in 1..n, q[i].step = "register", Runs(q, i)
        PROVE  q[i].object \in Registered(r)
    <3>1. m + i \in 1..(m + n) /\ i \in 0..n
      BY <1>1
    <3>2. Runs(r, m + i) /\ r[m + i] = q[i]
      BY <1>3, <1>6, <2>3, <3>1 DEF Completes, m
    <3> QED BY <1>1, <2>3, <3>1, <3>2 DEF Registered
  <2>4. Registered(r) \subseteq Registered(p) \cup (IF Completes(p) THEN Registered(q) ELSE {})
    BY <1>1, <2>1 DEF Registered
  <2>5. Registered(p) \subseteq Registered(r)
    BY <1>1, <2>2 DEF Registered
  <2>6. Completes(p) => Registered(q) \subseteq Registered(r)
    BY <1>1, <2>3 DEF Registered
  <2> QED BY <2>4, <2>5, <2>6
<1>9. Settles(p) /\ Settles(q) => Settles(r)
  <2>1. ASSUME NEW i \in 1..m, FailsAt(p, i), Runs(p, i - 1) PROVE Settles(r)
    <3>1. i - 1 \in 0..m /\ i \in 1..(m + n)
      BY <1>1
    <3> QED BY <1>1, <1>4, <1>5, <2>1, <3>1 DEF Settles
  <2>2. ASSUME Completes(p), NEW i \in 1..n, FailsAt(q, i), Runs(q, i - 1) PROVE Settles(r)
    <3>1. i - 1 \in 0..n /\ m + i \in 1..(m + n) /\ m + (i - 1) = (m + i) - 1
      BY <1>1
    <3>2. Runs(r, (m + i) - 1)
      BY <1>6, <2>2, <3>1 DEF Completes, m
    <3> QED BY <1>1, <1>4, <2>2, <3>1, <3>2 DEF Settles
  <2> QED BY <1>1, <1>7, <2>1, <2>2 DEF Settles
<1> QED BY <1>1, <1>7, <1>8, <1>9 DEF r

-----------------------------------------------------------------------------
(* The parts of the handlers.                                              *)

(* The objects of the handlers.                                            *)
BronzeNode(s, kind) ==
    [Node(kind, "bronze", "source") EXCEPT !.expectations = s.quality_actions \cap {"warn", "fail"}]
QuarantineNode == [Node("table", "quarantine", "bronze") EXCEPT !.filtered = TRUE]
ValidNode(s) == [Node("view", "valid", "bronze") EXCEPT !.filtered = quarantine_rules(s)]
TargetNode(threshold) == [Node("streaming_table", "silver", "none") EXCEPT !.threshold = threshold]
FlowNode(s, deletes, threshold) ==
    [Node("flow", "silver", "valid")
        EXCEPT !.keyed = s.business_keys, !.sequence = s.ordering,
               !.deletes = (deletes = "set"), !.threshold = threshold, !.scd = stored_type(s)]
SnapshotNode(s) ==
    [Node("snapshot_flow", "silver", "source") EXCEPT !.keyed = s.business_keys, !.scd = 2]
EventsNode(s) == [Node("table", "silver", "bronze") EXCEPT !.filtered = quarantine_rules(s)]
ReplicaNode == Node("materialized_view", "silver", "bronze")

Thresholds(s) == {0, s.tombstone_retention}
Expressions(s) == {"absent", s.apply_as_deletes}

Objects(s) ==
    {BronzeNode(s, kind) : kind \in {"materialized_view", "table"}}
    \cup {QuarantineNode, ValidNode(s), SnapshotNode(s), EventsNode(s), ReplicaNode}
    \cup {TargetNode(threshold) : threshold \in Thresholds(s)}
    \cup {FlowNode(s, deletes, threshold) :
             deletes \in Expressions(s), threshold \in Thresholds(s)}

Steps(s) == [step : {"check"}, ok : BOOLEAN, error : Errors]
            \cup [step : {"register"}, object : Objects(s)]

LEMMA OneCheck ==
    ASSUME NEW s, NEW ok \in BOOLEAN, NEW error \in Errors
    PROVE  /\ <<Check(ok, error)>> \in Seq(Steps(s))
           /\ Completes(<<Check(ok, error)>>) <=> ok
           /\ Registered(<<Check(ok, error)>>) = {}
           /\ Settles(<<Check(ok, error)>>)
<1> DEFINE p == <<Check(ok, error)>>
<1>1. /\ Len(p) = 1 /\ DOMAIN p = {1} /\ p[1] = Check(ok, error)
      /\ p[1].step = "check" /\ p[1].ok = ok
  BY DEF Check
<1>2. p \in Seq(Steps(s))
  BY DEF Check, Steps
<1> HIDE DEF p
<1>3. Completes(p) <=> ok
  BY <1>1 DEF Completes, Runs, FailsAt
<1>4. Registered(p) = {}
  BY <1>1 DEF Registered
<1>5. Settles(p)
  BY <1>1, <1>3 DEF Settles, Runs, FailsAt
<1> QED BY <1>2, <1>3, <1>4, <1>5 DEF p

LEMMA OneObject ==
    ASSUME NEW s, NEW object \in Objects(s)
    PROVE  /\ <<Register(object)>> \in Seq(Steps(s))
           /\ Completes(<<Register(object)>>)
           /\ Registered(<<Register(object)>>) = {object}
           /\ Settles(<<Register(object)>>)
<1> DEFINE p == <<Register(object)>>
<1>1. /\ Len(p) = 1 /\ DOMAIN p = {1} /\ p[1] = Register(object)
      /\ p[1].step = "register" /\ p[1].object = object
  BY DEF Register
<1>2. p \in Seq(Steps(s))
  BY DEF Register, Steps
<1> HIDE DEF p
<1>3. \A i \in 0..1 : Runs(p, i)
  BY <1>1 DEF Runs, FailsAt
<1>4. Registered(p) = {object}
  BY <1>1, <1>3 DEF Registered
<1>5. Completes(p) /\ Settles(p)
  BY <1>1, <1>3 DEF Settles, Completes
<1> QED BY <1>2, <1>4, <1>5 DEF p

LEMMA NoStep ==
    ASSUME NEW s
    PROVE  /\ << >> \in Seq(Steps(s)) /\ Completes(<< >>)
           /\ Registered(<< >>) = {} /\ Settles(<< >>)
<1>1. << >> \in Seq(Steps(s)) /\ Len(<< >>) = 0 /\ DOMAIN << >> = {}
  BY EmptySeq
<1>2. Completes(<< >>)
  BY <1>1 DEF Completes, Runs
<1> QED BY <1>1, <1>2 DEF Registered, Settles

LEMMA ObjectFields ==
    ASSUME NEW s, NEW kind, NEW threshold, NEW deletes
    PROVE  /\ BronzeNode(s, kind).kind = kind /\ BronzeNode(s, kind).target = "bronze"
           /\ BronzeNode(s, kind).reads = "source" /\ ~ BronzeNode(s, kind).filtered
           /\ QuarantineNode.kind = "table" /\ QuarantineNode.target = "quarantine"
           /\ QuarantineNode.reads = "bronze" /\ QuarantineNode.filtered
           /\ ValidNode(s).kind = "view" /\ ValidNode(s).target = "valid"
           /\ ValidNode(s).reads = "bronze" /\ ValidNode(s).filtered = quarantine_rules(s)
           /\ TargetNode(threshold).kind = "streaming_table"
           /\ TargetNode(threshold).target = "silver" /\ TargetNode(threshold).reads = "none"
           /\ ~ TargetNode(threshold).filtered
           /\ FlowNode(s, deletes, threshold).kind = "flow"
           /\ FlowNode(s, deletes, threshold).target = "silver"
           /\ FlowNode(s, deletes, threshold).reads = "valid"
           /\ ~ FlowNode(s, deletes, threshold).filtered
           /\ FlowNode(s, deletes, threshold).keyed = s.business_keys
           /\ FlowNode(s, deletes, threshold).sequence = s.ordering
           /\ FlowNode(s, deletes, threshold).deletes = (deletes = "set")
           /\ FlowNode(s, deletes, threshold).threshold = threshold
           /\ SnapshotNode(s).kind = "snapshot_flow" /\ SnapshotNode(s).target = "silver"
           /\ SnapshotNode(s).reads = "source" /\ SnapshotNode(s).keyed = s.business_keys
           /\ ~ SnapshotNode(s).filtered
           /\ EventsNode(s).kind = "table" /\ EventsNode(s).target = "silver"
           /\ EventsNode(s).reads = "bronze" /\ EventsNode(s).filtered = quarantine_rules(s)
           /\ ReplicaNode.kind = "materialized_view" /\ ReplicaNode.target = "silver"
           /\ ReplicaNode.reads = "bronze" /\ ~ ReplicaNode.filtered
BY DEF BronzeNode, ReplicaNode, QuarantineNode, ValidNode, TargetNode, FlowNode, SnapshotNode, EventsNode, Node

LEMMA BronzeExpectations ==
    ASSUME NEW s, NEW kind
    PROVE  BronzeNode(s, kind).expectations = s.quality_actions \cap {"warn", "fail"}
BY DEF BronzeNode, Node

LEMMA PrologueChecks ==
    ASSUME NEW s, NEW c \in Contexts
    PROVE  /\ Prologue(s, c) \in Seq(Steps(s)) /\ Settles(Prologue(s, c))
           /\ Completes(Prologue(s, c)) => RuntimeContract(s)
           /\ Registered(Prologue(s, c)) = {}
<1> DEFINE p == Prologue(s, c)
           first == <<Check(RuntimeContract(s), "ValueError")>>
           second == <<Check(c.source_relation = "good", "ValueError")>>
           third == <<Check(s.bronze_table = "good", "ValueError")>>
           fourth == <<Check(s.silver_table = "good", "ValueError")>>
<1>1. RuntimeContract(s) \in BOOLEAN /\ "ValueError" \in Errors
  BY DEF RuntimeContract, Errors
<1>2. p = ((first \o second) \o third) \o fourth
  BY DEF Prologue
<1>3. /\ first \in Seq(Steps(s)) /\ Settles(first) /\ Registered(first) = {}
      /\ Completes(first) <=> RuntimeContract(s)
  BY <1>1, OneCheck
<1>4. /\ second \in Seq(Steps(s)) /\ Settles(second) /\ Registered(second) = {}
      /\ third \in Seq(Steps(s)) /\ Settles(third) /\ Registered(third) = {}
      /\ fourth \in Seq(Steps(s)) /\ Settles(fourth) /\ Registered(fourth) = {}
  BY <1>1, OneCheck
<1> HIDE DEF first, second, third, fourth
<1> DEFINE q1 == first \o second
           q  == q1 \o third
<1>5. /\ q1 \in Seq(Steps(s)) /\ Settles(q1) /\ Registered(q1) = {}
      /\ Completes(q1) => RuntimeContract(s)
  BY <1>3, <1>4, Following
<1> HIDE DEF q1
<1>6. /\ q \in Seq(Steps(s)) /\ Settles(q) /\ Registered(q) = {}
      /\ Completes(q) => RuntimeContract(s)
  BY <1>4, <1>5, Following
<1>7. p = q \o fourth
  BY <1>2 DEF q1
<1> HIDE DEF p, q
<1>8. /\ p \in Seq(Steps(s)) /\ Settles(p) /\ Registered(p) = {}
      /\ Completes(p) => RuntimeContract(s)
  BY <1>4, <1>6, <1>7, Following
<1> QED BY <1>8 DEF p

LEMMA QuarantineParts ==
    ASSUME NEW s
    PROVE  /\ Quarantine(s) \in Seq(Steps(s)) /\ Settles(Quarantine(s))
           /\ Registered(Quarantine(s)) \subseteq {QuarantineNode}
           /\ Completes(Quarantine(s)) =>
                 (QuarantineNode \in Registered(Quarantine(s))
                      <=> quarantine_rules(s) /\ s.quarantine_table # "none")
<1>1. CASE ~ quarantine_rules(s) \/ s.quarantine_table = "none"
  BY <1>1, NoStep DEF Quarantine
<1>2. CASE ~ (~ quarantine_rules(s) \/ s.quarantine_table = "none")
  <2> DEFINE check == <<Check(s.quarantine_table = "good", "ValueError")>>
             table == <<Register(QuarantineNode)>>
  <2>1. Quarantine(s) = check \o table
    BY <1>2 DEF Quarantine, QuarantineNode
  <2>2. check \in Seq(Steps(s)) /\ Settles(check) /\ Registered(check) = {}
    BY OneCheck DEF Errors
  <2>3. table \in Seq(Steps(s)) /\ Settles(table) /\ Registered(table) = {QuarantineNode}
    BY OneObject DEF Objects
  <2> HIDE DEF check, table
  <2> QED BY <1>2, <2>1, <2>2, <2>3, Following
<1> QED BY <1>1, <1>2

(* AUTO CDC: the target is created, the flow only if every argument is     *)
(* accepted.                                                               *)
LEMMA AutoCdcParts ==
    ASSUME NEW s, NEW deletes \in Expressions(s),
           NEW threshold \in Thresholds(s)
    PROVE  /\ AutoCdc(s, deletes, threshold) \in Seq(Steps(s))
           /\ Settles(AutoCdc(s, deletes, threshold))
           /\ Completes(AutoCdc(s, deletes, threshold)) => s.ordering = "authoritative"
           /\ Completes(AutoCdc(s, deletes, threshold)) =>
                 Registered(AutoCdc(s, deletes, threshold))
                     = {TargetNode(threshold), FlowNode(s, deletes, threshold)}
           /\ ~ Completes(AutoCdc(s, deletes, threshold)) =>
                 Registered(AutoCdc(s, deletes, threshold)) = {TargetNode(threshold)}
<1> DEFINE table == <<Register(TargetNode(threshold))>>
           order == <<Check(s.ordering = "authoritative", "ValueError")>>
           expression == <<Check(deletes # "malformed", "ValueError")>>
           columns == <<Check(s.except_columns # "malformed", "ValueError")>>
           flow == <<Register(FlowNode(s, deletes, threshold))>>
<1>1. AutoCdc(s, deletes, threshold) = (((table \o order) \o expression) \o columns) \o flow
  BY DEF AutoCdc, TargetNode, FlowNode
<1>2. TargetNode(threshold) \in Objects(s) /\ FlowNode(s, deletes, threshold) \in Objects(s)
  BY DEF Objects
<1>3. /\ table \in Seq(Steps(s)) /\ Settles(table) /\ Completes(table)
      /\ Registered(table) = {TargetNode(threshold)}
  BY <1>2, OneObject
<1>4. /\ flow \in Seq(Steps(s)) /\ Settles(flow) /\ Completes(flow)
      /\ Registered(flow) = {FlowNode(s, deletes, threshold)}
  BY <1>2, OneObject
<1>5. /\ order \in Seq(Steps(s)) /\ Settles(order) /\ Registered(order) = {}
      /\ Completes(order) <=> s.ordering = "authoritative"
  BY OneCheck DEF Errors
<1>6. /\ expression \in Seq(Steps(s)) /\ Settles(expression) /\ Registered(expression) = {}
      /\ columns \in Seq(Steps(s)) /\ Settles(columns) /\ Registered(columns) = {}
  BY OneCheck DEF Errors
<1> HIDE DEF table, order, expression, columns, flow
<1> DEFINE q1 == table \o order
           q2 == q1 \o expression
           q3 == q2 \o columns
           p  == q3 \o flow
<1>7. /\ q1 \in Seq(Steps(s)) /\ Settles(q1) /\ Registered(q1) = {TargetNode(threshold)}
      /\ Completes(q1) => s.ordering = "authoritative"
  BY <1>3, <1>5, Following
<1> HIDE DEF q1
<1>8. /\ q2 \in Seq(Steps(s)) /\ Settles(q2) /\ Registered(q2) = {TargetNode(threshold)}
      /\ Completes(q2) => s.ordering = "authoritative"
  BY <1>6, <1>7, Following
<1> HIDE DEF q2
<1>9. /\ q3 \in Seq(Steps(s)) /\ Settles(q3) /\ Registered(q3) = {TargetNode(threshold)}
      /\ Completes(q3) => s.ordering = "authoritative"
  BY <1>6, <1>8, Following
<1> HIDE DEF q3
<1>10. /\ p \in Seq(Steps(s)) /\ Settles(p)
       /\ Completes(p) => s.ordering = "authoritative"
       /\ Completes(p) => Registered(p) = {TargetNode(threshold), FlowNode(s, deletes, threshold)}
       /\ ~ Completes(p) => Registered(p) = {TargetNode(threshold)}
  BY <1>4, <1>9, Following
<1>11. AutoCdc(s, deletes, threshold) = p
  BY <1>1 DEF q1, q2, q3
<1> QED BY <1>10, <1>11, Zenon

(* The streaming verticals up to the valid stream.                         *)
Upstream(s, c) == Prologue(s, c) \o Bronze(s, "table") \o Quarantine(s) \o ValidView(s)

LEMMA UpstreamParts ==
    ASSUME NEW s, NEW c \in Contexts
    PROVE  LET G == Registered(Upstream(s, c)) IN
           /\ Upstream(s, c) \in Seq(Steps(s)) /\ Settles(Upstream(s, c))
           /\ G \subseteq {BronzeNode(s, "table"), QuarantineNode, ValidNode(s)}
           /\ G # {} => BronzeNode(s, "table") \in G
           /\ Completes(Upstream(s, c)) =>
                 /\ RuntimeContract(s)
                 /\ BronzeNode(s, "table") \in G /\ ValidNode(s) \in G
                 /\ QuarantineNode \in G <=> quarantine_rules(s) /\ s.quarantine_table # "none"
<1> DEFINE p == Prologue(s, c)
           b == Bronze(s, "table")
           q == Quarantine(s)
           v == ValidView(s)
<1>1. /\ p \in Seq(Steps(s)) /\ Settles(p) /\ Registered(p) = {}
      /\ Completes(p) => RuntimeContract(s)
  BY PrologueChecks
<1>2. /\ b \in Seq(Steps(s)) /\ Settles(b) /\ Completes(b)
      /\ Registered(b) = {BronzeNode(s, "table")}
  <2>1. BronzeNode(s, "table") \in Objects(s)
    BY DEF Objects
  <2>2. b = <<Register(BronzeNode(s, "table"))>>
    BY DEF Bronze, BronzeNode
  <2> QED BY <2>1, <2>2, OneObject
<1>3. /\ v \in Seq(Steps(s)) /\ Settles(v) /\ Completes(v) /\ Registered(v) = {ValidNode(s)}
  <2>1. ValidNode(s) \in Objects(s)
    BY DEF Objects
  <2>2. v = <<Register(ValidNode(s))>>
    BY DEF ValidView, ValidNode
  <2> QED BY <2>1, <2>2, OneObject
<1>4. /\ q \in Seq(Steps(s)) /\ Settles(q) /\ Registered(q) \subseteq {QuarantineNode}
      /\ Completes(q) => (QuarantineNode \in Registered(q)
                             <=> quarantine_rules(s) /\ s.quarantine_table # "none")
  BY QuarantineParts
<1>5. QuarantineNode # BronzeNode(s, "table") /\ QuarantineNode # ValidNode(s)
  BY ObjectFields
<1> HIDE DEF p, b, q, v
<1> DEFINE r1 == p \o b
           r2 == r1 \o q
           r  == r2 \o v
<1>6. /\ r1 \in Seq(Steps(s)) /\ Settles(r1)
      /\ Completes(r1) <=> Completes(p)
      /\ Registered(r1) = IF Completes(p) THEN {BronzeNode(s, "table")} ELSE {}
  BY <1>1, <1>2, Following
<1> HIDE DEF r1
<1>7. /\ r2 \in Seq(Steps(s)) /\ Settles(r2)
      /\ Completes(r2) <=> Completes(p) /\ Completes(q)
      /\ Registered(r2) = IF Completes(p) THEN {BronzeNode(s, "table")} \cup Registered(q) ELSE {}
  BY <1>4, <1>6, Following
<1> HIDE DEF r2
<1>8. /\ r \in Seq(Steps(s)) /\ Settles(r)
      /\ Completes(r) <=> Completes(p) /\ Completes(q)
      /\ Registered(r) = Registered(r2)
                             \cup (IF Completes(p) /\ Completes(q) THEN {ValidNode(s)} ELSE {})
  BY <1>3, <1>7, Following
<1>9. Upstream(s, c) = r
  BY DEF Upstream, p, b, q, v, r1, r2
<1> HIDE DEF r
<1>10. /\ r \in Seq(Steps(s)) /\ Settles(r)
       /\ Registered(r) \subseteq {BronzeNode(s, "table"), QuarantineNode, ValidNode(s)}
       /\ Registered(r) # {} => BronzeNode(s, "table") \in Registered(r)
  BY <1>4, <1>7, <1>8
<1>11. Completes(r) =>
          /\ RuntimeContract(s)
          /\ BronzeNode(s, "table") \in Registered(r) /\ ValidNode(s) \in Registered(r)
          /\ QuarantineNode \in Registered(r)
                 <=> quarantine_rules(s) /\ s.quarantine_table # "none"
  BY <1>1, <1>4, <1>5, <1>7, <1>8
<1> QED BY <1>9, <1>10, <1>11, Zenon

-----------------------------------------------------------------------------
(* The handlers.                                                           *)

Grounded(G) ==
    \A n \in G :
        /\ n.reads \in {"source", "none"} \/ \E m \in G : m.target = n.reads
        /\ n.kind \in {"flow", "snapshot_flow"} =>
              \E m \in G : m.kind = "streaming_table" /\ m.target = n.target

FlowsHold(s, G) ==
    \A n \in G :
        /\ n.kind \in {"flow", "snapshot_flow"} =>
              /\ RuntimeContract(s) /\ s.pattern_id \in {"P02", "P07", "P10"}
              /\ n.keyed = s.business_keys
        /\ n.kind = "flow" =>
              /\ s.pattern_id \in {"P07", "P10"} /\ n.sequence = "authoritative"
              /\ s.ordering = "authoritative"
              /\ n.deletes = PassesDeletes(Policy(s))
              /\ s.pattern_id = "P10" => n.threshold = Policy(s).retention
        /\ n.kind = "snapshot_flow" => s.pattern_id = "P02"

OnlyTargets(G) == \A n \in G : n.target = "silver" => n.kind = "streaming_table"

Sink(G)     == \E n \in G : n.filtered /\ n.target = "quarantine"
Withheld(G) == \E n \in G : n.filtered /\ n.target \in {"valid", "silver"}

Split(s, G) == /\ Sink(G) => Withheld(G)
               /\ Withheld(G) /\ QualityOK(s) => Sink(G)

(* Some object decorated with the fail rules, if there are any. *)
Guarded(s, G) == "fail" \in s.quality_actions => \E n \in G : "fail" \in n.expectations

Sound(s, p) ==
    /\ Settles(p) /\ p \in Seq(Steps(s))
    /\ Completes(p) => RuntimeContract(s) /\ s.pattern_id \in Handlers
    /\ Grounded(Registered(p))
    /\ FlowsHold(s, Registered(p))
    /\ Completes(p) \/ OnlyTargets(Registered(p))
    /\ Completes(p) => Split(s, Registered(p))
    /\ Completes(p) /\ s.pattern_id # "P02" => Guarded(s, Registered(p))

LEMMA P01Sound ==
    ASSUME NEW s, NEW c \in Contexts, s.pattern_id = "P01"
    PROVE  Sound(s, register_p01(s, c))
<1> DEFINE p == Prologue(s, c)
           B == BronzeNode(s, "materialized_view")
           b == <<Register(B)>>
           v == <<Register(ReplicaNode)>>
           q == p \o b
           r == q \o v
<1>1. /\ p \in Seq(Steps(s)) /\ Settles(p) /\ Registered(p) = {}
      /\ Completes(p) => RuntimeContract(s)
  BY PrologueChecks
<1>2. /\ b \in Seq(Steps(s)) /\ Settles(b) /\ Completes(b) /\ Registered(b) = {B}
      /\ v \in Seq(Steps(s)) /\ Settles(v) /\ Completes(v) /\ Registered(v) = {ReplicaNode}
  <2>1. B \in Objects(s) /\ ReplicaNode \in Objects(s)
    BY DEF Objects
  <2> QED BY <2>1, OneObject
<1>3. register_p01(s, c) = r
  BY DEF register_p01, Bronze, BronzeNode, ReplicaNode
<1> HIDE DEF p, b, v
<1>4. /\ q \in Seq(Steps(s)) /\ Settles(q)
      /\ Completes(q) <=> Completes(p)
      /\ Registered(q) = IF Completes(p) THEN {B} ELSE {}
  BY <1>1, <1>2, Following
<1> HIDE DEF q
<1>5. /\ r \in Seq(Steps(s)) /\ Settles(r)
      /\ Completes(r) <=> Completes(p)
      /\ Registered(r) = IF Completes(p) THEN {B, ReplicaNode} ELSE {}
  BY <1>2, <1>4, Following
<1>6. /\ B.kind = "materialized_view" /\ B.target = "bronze" /\ B.reads = "source"
      /\ ~ B.filtered /\ B.expectations = s.quality_actions \cap {"warn", "fail"}
      /\ ReplicaNode.kind = "materialized_view" /\ ReplicaNode.target = "silver"
      /\ ReplicaNode.reads = "bronze" /\ ~ ReplicaNode.filtered
  BY ObjectFields, BronzeExpectations
<1> HIDE DEF r, B
<1>7. Grounded(Registered(r)) /\ FlowsHold(s, Registered(r))
  BY <1>5, <1>6 DEF Grounded, FlowsHold
<1>8. Completes(r) \/ OnlyTargets(Registered(r))
  BY <1>5, <1>6 DEF OnlyTargets
<1>9. Split(s, Registered(r))
  BY <1>5, <1>6 DEF Split, Sink, Withheld
<1>10. Completes(r) => RuntimeContract(s) /\ s.pattern_id \in Handlers
  BY <1>1, <1>5 DEF Handlers
<1>11. Completes(r) => Guarded(s, Registered(r))
  BY <1>5, <1>6 DEF Guarded
<1> QED BY <1>3, <1>5, <1>7, <1>8, <1>9, <1>10, <1>11 DEF Sound

LEMMA P02Sound ==
    ASSUME NEW s, NEW c \in Contexts, s.pattern_id = "P02"
    PROVE  Sound(s, register_p02(s, c))
<1> DEFINE T == TargetNode(0)
           F == SnapshotNode(s)
           p1 == <<Check(RuntimeContract(s), "ValueError")>>
           p2 == <<Check(c.snapshot_source, "ValueError")>>
           p3 == <<Check(s.silver_table = "good", "ValueError")>>
           p4 == <<Register(T)>>
           p5 == <<Register(F)>>
           q2 == p1 \o p2
           q3 == q2 \o p3
           q4 == q3 \o p4
           r == q4 \o p5
<1>1. /\ p1 \in Seq(Steps(s)) /\ Settles(p1) /\ Registered(p1) = {}
      /\ Completes(p1) <=> RuntimeContract(s)
  BY OneCheck DEF Errors, RuntimeContract
<1>2. /\ p2 \in Seq(Steps(s)) /\ Settles(p2) /\ Registered(p2) = {}
      /\ p3 \in Seq(Steps(s)) /\ Settles(p3) /\ Registered(p3) = {}
  BY OneCheck DEF Errors, Contexts
<1>3. /\ p4 \in Seq(Steps(s)) /\ Settles(p4) /\ Completes(p4) /\ Registered(p4) = {T}
      /\ p5 \in Seq(Steps(s)) /\ Settles(p5) /\ Completes(p5) /\ Registered(p5) = {F}
  <2>1. T \in Objects(s) /\ F \in Objects(s)
    BY DEF Objects, Thresholds
  <2> QED BY <2>1, OneObject
<1>4. register_p02(s, c) = r
  <2>1. T = Node("streaming_table", "silver", "none")
    BY DEF TargetNode, Node
  <2> QED BY <2>1 DEF register_p02, SnapshotNode
<1> HIDE DEF p1, p2, p3, p4, p5
<1>5. /\ q2 \in Seq(Steps(s)) /\ Settles(q2) /\ Registered(q2) = {}
      /\ Completes(q2) => RuntimeContract(s)
  BY <1>1, <1>2, Following
<1> HIDE DEF q2
<1>6. /\ q3 \in Seq(Steps(s)) /\ Settles(q3) /\ Registered(q3) = {}
      /\ Completes(q3) => RuntimeContract(s)
  BY <1>2, <1>5, Following
<1> HIDE DEF q3
<1>7. /\ q4 \in Seq(Steps(s)) /\ Settles(q4)
      /\ Completes(q4) <=> Completes(q3)
      /\ Registered(q4) = IF Completes(q3) THEN {T} ELSE {}
  BY <1>3, <1>6, Following
<1> HIDE DEF q4
<1>8. /\ r \in Seq(Steps(s)) /\ Settles(r)
      /\ Completes(r) <=> Completes(q3)
      /\ Registered(r) = IF Completes(q3) THEN {T, F} ELSE {}
  BY <1>3, <1>7, Following
<1>9. /\ T.kind = "streaming_table" /\ T.target = "silver" /\ T.reads = "none" /\ ~ T.filtered
      /\ F.kind = "snapshot_flow" /\ F.target = "silver" /\ F.reads = "source"
      /\ F.keyed = s.business_keys /\ ~ F.filtered
  BY ObjectFields
<1> HIDE DEF r, T, F
<1>10. Grounded(Registered(r)) /\ FlowsHold(s, Registered(r))
  BY <1>6, <1>8, <1>9 DEF Grounded, FlowsHold
<1>11. Completes(r) \/ OnlyTargets(Registered(r))
  BY <1>8 DEF OnlyTargets
<1>12. Split(s, Registered(r))
  BY <1>8, <1>9 DEF Split, Sink, Withheld
<1>13. Completes(r) => RuntimeContract(s) /\ s.pattern_id \in Handlers
  BY <1>6, <1>8 DEF Handlers
<1> QED BY <1>4, <1>8, <1>10, <1>11, <1>12, <1>13 DEF Sound

(* The delete policy of a contract that a streaming handler accepts.       *)
LEMMA RegisteredPolicy ==
    ASSUME NEW s
    PROVE  /\ s.pattern_id = "P07" => ~ PassesDeletes(Policy(s))
           /\ s.pattern_id = "P10" =>
                 /\ PassesDeletes(Policy(s)) = (s.apply_as_deletes = "set")
                 /\ _cdc_target_properties(s) = Policy(s).retention
           /\ _cdc_target_properties(s) \in Thresholds(s)
BY DEF PassesDeletes, Policy, _cdc_target_properties, Thresholds, Unset

(* What a streaming handler passes to AUTO CDC is the declared policy.     *)
Passes(s, deletes, threshold) ==
    /\ (deletes = "set") = PassesDeletes(Policy(s))
    /\ s.pattern_id = "P10" => threshold = Policy(s).retention

(* What precedes AUTO CDC: the upstream objects, and any further checks.   *)
Precedes(s, c, u) ==
    /\ u \in Seq(Steps(s)) /\ Settles(u)
    /\ Completes(u) => Completes(Upstream(s, c))
    /\ Registered(u) = Registered(Upstream(s, c))

LEMMA CdcSound ==
    ASSUME NEW s, NEW c \in Contexts, s.pattern_id \in {"P07", "P10"},
           NEW deletes \in Expressions(s), NEW threshold \in Thresholds(s),
           Passes(s, deletes, threshold), NEW u, Precedes(s, c, u)
    PROVE  Sound(s, u \o AutoCdc(s, deletes, threshold))
<1> DEFINE a == AutoCdc(s, deletes, threshold)
           r == u \o a
           B == BronzeNode(s, "table")
           V == ValidNode(s)
           T == TargetNode(threshold)
           F == FlowNode(s, deletes, threshold)
           G == Registered(u)
<1>1. /\ a \in Seq(Steps(s)) /\ Settles(a)
      /\ Completes(a) => s.ordering = "authoritative"
      /\ Completes(a) => Registered(a) = {T, F}
      /\ ~ Completes(a) => Registered(a) = {T}
  BY AutoCdcParts, Zenon
<1>2. /\ G \subseteq {B, QuarantineNode, V}
      /\ G # {} => B \in G
      /\ Completes(u) => /\ RuntimeContract(s)
                         /\ B \in G /\ V \in G
                         /\ QuarantineNode \in G
                               <=> quarantine_rules(s) /\ s.quarantine_table # "none"
  BY UpstreamParts DEF Precedes
<1>3. /\ B.kind = "table" /\ B.target = "bronze" /\ B.reads = "source" /\ ~ B.filtered
      /\ B.expectations = s.quality_actions \cap {"warn", "fail"}
      /\ QuarantineNode.kind = "table" /\ QuarantineNode.target = "quarantine"
      /\ QuarantineNode.reads = "bronze" /\ QuarantineNode.filtered
      /\ V.kind = "view" /\ V.target = "valid" /\ V.reads = "bronze"
      /\ V.filtered = quarantine_rules(s)
      /\ T.kind = "streaming_table" /\ T.target = "silver" /\ T.reads = "none" /\ ~ T.filtered
      /\ F.kind = "flow" /\ F.target = "silver" /\ F.reads = "valid" /\ ~ F.filtered
      /\ F.keyed = s.business_keys /\ F.sequence = s.ordering
      /\ F.deletes = (deletes = "set") /\ F.threshold = threshold
  BY ObjectFields, BronzeExpectations
<1> HIDE DEF a, B, V, T, F, G
<1>4. /\ r \in Seq(Steps(s)) /\ Settles(r)
      /\ Completes(r) <=> Completes(u) /\ Completes(a)
      /\ Registered(r) = G \cup (IF Completes(u)
                                 THEN {T} \cup (IF Completes(a) THEN {F} ELSE {}) ELSE {})
  BY <1>1, Following DEF G, Precedes
<1> HIDE DEF r
<1>5. ASSUME NEW n \in Registered(r)
      PROVE  \/ n \in G /\ n \in {B, QuarantineNode, V} /\ B \in G
             \/ n = T /\ Completes(u)
             \/ n = F /\ Completes(u) /\ Completes(a)
  BY <1>2, <1>4, <1>5
<1>6. /\ G \subseteq Registered(r)
      /\ Completes(u) => T \in Registered(r) /\ V \in Registered(r)
  BY <1>2, <1>4
<1>7. Grounded(Registered(r))
  <2> SUFFICES ASSUME NEW n \in Registered(r)
               PROVE  /\ n.reads \in {"source", "none"}
                            \/ \E m \in Registered(r) : m.target = n.reads
                      /\ n.kind \in {"flow", "snapshot_flow"} =>
                            \E m \in Registered(r) : m.kind = "streaming_table"
                                                     /\ m.target = n.target
    BY DEF Grounded
  <2>1. CASE n \in {B, QuarantineNode, V} /\ B \in G
    BY <1>3, <1>6, <2>1
  <2>2. CASE n = T
    BY <1>3, <2>2
  <2>3. CASE n = F /\ Completes(u)
    BY <1>3, <1>6, <2>3
  <2> QED BY <1>5, <2>1, <2>2, <2>3
<1>8. FlowsHold(s, Registered(r))
  <2> SUFFICES ASSUME NEW n \in Registered(r), n.kind \in {"flow", "snapshot_flow"}
               PROVE  /\ RuntimeContract(s) /\ n.keyed = s.business_keys
                      /\ n.kind = "flow"
                      /\ n.sequence = "authoritative" /\ s.ordering = "authoritative"
                      /\ n.deletes = PassesDeletes(Policy(s))
                      /\ s.pattern_id = "P10" => n.threshold = Policy(s).retention
    BY DEF FlowsHold
  <2>1. n = F /\ Completes(u) /\ Completes(a)
    BY <1>3, <1>5
  <2>2. /\ n.deletes = PassesDeletes(Policy(s))
        /\ s.pattern_id = "P10" => n.threshold = Policy(s).retention
    BY <1>3, <2>1 DEF Passes
  <2> QED BY <1>1, <1>2, <1>3, <2>1, <2>2
<1>9. Completes(r) \/ OnlyTargets(Registered(r))
  BY <1>3, <1>4, <1>5 DEF OnlyTargets
<1>10. Completes(r) => Split(s, Registered(r))
  <2> SUFFICES ASSUME Completes(r) PROVE Split(s, Registered(r))
    OBVIOUS
  <2>1. /\ QuarantineNode \in G => quarantine_rules(s)
        /\ quarantine_rules(s) /\ QualityOK(s) => QuarantineNode \in G
    BY <1>2, <1>4 DEF QualityOK, quarantine_rules
  <2>2. Withheld(Registered(r)) <=> quarantine_rules(s)
    BY <1>3, <1>4, <1>5, <1>6 DEF Withheld
  <2>3. Sink(Registered(r)) <=> QuarantineNode \in G
    BY <1>3, <1>5, <1>6 DEF Sink
  <2> QED BY <2>1, <2>2, <2>3 DEF Split
<1>11. Completes(r) => RuntimeContract(s) /\ s.pattern_id \in Handlers
  BY <1>2, <1>4 DEF Handlers
<1>12. Completes(r) => Guarded(s, Registered(r))
  BY <1>2, <1>3, <1>4 DEF Guarded
<1> QED BY <1>4, <1>7, <1>8, <1>9, <1>10, <1>11, <1>12 DEF Sound, r, a

LEMMA P07Sound ==
    ASSUME NEW s, NEW c \in Contexts, s.pattern_id = "P07"
    PROVE  Sound(s, register_p07(s, c))
<1>1. register_p07(s, c) = Upstream(s, c) \o AutoCdc(s, "absent", 0)
  BY DEF register_p07, Upstream
<1>2. "absent" \in Expressions(s) /\ 0 \in Thresholds(s)
  BY DEF Expressions, Thresholds
<1>3. Passes(s, "absent", 0)
  BY RegisteredPolicy DEF Passes, PassesDeletes
<1>4. Precedes(s, c, Upstream(s, c))
  BY UpstreamParts DEF Precedes
<1> QED BY <1>1, <1>2, <1>3, <1>4, CdcSound

LEMMA P10Sound ==
    ASSUME NEW s, NEW c \in Contexts, s.pattern_id = "P10"
    PROVE  Sound(s, register_p10(s, c))
<1> DEFINE p == Upstream(s, c)
           q == <<Check(s.tombstone_retention >= 0, "ValueError")>>
           u == p \o q
           deletes == s.apply_as_deletes
           threshold == _cdc_target_properties(s)
<1>1. register_p10(s, c) = u \o AutoCdc(s, deletes, threshold)
  BY DEF register_p10, Upstream
<1>2. deletes \in Expressions(s) /\ threshold \in Thresholds(s)
  BY RegisteredPolicy DEF Expressions
<1>3. Passes(s, deletes, threshold)
  BY RegisteredPolicy DEF Passes
<1>4. Precedes(s, c, u)
  <2>1. q \in Seq(Steps(s)) /\ Settles(q) /\ Registered(q) = {}
    <3>1. (s.tombstone_retention >= 0) \in BOOLEAN /\ "ValueError" \in Errors
      BY DEF Errors
    <3> QED BY <3>1, OneCheck
  <2>2. p \in Seq(Steps(s)) /\ Settles(p)
    BY UpstreamParts
  <2> HIDE DEF p, q
  <2>3. /\ u \in Seq(Steps(s)) /\ Settles(u)
        /\ Completes(u) => Completes(p)
        /\ Registered(u) = Registered(p) \cup (IF Completes(p) THEN Registered(q) ELSE {})
    BY <2>1, <2>2, Following
  <2>4. Registered(u) = Registered(p)
    BY <2>1, <2>3
  <2> QED BY <2>3, <2>4 DEF Precedes, p
<1> HIDE DEF u, deletes, threshold
<1> QED BY <1>1, <1>2, <1>3, <1>4, CdcSound

LEMMA P12Sound ==
    ASSUME NEW s, NEW c \in Contexts, s.pattern_id = "P12"
    PROVE  Sound(s, register_p12(s, c))
<1> DEFINE p == Prologue(s, c)
           t == <<Check(c.transform # "not_callable", "TypeError")>>
           B == BronzeNode(s, "table")
           E == EventsNode(s)
           b == <<Register(B)>>
           q == Quarantine(s)
           v == <<Register(E)>>
           r1 == p \o t
           r2 == r1 \o b
           r3 == r2 \o q
           r == r3 \o v
<1>1. /\ p \in Seq(Steps(s)) /\ Settles(p) /\ Registered(p) = {}
      /\ Completes(p) => RuntimeContract(s)
  BY PrologueChecks
<1>2. t \in Seq(Steps(s)) /\ Settles(t) /\ Registered(t) = {}
  BY OneCheck DEF Errors
<1>3. /\ b \in Seq(Steps(s)) /\ Settles(b) /\ Completes(b) /\ Registered(b) = {B}
      /\ v \in Seq(Steps(s)) /\ Settles(v) /\ Completes(v) /\ Registered(v) = {E}
  <2>1. B \in Objects(s) /\ E \in Objects(s)
    BY DEF Objects
  <2> QED BY <2>1, OneObject
<1>4. /\ q \in Seq(Steps(s)) /\ Settles(q) /\ Registered(q) \subseteq {QuarantineNode}
      /\ Completes(q) => (QuarantineNode \in Registered(q)
                             <=> quarantine_rules(s) /\ s.quarantine_table # "none")
  BY QuarantineParts
<1>5. register_p12(s, c) = r
  BY DEF register_p12, Bronze, BronzeNode, EventsNode
<1>6. /\ B.kind = "table" /\ B.target = "bronze" /\ B.reads = "source" /\ ~ B.filtered
      /\ B.expectations = s.quality_actions \cap {"warn", "fail"}
      /\ QuarantineNode.kind = "table" /\ QuarantineNode.target = "quarantine"
      /\ QuarantineNode.reads = "bronze" /\ QuarantineNode.filtered
      /\ E.kind = "table" /\ E.target = "silver" /\ E.reads = "bronze"
      /\ E.filtered = quarantine_rules(s)
  BY ObjectFields, BronzeExpectations
<1> HIDE DEF p, t, b, q, v, B, E
<1>7. /\ r1 \in Seq(Steps(s)) /\ Settles(r1) /\ Registered(r1) = {}
      /\ Completes(r1) => RuntimeContract(s)
  BY <1>1, <1>2, Following
<1> HIDE DEF r1
<1>8. /\ r2 \in Seq(Steps(s)) /\ Settles(r2)
      /\ Completes(r2) <=> Completes(r1)
      /\ Registered(r2) = IF Completes(r1) THEN {B} ELSE {}
  BY <1>3, <1>7, Following
<1> HIDE DEF r2
<1>9. /\ r3 \in Seq(Steps(s)) /\ Settles(r3)
      /\ Completes(r3) <=> Completes(r1) /\ Completes(q)
      /\ Registered(r3) = IF Completes(r1) THEN {B} \cup Registered(q) ELSE {}
  BY <1>4, <1>8, Following
<1> HIDE DEF r3
<1>10. /\ r \in Seq(Steps(s)) /\ Settles(r)
       /\ Completes(r) <=> Completes(r1) /\ Completes(q)
       /\ Registered(r) = Registered(r3) \cup (IF Completes(r) THEN {E} ELSE {})
  BY <1>3, <1>9, Following
<1> HIDE DEF r
<1>11. ASSUME NEW n \in Registered(r)
       PROVE  /\ B \in Registered(r)
              /\ \/ n = B
                 \/ n = QuarantineNode /\ QuarantineNode \in Registered(q)
                 \/ n = E /\ Completes(r)
  BY <1>4, <1>9, <1>10, <1>11
<1>12. Completes(r) => E \in Registered(r) /\ Registered(q) \subseteq Registered(r)
  BY <1>9, <1>10
<1>13. Grounded(Registered(r)) /\ FlowsHold(s, Registered(r))
  BY <1>6, <1>11 DEF Grounded, FlowsHold
<1>14. Completes(r) \/ OnlyTargets(Registered(r))
  BY <1>6, <1>11 DEF OnlyTargets
<1>15. Completes(r) => Split(s, Registered(r))
  <2> SUFFICES ASSUME Completes(r) PROVE Split(s, Registered(r))
    OBVIOUS
  <2>1. /\ QuarantineNode \in Registered(q) => quarantine_rules(s)
        /\ quarantine_rules(s) /\ QualityOK(s) => QuarantineNode \in Registered(q)
    BY <1>4, <1>10 DEF QualityOK, quarantine_rules
  <2>2. Withheld(Registered(r)) <=> quarantine_rules(s)
    BY <1>6, <1>11, <1>12 DEF Withheld
  <2>3. Sink(Registered(r)) <=> QuarantineNode \in Registered(q)
    BY <1>6, <1>11, <1>12 DEF Sink
  <2> QED BY <2>1, <2>2, <2>3 DEF Split
<1>16. Completes(r) => RuntimeContract(s) /\ s.pattern_id \in Handlers
  BY <1>7, <1>10 DEF Handlers
<1>17. Completes(r) => Guarded(s, Registered(r))
  BY <1>6, <1>11, <1>12 DEF Guarded
<1> QED BY <1>5, <1>10, <1>13, <1>14, <1>15, <1>16, <1>17 DEF Sound

(* Every handler, and the answer for a pattern that has none.              *)
LEMMA HandlerSound ==
    ASSUME NEW s, NEW c \in Contexts
    PROVE  Sound(s, build_builtin_runtime(s, c))
<1>1. CASE s.pattern_id \in Handlers
  BY <1>1, P01Sound, P02Sound, P07Sound, P10Sound, P12Sound DEF Handlers, build_builtin_runtime
<1>2. CASE s.pattern_id \notin Handlers
  <2> DEFINE p == <<Check(FALSE, "NotImplementedError")>>
  <2>1. build_builtin_runtime(s, c) = p
    BY <1>2 DEF Handlers, build_builtin_runtime
  <2>2. p \in Seq(Steps(s)) /\ Settles(p) /\ ~ Completes(p) /\ Registered(p) = {}
    BY OneCheck DEF Errors
  <2> HIDE DEF p
  <2>3. Sound(s, p)
    BY <2>2 DEF Sound, Grounded, FlowsHold, OnlyTargets
  <2> QED BY <2>1, <2>3
<1> QED BY <1>1, <1>2

(* The reported outcome is "ok" exactly when every check passed.           *)
LEMMA OutcomeOk ==
    ASSUME NEW s, NEW p \in Seq(Steps(s)), Settles(p)
    PROVE  /\ Outcome(p) = "ok" <=> Completes(p)
           /\ Outcome(p) \in {"ok"} \cup Errors
<1>1. CASE Completes(p)
  BY <1>1 DEF Completes, Outcome
<1>2. CASE ~ Completes(p)
  <2> DEFINE i == CHOOSE j \in DOMAIN p : FailsAt(p, j) /\ Runs(p, j - 1)
  <2>1. i \in DOMAIN p /\ FailsAt(p, i)
    BY <1>2 DEF Settles
  <2>2. Outcome(p) = p[i].error
    BY <1>2 DEF Completes, Outcome
  <2> HIDE DEF i
  <2>3. p[i] \in Steps(s) /\ p[i].step = "check"
    BY <2>1 DEF FailsAt
  <2>4. p[i].error \in Errors
    BY <2>3 DEF Steps
  <2> QED BY <1>2, <2>2, <2>4 DEF Errors
<1> QED BY <1>1, <1>2

-----------------------------------------------------------------------------
(* When a build completes.                                                 *)

LEMMA PrologueCompletes ==
    ASSUME NEW s, NEW c \in Contexts
    PROVE  Completes(Prologue(s, c)) <=>
               /\ RuntimeContract(s)
               /\ c.source_relation = "good"
               /\ s.bronze_table = "good"
               /\ s.silver_table = "good"
<1> DEFINE first == <<Check(RuntimeContract(s), "ValueError")>>
           second == <<Check(c.source_relation = "good", "ValueError")>>
           third == <<Check(s.bronze_table = "good", "ValueError")>>
           fourth == <<Check(s.silver_table = "good", "ValueError")>>
<1>1. RuntimeContract(s) \in BOOLEAN /\ "ValueError" \in Errors
  BY DEF RuntimeContract, Errors
<1>2. Prologue(s, c) = ((first \o second) \o third) \o fourth
  BY DEF Prologue
<1>3. /\ first \in Seq(Steps(s)) /\ second \in Seq(Steps(s))
      /\ third \in Seq(Steps(s)) /\ fourth \in Seq(Steps(s))
  BY <1>1, OneCheck
<1>4. /\ Completes(first) <=> RuntimeContract(s)
      /\ Completes(second) <=> c.source_relation = "good"
      /\ Completes(third) <=> s.bronze_table = "good"
      /\ Completes(fourth) <=> s.silver_table = "good"
  BY <1>1, OneCheck
<1> HIDE DEF first, second, third, fourth
<1>5. /\ first \o second \in Seq(Steps(s))
      /\ Completes(first \o second) <=> Completes(first) /\ Completes(second)
  BY <1>3, Following
<1>6. /\ (first \o second) \o third \in Seq(Steps(s))
      /\ Completes((first \o second) \o third)
             <=> Completes(first \o second) /\ Completes(third)
  BY <1>3, <1>5, Following
<1>7. Completes(((first \o second) \o third) \o fourth)
          <=> Completes((first \o second) \o third) /\ Completes(fourth)
  BY <1>3, <1>6, Following
<1> QED BY <1>2, <1>4, <1>5, <1>6, <1>7

LEMMA QuarantineCompletes ==
    ASSUME NEW s
    PROVE  Completes(Quarantine(s)) <=>
               (quarantine_rules(s) => s.quarantine_table \in {"none", "good"})
<1>1. CASE ~ quarantine_rules(s) \/ s.quarantine_table = "none"
  BY <1>1, NoStep DEF Quarantine
<1>2. CASE quarantine_rules(s) /\ s.quarantine_table # "none"
  <2> DEFINE check == <<Check(s.quarantine_table = "good", "ValueError")>>
             table == <<Register(QuarantineNode)>>
  <2>1. Quarantine(s) = check \o table
    BY <1>2 DEF Quarantine, QuarantineNode
  <2>2. /\ check \in Seq(Steps(s))
        /\ Completes(check) <=> s.quarantine_table = "good"
    BY OneCheck DEF Errors
  <2>3. table \in Seq(Steps(s)) /\ Completes(table)
    BY OneObject DEF Objects
  <2> HIDE DEF check, table
  <2> QED BY <1>2, <2>1, <2>2, <2>3, Following
<1> QED BY <1>1, <1>2

LEMMA AutoCdcCompletes ==
    ASSUME NEW s, NEW deletes \in Expressions(s), NEW threshold \in Thresholds(s)
    PROVE  Completes(AutoCdc(s, deletes, threshold)) <=>
               /\ s.ordering = "authoritative"
               /\ deletes # "malformed"
               /\ s.except_columns # "malformed"
<1> DEFINE table == <<Register(TargetNode(threshold))>>
           order == <<Check(s.ordering = "authoritative", "ValueError")>>
           expression == <<Check(deletes # "malformed", "ValueError")>>
           columns == <<Check(s.except_columns # "malformed", "ValueError")>>
           flow == <<Register(FlowNode(s, deletes, threshold))>>
<1>1. AutoCdc(s, deletes, threshold) = (((table \o order) \o expression) \o columns) \o flow
  BY DEF AutoCdc, TargetNode, FlowNode
<1>2. /\ table \in Seq(Steps(s)) /\ Completes(table)
      /\ flow \in Seq(Steps(s)) /\ Completes(flow)
  <2>1. TargetNode(threshold) \in Objects(s) /\ FlowNode(s, deletes, threshold) \in Objects(s)
    BY DEF Objects
  <2> QED BY <2>1, OneObject
<1>3. /\ order \in Seq(Steps(s)) /\ expression \in Seq(Steps(s)) /\ columns \in Seq(Steps(s))
      /\ Completes(order) <=> s.ordering = "authoritative"
      /\ Completes(expression) <=> deletes # "malformed"
      /\ Completes(columns) <=> s.except_columns # "malformed"
  BY OneCheck DEF Errors
<1> HIDE DEF table, order, expression, columns, flow
<1>4. /\ table \o order \in Seq(Steps(s))
      /\ Completes(table \o order) <=> Completes(order)
  BY <1>2, <1>3, Following
<1>5. /\ (table \o order) \o expression \in Seq(Steps(s))
      /\ Completes((table \o order) \o expression)
             <=> Completes(order) /\ Completes(expression)
  BY <1>3, <1>4, Following
<1>6. /\ ((table \o order) \o expression) \o columns \in Seq(Steps(s))
      /\ Completes(((table \o order) \o expression) \o columns)
             <=> Completes(order) /\ Completes(expression) /\ Completes(columns)
  BY <1>3, <1>5, Following
<1>7. Completes((((table \o order) \o expression) \o columns) \o flow)
          <=> Completes(order) /\ Completes(expression) /\ Completes(columns)
  BY <1>2, <1>6, Following
<1> QED BY <1>1, <1>3, <1>7

(* The streaming verticals: the relations, and the quarantine table when   *)
(* it is used.                                                             *)
Supplied(s, c) == /\ c.source_relation = "good"
                  /\ s.bronze_table = "good" /\ s.silver_table = "good"

Diverted(s) == quarantine_rules(s) => s.quarantine_table \in {"none", "good"}

LEMMA UpstreamCompletes ==
    ASSUME NEW s, NEW c \in Contexts
    PROVE  Completes(Upstream(s, c)) <=> RuntimeContract(s) /\ Supplied(s, c) /\ Diverted(s)
<1> DEFINE p == Prologue(s, c)
           b == Bronze(s, "table")
           q == Quarantine(s)
           v == ValidView(s)
<1>1. p \in Seq(Steps(s)) /\ (Completes(p) <=> RuntimeContract(s) /\ Supplied(s, c))
  BY PrologueChecks, PrologueCompletes DEF Supplied
<1>2. b \in Seq(Steps(s)) /\ Completes(b)
  <2>1. BronzeNode(s, "table") \in Objects(s)
    BY DEF Objects
  <2>2. b = <<Register(BronzeNode(s, "table"))>>
    BY DEF Bronze, BronzeNode
  <2> QED BY <2>1, <2>2, OneObject
<1>3. v \in Seq(Steps(s)) /\ Completes(v)
  <2>1. ValidNode(s) \in Objects(s)
    BY DEF Objects
  <2>2. v = <<Register(ValidNode(s))>>
    BY DEF ValidView, ValidNode
  <2> QED BY <2>1, <2>2, OneObject
<1>4. q \in Seq(Steps(s)) /\ (Completes(q) <=> Diverted(s))
  BY QuarantineParts, QuarantineCompletes DEF Diverted
<1>5. Upstream(s, c) = ((p \o b) \o q) \o v
  BY DEF Upstream
<1> HIDE DEF p, b, q, v
<1>6. p \o b \in Seq(Steps(s)) /\ (Completes(p \o b) <=> Completes(p))
  BY <1>1, <1>2, Following
<1>7. /\ (p \o b) \o q \in Seq(Steps(s))
      /\ Completes((p \o b) \o q) <=> Completes(p) /\ Completes(q)
  BY <1>4, <1>6, Following
<1>8. Completes(((p \o b) \o q) \o v) <=> Completes(p) /\ Completes(q)
  BY <1>3, <1>7, Following
<1> QED BY <1>1, <1>4, <1>5, <1>8

(* What a context and a contract must bring to the handler of the pattern, *)
(* beyond the runtime contract.                                            *)
Equipped(s, c) ==
    /\ s.pattern_id \in Handlers
    /\ s.pattern_id = "P02" => c.snapshot_source /\ s.silver_table = "good"
    /\ s.pattern_id # "P02" => Supplied(s, c)
    /\ s.pattern_id \in {"P07", "P10", "P12"} => Diverted(s)
    /\ s.pattern_id \in {"P07", "P10"} => /\ s.ordering = "authoritative"
                                         /\ s.except_columns # "malformed"
    /\ s.pattern_id = "P10" => /\ s.apply_as_deletes # "malformed"
                               /\ s.tombstone_retention >= 0
    /\ s.pattern_id = "P12" => c.transform # "not_callable"

LEMMA SnapshotsComplete ==
    ASSUME NEW s, NEW c \in Contexts, s.pattern_id \in {"P01", "P02"}
    PROVE  Completes(build_builtin_runtime(s, c)) <=> RuntimeContract(s) /\ Equipped(s, c)
<1>1. CASE s.pattern_id = "P01"
  <2> DEFINE B == BronzeNode(s, "materialized_view")
             p == Prologue(s, c)
             b == <<Register(B)>>
             v == <<Register(ReplicaNode)>>
  <2>1. build_builtin_runtime(s, c) = (p \o b) \o v
    BY <1>1 DEF build_builtin_runtime, register_p01, Bronze, BronzeNode, ReplicaNode
  <2>2. p \in Seq(Steps(s)) /\ (Completes(p) <=> RuntimeContract(s) /\ Supplied(s, c))
    BY PrologueChecks, PrologueCompletes DEF Supplied
  <2>3. b \in Seq(Steps(s)) /\ Completes(b) /\ v \in Seq(Steps(s)) /\ Completes(v)
    <3>1. B \in Objects(s) /\ ReplicaNode \in Objects(s)
      BY DEF Objects
    <3> QED BY <3>1, OneObject
  <2>4. Equipped(s, c) <=> Supplied(s, c)
    BY <1>1 DEF Equipped, Handlers
  <2> HIDE DEF p, b, v
  <2>5. p \o b \in Seq(Steps(s)) /\ (Completes(p \o b) <=> Completes(p))
    BY <2>2, <2>3, Following
  <2>6. Completes((p \o b) \o v) <=> Completes(p)
    BY <2>3, <2>5, Following
  <2> QED BY <2>1, <2>2, <2>4, <2>6
<1>2. CASE s.pattern_id = "P02"
  <2> DEFINE p1 == <<Check(RuntimeContract(s), "ValueError")>>
             p2 == <<Check(c.snapshot_source, "ValueError")>>
             p3 == <<Check(s.silver_table = "good", "ValueError")>>
             p4 == <<Register(TargetNode(0))>>
             p5 == <<Register(SnapshotNode(s))>>
  <2>1. build_builtin_runtime(s, c) = (((p1 \o p2) \o p3) \o p4) \o p5
    <3>1. TargetNode(0) = Node("streaming_table", "silver", "none")
      BY DEF TargetNode, Node
    <3> QED BY <1>2, <3>1 DEF build_builtin_runtime, register_p02, SnapshotNode
  <2>2. /\ p1 \in Seq(Steps(s)) /\ p2 \in Seq(Steps(s)) /\ p3 \in Seq(Steps(s))
        /\ Completes(p1) <=> RuntimeContract(s)
        /\ Completes(p2) <=> c.snapshot_source
        /\ Completes(p3) <=> s.silver_table = "good"
    BY OneCheck DEF Errors, RuntimeContract, Contexts
  <2>3. p4 \in Seq(Steps(s)) /\ Completes(p4) /\ p5 \in Seq(Steps(s)) /\ Completes(p5)
    <3>1. TargetNode(0) \in Objects(s) /\ SnapshotNode(s) \in Objects(s)
      BY DEF Objects, Thresholds
    <3> QED BY <3>1, OneObject
  <2>4. Equipped(s, c) <=> c.snapshot_source /\ s.silver_table = "good"
    BY <1>2 DEF Equipped, Handlers
  <2> HIDE DEF p1, p2, p3, p4, p5
  <2>5. /\ p1 \o p2 \in Seq(Steps(s))
        /\ Completes(p1 \o p2) <=> Completes(p1) /\ Completes(p2)
    BY <2>2, Following
  <2>6. /\ (p1 \o p2) \o p3 \in Seq(Steps(s))
        /\ Completes((p1 \o p2) \o p3) <=> Completes(p1 \o p2) /\ Completes(p3)
    BY <2>2, <2>5, Following
  <2>7. /\ ((p1 \o p2) \o p3) \o p4 \in Seq(Steps(s))
        /\ Completes(((p1 \o p2) \o p3) \o p4) <=> Completes((p1 \o p2) \o p3)
    BY <2>3, <2>6, Following
  <2>8. Completes((((p1 \o p2) \o p3) \o p4) \o p5) <=> Completes((p1 \o p2) \o p3)
    BY <2>3, <2>7, Following
  <2> QED BY <2>1, <2>2, <2>4, <2>5, <2>6, <2>8
<1> QED BY <1>1, <1>2

LEMMA StreamsComplete ==
    ASSUME NEW s, NEW c \in Contexts, s.pattern_id \in {"P07", "P10"}
    PROVE  Completes(build_builtin_runtime(s, c)) <=> RuntimeContract(s) /\ Equipped(s, c)
<1> DEFINE u == Upstream(s, c)
<1>1. u \in Seq(Steps(s))
         /\ (Completes(u) <=> RuntimeContract(s) /\ Supplied(s, c) /\ Diverted(s))
  BY UpstreamParts, UpstreamCompletes
<1>2. CASE s.pattern_id = "P07"
  <2> DEFINE a == AutoCdc(s, "absent", 0)
  <2>1. build_builtin_runtime(s, c) = u \o a
    BY <1>2 DEF build_builtin_runtime, register_p07, Upstream
  <2>2. "absent" \in Expressions(s) /\ 0 \in Thresholds(s)
    BY DEF Expressions, Thresholds
  <2>3. /\ a \in Seq(Steps(s))
        /\ Completes(a) <=> s.ordering = "authoritative" /\ s.except_columns # "malformed"
    BY <2>2, AutoCdcParts, AutoCdcCompletes
  <2>4. Equipped(s, c) <=> /\ Supplied(s, c) /\ Diverted(s)
                           /\ s.ordering = "authoritative" /\ s.except_columns # "malformed"
    BY <1>2 DEF Equipped, Handlers
  <2> HIDE DEF u, a
  <2>5. Completes(u \o a) <=> Completes(u) /\ Completes(a)
    BY <1>1, <2>3, Following
  <2> QED BY <1>1, <2>1, <2>3, <2>4, <2>5
<1>3. CASE s.pattern_id = "P10"
  <2> DEFINE q == <<Check(s.tombstone_retention >= 0, "ValueError")>>
             a == AutoCdc(s, s.apply_as_deletes, _cdc_target_properties(s))
  <2>1. build_builtin_runtime(s, c) = (u \o q) \o a
    BY <1>3 DEF build_builtin_runtime, register_p10, Upstream
  <2>2. s.apply_as_deletes \in Expressions(s) /\ _cdc_target_properties(s) \in Thresholds(s)
    BY RegisteredPolicy DEF Expressions
  <2>3. /\ a \in Seq(Steps(s))
        /\ Completes(a) <=> /\ s.ordering = "authoritative"
                            /\ s.apply_as_deletes # "malformed"
                            /\ s.except_columns # "malformed"
    BY <2>2, AutoCdcParts, AutoCdcCompletes
  <2>4. q \in Seq(Steps(s)) /\ (Completes(q) <=> s.tombstone_retention >= 0)
    <3>1. (s.tombstone_retention >= 0) \in BOOLEAN /\ "ValueError" \in Errors
      BY DEF Errors
    <3> QED BY <3>1, OneCheck
  <2>5. Equipped(s, c) <=> /\ Supplied(s, c) /\ Diverted(s)
                           /\ s.tombstone_retention >= 0
                           /\ s.ordering = "authoritative"
                           /\ s.apply_as_deletes # "malformed"
                           /\ s.except_columns # "malformed"
    BY <1>3 DEF Equipped, Handlers
  <2> HIDE DEF u, q, a
  <2>6. u \o q \in Seq(Steps(s)) /\ (Completes(u \o q) <=> Completes(u) /\ Completes(q))
    BY <1>1, <2>4, Following
  <2>7. Completes((u \o q) \o a) <=> Completes(u \o q) /\ Completes(a)
    BY <2>3, <2>6, Following
  <2> QED BY <1>1, <2>1, <2>3, <2>4, <2>5, <2>6, <2>7
<1> QED BY <1>2, <1>3

LEMMA EventsComplete ==
    ASSUME NEW s, NEW c \in Contexts, s.pattern_id = "P12"
    PROVE  Completes(build_builtin_runtime(s, c)) <=> RuntimeContract(s) /\ Equipped(s, c)
<1> DEFINE p == Prologue(s, c)
           t == <<Check(c.transform # "not_callable", "TypeError")>>
           b == <<Register(BronzeNode(s, "table"))>>
           q == Quarantine(s)
           v == <<Register(EventsNode(s))>>
<1>1. build_builtin_runtime(s, c) = (((p \o t) \o b) \o q) \o v
  BY DEF build_builtin_runtime, register_p12, Bronze, BronzeNode, EventsNode
<1>2. p \in Seq(Steps(s)) /\ (Completes(p) <=> RuntimeContract(s) /\ Supplied(s, c))
  BY PrologueChecks, PrologueCompletes DEF Supplied
<1>3. t \in Seq(Steps(s)) /\ (Completes(t) <=> c.transform # "not_callable")
  BY OneCheck DEF Errors
<1>4. b \in Seq(Steps(s)) /\ Completes(b) /\ v \in Seq(Steps(s)) /\ Completes(v)
  <2>1. BronzeNode(s, "table") \in Objects(s) /\ EventsNode(s) \in Objects(s)
    BY DEF Objects
  <2> QED BY <2>1, OneObject
<1>5. q \in Seq(Steps(s)) /\ (Completes(q) <=> Diverted(s))
  BY QuarantineParts, QuarantineCompletes DEF Diverted
<1>6. Equipped(s, c) <=> Supplied(s, c) /\ Diverted(s) /\ c.transform # "not_callable"
  BY DEF Equipped, Handlers
<1> HIDE DEF p, t, b, q, v
<1>7. /\ p \o t \in Seq(Steps(s))
      /\ Completes(p \o t) <=> Completes(p) /\ Completes(t)
  BY <1>2, <1>3, Following
<1>8. (p \o t) \o b \in Seq(Steps(s)) /\ (Completes((p \o t) \o b) <=> Completes(p \o t))
  BY <1>4, <1>7, Following
<1>9. /\ ((p \o t) \o b) \o q \in Seq(Steps(s))
      /\ Completes(((p \o t) \o b) \o q) <=> Completes(p \o t) /\ Completes(q)
  BY <1>5, <1>8, Following
<1>10. Completes((((p \o t) \o b) \o q) \o v) <=> Completes(p \o t) /\ Completes(q)
  BY <1>4, <1>9, Following
<1> QED BY <1>1, <1>2, <1>3, <1>5, <1>6, <1>7, <1>10

(* The reported outcome of a handler is "ok" exactly when the runtime      *)
(* contract holds and the handler is equipped: there is no further reason  *)
(* to refuse a contract, and none of these is missed.                      *)
LEMMA CompletesExactly ==
    ASSUME NEW s, NEW c \in Contexts
    PROVE  Outcome(build_builtin_runtime(s, c)) = "ok" <=> RuntimeContract(s) /\ Equipped(s, c)
<1> DEFINE p == build_builtin_runtime(s, c)
<1>1. Outcome(p) = "ok" <=> Completes(p)
  BY HandlerSound, OutcomeOk DEF Sound
<1>2. CASE s.pattern_id \in Handlers
  BY <1>1, <1>2, SnapshotsComplete, StreamsComplete, EventsComplete DEF Handlers
<1>3. CASE s.pattern_id \notin Handlers
  <2>1. ~ Equipped(s, c)
    BY <1>3 DEF Equipped
  <2>2. ~ Completes(p)
    BY <1>3, HandlerSound DEF Sound
  <2> QED BY <1>1, <2>1, <2>2
<1> QED BY <1>2, <1>3

-----------------------------------------------------------------------------
(* The registry: every definition keeps its owner, and a pattern is routed *)
(* to the package that declared it.                                        *)
LEMMA RegistryStep ==
    ASSUME Registry!RoutedToDeclarer, Registry!Next
    PROVE  /\ Registry!RoutedToDeclarer'
           /\ \A id \in DOMAIN definitions :
                 id \in DOMAIN definitions' /\ definitions'[id] = definitions[id]
<1>1. PICK p \in Providers : Registry!register_provider(p)
  BY DEF Registry!Next, Registry!LoadEntryPoint, Registry!RegisterProvider
<1> DEFINE new == IF Registry!Callable(p) THEN Registry!StoredIds(p) ELSE {}
<1>2. \A id \in Registry!StoredIds(p) : id \notin DOMAIN definitions
  <2> SUFFICES ASSUME NEW i \in Registry!Stored(p)
               PROVE  Offers[p].ids[i] \notin DOMAIN definitions
    BY DEF Registry!StoredIds
  <2>1. Offers[p].ids \in Seq(Ids)
    BY ProvidersAssumption
  <2>2. i \in 1..i
    BY <2>1 DEF Registry!Stored
  <2> QED BY <2>2 DEF Registry!Stored, Registry!Taken
<1>3. /\ definitions' = Registry!Assign(definitions, new, p)
      /\ provider_by_pattern' = Registry!Assign(provider_by_pattern, new, p)
      /\ \A id \in new : id \notin DOMAIN definitions
  BY <1>1, <1>2 DEF Registry!register_provider
<1>4. p # Core
  BY ProvidersAssumption
<1> HIDE DEF new
<1>5. /\ DOMAIN definitions' = DOMAIN definitions \cup new
      /\ \A id \in new : definitions'[id] = p
      /\ \A id \in DOMAIN definitions : definitions'[id] = definitions[id]
  BY <1>3 DEF Registry!Assign
<1>6. /\ DOMAIN provider_by_pattern' = DOMAIN provider_by_pattern \cup new
      /\ \A id \in new : provider_by_pattern'[id] = p
      /\ \A id \in DOMAIN provider_by_pattern :
            id \notin new => provider_by_pattern'[id] = provider_by_pattern[id]
  BY <1>3 DEF Registry!Assign
<1>7. Registry!RoutedToDeclarer'
  BY <1>3, <1>4, <1>5, <1>6 DEF Registry!RoutedToDeclarer
<1> QED BY <1>5, <1>7

-----------------------------------------------------------------------------
(* The inductive invariant.                                                *)

Refused(b) == b.by = Nothing /\ b.outcome # "ok" /\ b.graph = {}

ByPackage(b) ==
    /\ b.spec.pattern_id \in DOMAIN definitions
    /\ b.by = definitions[b.spec.pattern_id] /\ b.by # Core
    /\ b.outcome = "ok" /\ b.graph = ExtensionGraph

ByCore(b) ==
    /\ b.spec.pattern_id \in DOMAIN definitions
    /\ b.by = definitions[b.spec.pattern_id] /\ b.by = Core
    /\ b.spec.pattern_id \in NumberedIds => validate_builtin_pattern(b.spec) = "ok"
    /\ validate_reconciliation_contract(b.spec)
    /\ \E c \in Contexts :
          /\ b.graph = Registered(build_builtin_runtime(b.spec, c))
          /\ b.outcome = Outcome(build_builtin_runtime(b.spec, c))

(* What the loader established is vouched for until the first assignment:  *)
(* no assignment is taken back because a validator refused it.             *)
Vouched(s, n) == n = 0 => ModelValid(s)

Inv == /\ Registry!RoutedToDeclarer
       /\ assignments \in Nat
       /\ spec # Nothing => Vouched(spec, assignments)
       /\ build # Nothing => /\ Vouched(build.spec, build.assignments)
                             /\ Refused(build) \/ ByPackage(build) \/ ByCore(build)

LEMMA InitInv == Init => Inv
<1> SUFFICES ASSUME Init PROVE Inv
  OBVIOUS
<1>1. Registry!RoutedToDeclarer
  <2>1. provider_by_pattern = << >> /\ DOMAIN << >> = {}
    BY EmptySeq DEF Init, Registry!Init
  <2>2. \A id \in DOMAIN definitions : definitions[id] = Core
    BY DEF Init, Registry!Init
  <2> QED BY <2>1, <2>2 DEF Registry!RoutedToDeclarer
<1> QED BY <1>1 DEF Init, Inv

(* Validation: what "ok" means, whoever owns the pattern.                  *)
LEMMA ValidatedOk ==
    ASSUME NEW s, NEW answer, validate(s, answer) = "ok"
    PROVE  /\ s.pattern_id \in DOMAIN definitions
           /\ s.pattern_id \in NumberedIds => validate_builtin_pattern(s) = "ok"
           /\ validate_reconciliation_contract(s)
BY DEF validate

LEMMA BuildRuntimeInv ==
    ASSUME Inv, NEW c \in Contexts, NEW answer, build_runtime(c, answer)
    PROVE  Inv'
<1> DEFINE plan == build_builtin_runtime(spec, c)
           result == validate(spec, answer)
<1> USE DEF Built
<1>1. /\ UNCHANGED <<definitions, provider_by_pattern, spec, assignments>>
      /\ spec # Nothing
  BY DEF build_runtime
<1>2. build'.spec = spec /\ build'.assignments = assignments
  BY DEF build_runtime
<1>3. CASE result # "ok"
  <2>1. Refused(build)'
    BY <1>3 DEF build_runtime, Refused
  <2> QED BY <1>1, <1>2, <2>1 DEF Inv, Registry!RoutedToDeclarer
<1>4. CASE result = "ok" /\ spec.pattern_id \in DOMAIN provider_by_pattern
  <2>1. /\ build'.by = provider_by_pattern[spec.pattern_id]
        /\ build'.outcome = "ok" /\ build'.graph = ExtensionGraph
    BY <1>4 DEF build_runtime
  <2>2. ByPackage(build)'
    BY <1>1, <1>2, <1>4, <2>1 DEF ByPackage, Inv, Registry!RoutedToDeclarer, ExtensionGraph, Node
  <2> QED BY <1>1, <1>2, <2>2 DEF Inv, Registry!RoutedToDeclarer
<1>5. CASE result = "ok" /\ spec.pattern_id \notin DOMAIN provider_by_pattern
  <2>1. /\ build'.by = Core /\ build'.graph = Registered(plan)
        /\ build'.outcome = Outcome(plan)
    BY <1>5 DEF build_runtime
  <2>2. spec.pattern_id \in DOMAIN definitions /\ definitions[spec.pattern_id] = Core
    BY <1>5, ValidatedOk DEF Inv, Registry!RoutedToDeclarer
  <2>3. ByCore(build)'
    BY <1>1, <1>2, <1>5, <2>1, <2>2, ValidatedOk DEF ByCore
  <2> QED BY <1>1, <1>2, <2>3 DEF Inv, Registry!RoutedToDeclarer
<1> QED BY <1>3, <1>4, <1>5

LEMMA BuildExtensionInv ==
    ASSUME Inv, NEW answer, build_extension_runtime(answer)
    PROVE  Inv'
<1> DEFINE result == validate(spec, answer)
<1> USE DEF Built
<1>1. /\ UNCHANGED <<definitions, provider_by_pattern, spec, assignments>>
      /\ spec # Nothing
  BY DEF build_extension_runtime
<1>2. build'.spec = spec /\ build'.assignments = assignments
  BY DEF build_extension_runtime
<1>3. CASE result = "ok" /\ spec.pattern_id \in DOMAIN provider_by_pattern
  <2>1. /\ build'.by = provider_by_pattern[spec.pattern_id]
        /\ build'.outcome = "ok" /\ build'.graph = ExtensionGraph
    BY <1>3 DEF build_extension_runtime
  <2>2. ByPackage(build)'
    BY <1>1, <1>2, <1>3, <2>1 DEF ByPackage, Inv, Registry!RoutedToDeclarer, ExtensionGraph, Node
  <2> QED BY <1>1, <1>2, <2>2 DEF Inv, Registry!RoutedToDeclarer
<1>4. CASE ~ (result = "ok" /\ spec.pattern_id \in DOMAIN provider_by_pattern)
  <2>1. Refused(build)'
    BY <1>4 DEF build_extension_runtime, Refused
  <2> QED BY <1>1, <1>2, <2>1 DEF Inv, Registry!RoutedToDeclarer
<1> QED BY <1>3, <1>4

LEMMA AssignInv ==
    ASSUME Inv, NEW f, NEW v, Assign(f, v)
    PROVE  Inv'
<1>1. /\ build = Nothing /\ assignments' = assignments + 1
      /\ UNCHANGED <<definitions, provider_by_pattern, build>>
  BY DEF Assign
<1>2. assignments' \in Nat /\ assignments' # 0
  BY <1>1 DEF Inv
<1> QED BY <1>1, <1>2 DEF Inv, Vouched, Registry!RoutedToDeclarer

LEMMA NextInv == Inv /\ [Next]_vars => Inv'
<1> SUFFICES ASSUME Inv, [Next]_vars PROVE Inv'
  OBVIOUS
<1>1. CASE Registry!Next /\ UNCHANGED <<spec, assignments, validation, build>>
  <2>1. Registry!RoutedToDeclarer /\ Registry!RoutedToDeclarer'
    BY <1>1, RegistryStep DEF Inv
  <2>2. \A id \in DOMAIN definitions :
           id \in DOMAIN definitions' /\ definitions'[id] = definitions[id]
    BY <1>1, <2>1, RegistryStep
  <2>3. /\ Refused(build) => Refused(build)'
        /\ ByPackage(build) => ByPackage(build)'
        /\ ByCore(build) => ByCore(build)'
    BY <1>1, <2>2 DEF Refused, ByPackage, ByCore
  <2> QED BY <1>1, <2>1, <2>3 DEF Inv
<1>2. ASSUME NEW s \in Documents, LoadSpec(s) PROVE Inv'
  BY <1>2 DEF LoadSpec, Inv, Vouched, Registry!RoutedToDeclarer, Refused, ByPackage, ByCore
<1>3. ASSUME NEW a \in Assignments, Assign(a[1], a[2]) PROVE Inv'
  BY <1>3, AssignInv
<1>4. ASSUME NEW answer \in Answers, Validate(answer) PROVE Inv'
  BY <1>4 DEF Validate, Inv, Registry!RoutedToDeclarer
<1>5. ASSUME NEW c \in Contexts, NEW answer \in Answers, build_runtime(c, answer) PROVE Inv'
  BY <1>5, BuildRuntimeInv
<1>6. ASSUME NEW answer \in Answers, build_extension_runtime(answer) PROVE Inv'
  BY <1>6, BuildExtensionInv
<1>7. CASE UNCHANGED vars
  BY <1>7 DEF Inv, Registry!RoutedToDeclarer, Refused, ByPackage, ByCore
<1> QED BY <1>1, <1>2, <1>3, <1>4, <1>5, <1>6, <1>7 DEF Next

LEMMA Invariance == Spec => []Inv
BY InitInv, NextInv, PTL DEF Spec

-----------------------------------------------------------------------------
(* What the handlers promise, of the build that was made.                  *)
LEMMA CoreBuild ==
    ASSUME Inv, build # Nothing, ByCore(build)
    PROVE  /\ build.outcome = "ok" =>
                 RuntimeContract(build.spec) /\ build.spec.pattern_id \in Handlers
           /\ Grounded(build.graph) /\ FlowsHold(build.spec, build.graph)
           /\ build.outcome = "ok" \/ OnlyTargets(build.graph)
           /\ build.outcome = "ok" => Split(build.spec, build.graph)
           /\ build.outcome = "ok" /\ build.spec.pattern_id # "P02"
                 => Guarded(build.spec, build.graph)
<1>1. PICK c \in Contexts :
          /\ build.graph = Registered(build_builtin_runtime(build.spec, c))
          /\ build.outcome = Outcome(build_builtin_runtime(build.spec, c))
  BY DEF ByCore
<1> DEFINE p == build_builtin_runtime(build.spec, c)
<1>2. Sound(build.spec, p)
  BY HandlerSound
<1> HIDE DEF p
<1>3. build.outcome = "ok" <=> Completes(p)
  BY <1>1, <1>2, OutcomeOk DEF Sound, p
<1> QED BY <1>1, <1>2, <1>3 DEF Sound, p

(* The graph of a refused build is empty, a package's is its own node.     *)
LEMMA AnyBuild ==
    ASSUME Inv, build # Nothing
    PROVE  /\ Grounded(build.graph) /\ FlowsHold(build.spec, build.graph)
           /\ build.outcome = "ok" \/ OnlyTargets(build.graph)
<1>1. CASE Refused(build)
  BY <1>1 DEF Refused, Grounded, FlowsHold, OnlyTargets
<1>2. CASE ByPackage(build)
  <2>1. \A n \in ExtensionGraph : n.reads = "source" /\ n.kind = "extension"
    BY DEF ExtensionGraph, Node
  <2> QED BY <1>2, <2>1 DEF ByPackage, Grounded, FlowsHold
<1>3. CASE ByCore(build)
  BY <1>3, CoreBuild
<1> QED BY <1>1, <1>2, <1>3 DEF Inv

-----------------------------------------------------------------------------
(* A completed build of a built-in pattern satisfies the pattern's declared*)
(* semantics, the reconciliation contract and the runtime contract as the  *)
(* dataset contract stands when it is built, whatever was assigned before. *)
THEOREM BuiltContractsHoldCorrect == Spec => []BuiltContractsHold
<1>1. Inv => BuiltContractsHold
  <2> SUFFICES ASSUME Inv, build # Nothing, build.by = Core, build.outcome = "ok"
               PROVE  /\ validate_builtin_pattern(build.spec) = "ok"
                      /\ validate_reconciliation_contract(build.spec)
                      /\ RuntimeContract(build.spec)
    BY DEF BuiltContractsHold
  <2>1. ByCore(build)
    BY DEF Inv, Refused, ByPackage
  <2>2. RuntimeContract(build.spec) /\ build.spec.pattern_id \in Handlers
    BY <2>1, CoreBuild
  <2>3. build.spec.pattern_id \in NumberedIds
    BY <2>2, NumberedIdsAssumption DEF Handlers, BuiltinIds
  <2> QED BY <2>1, <2>2, <2>3 DEF ByCore
<1> QED BY <1>1, Invariance, PTL

(* However far a handler came, every registered object reads from, and     *)
(* every flow writes to, something the handler registered.                 *)
THEOREM NoDanglingReadsCorrect == Spec => []NoDanglingReads
<1>1. Inv => NoDanglingReads
  BY AnyBuild DEF Grounded, NoDanglingReads, Flows, Nodes
<1> QED BY <1>1, Invariance, PTL

(* A build that raises leaves no object that writes rows to Silver.        *)
THEOREM FailedBuildFeedsNoSilverCorrect == Spec => []FailedBuildFeedsNoSilver
<1>1. Inv => FailedBuildFeedsNoSilver
  BY AnyBuild DEF OnlyTargets, FailedBuildFeedsNoSilver
<1> QED BY <1>1, Invariance, PTL

(* Every AUTO CDC flow that is registered runs under an admitted delete    *)
(* policy: the hypothesis of CdcFlow's theorems is met by construction.    *)
THEOREM BuiltFlowsAreAdmittedCorrect == Spec => []BuiltFlowsAreAdmitted
<1>1. ASSUME NEW s, RuntimeContract(s), s.pattern_id \in {"P07", "P10"}
      PROVE  Admits(Policy(s))
  <2>1. CASE s.pattern_id = "P07"
    BY <1>1, <2>1 DEF RuntimeContract, Admits, Policy
  <2>2. CASE s.pattern_id = "P10"
    <3>1. /\ Policy(s).pattern = "P10" /\ Policy(s).strategy = s.delete_strategy
          /\ Policy(s).apply_as_deletes = (s.apply_as_deletes = "set")
          /\ s.max_delay > 0 => Policy(s).max_delay = s.max_delay
          /\ s.tombstone_retention > 0 => Policy(s).retention = s.tombstone_retention
      BY <2>2 DEF Policy
    <3>2. DeleteRuntimeContract(s)
      BY <1>1, <2>2 DEF RuntimeContract
    <3>3. \A x : x > 0 => x # Unset
      BY DEF Unset
    <3> QED BY <3>1, <3>2, <3>3 DEF DeleteRuntimeContract, Admits
  <2> QED BY <1>1, <2>1, <2>2
<1>2. Inv => BuiltFlowsAreAdmitted
  <2> SUFFICES ASSUME Inv, build # Nothing, NEW n \in Nodes("flow")
               PROVE  /\ Admits(Policy(build.spec))
                      /\ n.deletes = PassesDeletes(Policy(build.spec))
                      /\ build.spec.pattern_id = "P10"
                             => n.threshold = Policy(build.spec).retention
    BY DEF BuiltFlowsAreAdmitted
  <2>1. n \in build.graph /\ n.kind = "flow"
    BY DEF Nodes
  <2> QED BY <1>1, <2>1, AnyBuild DEF FlowsHold
<1> QED BY <1>2, Invariance, PTL

(* A completed build never shows in Silver what it quarantines, and as long*)
(* as nothing was assigned what is kept out of Silver has a quarantine     *)
(* table that takes it.                                                    *)
THEOREM QuarantineSplitsCorrect == Spec => []QuarantineSplits
<1>1. Inv => QuarantineSplits
  <2> SUFFICES ASSUME Inv, build # Nothing, build.outcome = "ok", build.by = Core
               PROVE  /\ Sink(build.graph) => Withheld(build.graph)
                      /\ Withheld(build.graph) /\ build.assignments = 0 => Sink(build.graph)
    BY DEF QuarantineSplits, Sink, Withheld
  <2>1. ByCore(build)
    BY DEF Inv, Refused, ByPackage
  <2>2. Split(build.spec, build.graph)
    BY <2>1, CoreBuild
  <2>3. build.assignments = 0 => QualityOK(build.spec)
    BY DEF Inv, Vouched, ModelValid
  <2> QED BY <2>2, <2>3 DEF Split
<1> QED BY <1>1, Invariance, PTL

(* The fail rules that slip through a completed build are P02's: every     *)
(* other handler decorates Bronze with them.                               *)
THEOREM FailRulesSlipOnlyUnderP02 ==
    Spec => [](FailRulesEnforced \/ build.spec.pattern_id = "P02")
<1>1. Inv => FailRulesEnforced \/ build.spec.pattern_id = "P02"
  <2> SUFFICES ASSUME Inv, build # Nothing, build.outcome = "ok", build.by = Core,
                      "fail" \in build.spec.quality_actions,
                      build.spec.pattern_id # "P02"
               PROVE  \E n \in build.graph : "fail" \in n.expectations
    BY DEF FailRulesEnforced
  <2>1. ByCore(build)
    BY DEF Inv, Refused, ByPackage
  <2> QED BY <2>1, CoreBuild DEF Guarded
<1> QED BY <1>1, Invariance, PTL

(* An SCD2 Silver over an ordering that is not authoritative is P02's: the *)
(* flows of P07 and P10 refuse one, whether or not the build completes.    *)
THEOREM Scd2SlipsOnlyUnderP02 ==
    Spec => [](Scd2IsAuthoritative \/ build.spec.pattern_id = "P02")
<1>1. Inv => Scd2IsAuthoritative \/ build.spec.pattern_id = "P02"
  BY AnyBuild DEF FlowsHold, Scd2IsAuthoritative, Flows, Nodes
<1> QED BY <1>1, Invariance, PTL

(* A validation that ends in a KeyError is one of a numbered id that is no *)
(* built-in pattern: no other contract, registered or not, raises one.     *)
THEOREM KeyErrorsAreNumberedIds ==
    Spec => [][(validation # "KeyError" /\ validation' = "KeyError") =>
                   spec.pattern_id \in NumberedIds \ BuiltinIds]_vars
<1>1. ASSUME [Next]_vars, validation # "KeyError", validation' = "KeyError"
      PROVE  spec.pattern_id \in NumberedIds \ BuiltinIds
  <2>1. PICK answer \in Answers : validation' = validate(spec, answer)
    BY <1>1 DEF Next, vars, LoadSpec, Assign, Validate, build_runtime,
                build_extension_runtime
  <2> QED BY <1>1, <2>1 DEF validate, Answers, validate_builtin_pattern, EXPECTED_SEMANTICS
<1> QED BY <1>1, PTL DEF Spec

(* A build of a validated pattern that no package provides completes       *)
(* exactly when the contract, as it stands, satisfies the runtime contract *)
(* and the context and the contract bring what the pattern's handler asks  *)
(* for: what registry.validate accepted is refused for no other reason.    *)
THEOREM BuildsCompleteExactly ==
    Spec => [][\A c \in Contexts, answer \in Answers :
                  /\ build_runtime(c, answer) /\ validate(spec, answer) = "ok"
                  /\ spec.pattern_id \notin DOMAIN provider_by_pattern
                  => (build'.outcome = "ok" <=> RuntimeContract(spec) /\ Equipped(spec, c))]_vars
<1>1. \A c \in Contexts, answer \in Answers :
         /\ build_runtime(c, answer) /\ validate(spec, answer) = "ok"
         /\ spec.pattern_id \notin DOMAIN provider_by_pattern
         => (build'.outcome = "ok" <=> RuntimeContract(spec) /\ Equipped(spec, c))
  <2> SUFFICES ASSUME NEW c \in Contexts, NEW answer \in Answers, build_runtime(c, answer),
                      validate(spec, answer) = "ok",
                      spec.pattern_id \notin DOMAIN provider_by_pattern
               PROVE  build'.outcome = "ok" <=> RuntimeContract(spec) /\ Equipped(spec, c)
    OBVIOUS
  <2>1. build'.outcome = Outcome(build_builtin_runtime(spec, c))
    BY DEF build_runtime, Built
  <2> QED BY <2>1, CompletesExactly
<1> QED BY <1>1, PTL DEF Spec

(* A contract that is built as it was loaded gives every change flow its   *)
(* business keys: each handler that registers one requires a merge-like    *)
(* Silver, for which the loader requires keys.                             *)
THEOREM LoadedContractsAreKeyedCorrect == Spec => []LoadedContractsAreKeyed
<1>1. Inv => LoadedContractsAreKeyed
  <2> SUFFICES ASSUME Inv, build # Nothing, build.assignments = 0, NEW n \in Flows
               PROVE  n.keyed
    BY DEF LoadedContractsAreKeyed
  <2>1. n \in build.graph /\ n.kind \in {"flow", "snapshot_flow"}
    BY DEF Flows, Nodes
  <2>2. /\ RuntimeContract(build.spec) /\ build.spec.pattern_id \in {"P02", "P07", "P10"}
        /\ n.keyed = build.spec.business_keys
    BY <2>1, AnyBuild DEF FlowsHold
  <2>3. build.spec.silver \in MergeLike
    BY <2>2 DEF RuntimeContract, MergeLike
  <2>4. build.spec.business_keys
    BY <2>3 DEF Inv, Vouched, ModelValid, SemanticsOK
  <2> QED BY <2>2, <2>4
<1> QED BY <1>1, Invariance, PTL

(* The package that built a pattern is the package that declared it, and   *)
(* stays so whatever is registered later.                                  *)
THEOREM BuiltByDeclarerCorrect == Spec => []BuiltByDeclarer
<1>1. Inv => BuiltByDeclarer
  BY DEF Inv, BuiltByDeclarer, Refused, ByPackage, ByCore
<1> QED BY <1>1, Invariance, PTL

-----------------------------------------------------------------------------
(* Nothing on the build path touches the registry: in a workload it        *)
(* behaves as the registry's own specification says, so that all of its    *)
(* theorems hold there, too.                                               *)
THEOREM WorkloadImplementsRegistry == Spec => Registry!Spec
<1>1. Init => Registry!Init
  BY DEF Init
<1>2. [Next]_vars => [Registry!Next]_registryVars
  BY DEF Next, LoadSpec, Assign, Validate, build_runtime, build_extension_runtime
<1> QED BY <1>1, <1>2, PTL DEF Spec, Registry!Spec, Registry!registryVars

RegistryTheorems == INSTANCE PatternRegistryProofs WITH CorePatterns <- BuiltinIds

LEMMA RegistryTyped == Spec => []Registry!TypeOK
<1>1. /\ RegistryTheorems!IdsAssumption /\ RegistryTheorems!CoreAssumption
      /\ RegistryTheorems!OffersAssumption /\ RegistryTheorems!EntryPointsAssumption
  BY NumberedIdsAssumption, ProvidersAssumption, EntryPointsAssumption
     DEF RegistryTheorems!IdsAssumption, RegistryTheorems!CoreAssumption,
         RegistryTheorems!OffersAssumption, RegistryTheorems!EntryPointsAssumption
<1>2. RegistryTheorems!Spec => []RegistryTheorems!TypeOK
  BY <1>1, RegistryTheorems!RegistryTypeCorrect
<1>3. Registry!Init => RegistryTheorems!Init
  BY DEF Registry!Init, RegistryTheorems!Init
<1>4. Registry!Next => RegistryTheorems!Next
  BY DEF Registry!Next, Registry!LoadEntryPoint, Registry!RegisterProvider,
         Registry!register_provider, Registry!Accepted, Registry!Callable,
         Registry!StoredIds, Registry!Stored, Registry!Taken, Registry!Assign,
         RegistryTheorems!Next, RegistryTheorems!LoadEntryPoint,
         RegistryTheorems!RegisterProvider, RegistryTheorems!register_provider,
         RegistryTheorems!Accepted, RegistryTheorems!Callable,
         RegistryTheorems!StoredIds, RegistryTheorems!Stored,
         RegistryTheorems!Taken, RegistryTheorems!Assign
<1>5. RegistryTheorems!TypeOK => Registry!TypeOK
  BY DEF Registry!TypeOK, RegistryTheorems!TypeOK
<1> QED BY WorkloadImplementsRegistry, <1>2, <1>3, <1>4, <1>5, PTL
        DEF Registry!Spec, RegistryTheorems!Spec,
            Registry!registryVars, RegistryTheorems!registryVars

(* Every variable has its type. *)
THEOREM WorkloadTypeCorrect == Spec => []TypeOK
<1> DEFINE Typed ==
       /\ spec # Nothing => "pattern_id" \in DOMAIN spec /\ spec.pattern_id \in Ids
       /\ assignments \in 0..MaxAssignments
       /\ validation \in {"none", "ok"} \cup Errors
       /\ build # Nothing => /\ build.outcome \in {"ok"} \cup Errors
                             /\ build.by \in Providers \cup {Core, Nothing}
<1>1. Init => Typed
  BY AssignmentsAssumption DEF Init
<1>2. ASSUME NEW s, NEW answer \in Answers PROVE validate(s, answer) \in {"ok"} \cup Errors
  BY DEF validate, validate_builtin_pattern, Answers, Errors
<1>3. ASSUME NEW s, NEW c \in Contexts
      PROVE  Outcome(build_builtin_runtime(s, c)) \in {"ok"} \cup Errors
  BY HandlerSound, OutcomeOk DEF Sound
<1>4. Registry!TypeOK /\ Typed /\ [Next]_vars => Typed'
  <2> SUFFICES ASSUME Registry!TypeOK, Typed, [Next]_vars PROVE Typed'
    OBVIOUS
  <2>1. ASSUME NEW s \in Documents, LoadSpec(s) PROVE Typed'
    BY <2>1, DocumentsAssumption DEF LoadSpec
  <2>2. ASSUME NEW a \in Assignments, Assign(a[1], a[2]) PROVE Typed'
    <3> DEFINE s == [spec EXCEPT ![a[1]] = a[2]]
    <3>1. /\ spec # Nothing /\ spec' = s /\ assignments < MaxAssignments
          /\ assignments' = assignments + 1 /\ UNCHANGED <<validation, build>>
      BY <2>2 DEF Assign
    <3>2. "pattern_id" \in DOMAIN s /\ s.pattern_id \in Ids
      BY <3>1, AssignmentsAssumption
    <3>3. assignments' \in 0..MaxAssignments
      BY <3>1, AssignmentsAssumption
    <3> QED BY <3>1, <3>2, <3>3
  <2>3. ASSUME NEW answer \in Answers, Validate(answer) PROVE Typed'
    BY <1>2, <2>3 DEF Validate
  <2>4. \A id \in DOMAIN provider_by_pattern : provider_by_pattern[id] \in Providers
    BY DEF Registry!TypeOK
  <2>5. ASSUME NEW c \in Contexts, NEW answer \in Answers, build_runtime(c, answer)
        PROVE  Typed'
    BY <1>2, <1>3, <2>4, <2>5 DEF build_runtime, Built
  <2>6. ASSUME NEW answer \in Answers, build_extension_runtime(answer) PROVE Typed'
    BY <1>2, <2>4, <2>6 DEF build_extension_runtime, Built, Errors
  <2>7. CASE UNCHANGED <<spec, assignments, validation, build>>
    BY <2>7
  <2> QED BY <2>1, <2>2, <2>3, <2>5, <2>6, <2>7 DEF Next
<1>5. Registry!TypeOK /\ Typed => TypeOK
  BY DEF TypeOK
<1> HIDE DEF Typed
<1> QED BY <1>1, <1>4, <1>5, RegistryTyped, PTL DEF Spec
=============================================================================
