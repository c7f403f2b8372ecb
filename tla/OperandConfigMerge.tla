-------------------------- MODULE OperandConfigMerge --------------------------
(***************************************************************************)
(* How the CommonService CRs become the services of the OperandConfig:     *)
(* config_extractor.go (what one CR asks for), operandconfig.go (the merge *)
(* of all CRs with each other and with the base template),                 *)
(* config_merger.go and bootstrap/config_bridge.go (the first version that *)
(* InstallOrUpdateOpcon writes).                                           *)
(*                                                                         *)
(* Two services stand for the two shapes a service has.  ibm-im-operator   *)
(* is sized in its spec and has rules; common-service-cnpg is sized in a   *)
(* resource, the Cluster.  A spec or a resource is a function from its     *)
(* leaves to values; Path gives the nested maps a leaf lies in, since one  *)
(* of the merges treats a map that is missing on one side differently.     *)
(***************************************************************************)
EXTENDS ResourceComparison, SizeProfiles, SequencesExt

CONSTANTS
    Cases,       \* pairs of a list of CommonService CRs and <<architecture,
                 \* component>>: the build, and the container sized
    LaterCases   \* those that the CRs may be changed to between two reconciles

VARIABLES
    crs,         \* the CRs, in the order the API server lists them; a reconcile
                 \* works on one list (CommonServiceController has their edits
                 \* between its three lists)
    built,       \* the architecture and the container of this behaviour
    pc,          \* the step of the reconcile that comes next
    next,        \* buildDesiredStateFromAllCRs: the CR that PASS 3 comes to next
    desired,     \* ... the aggregated services
    mapping,     \* ... and its serviceControllerMapping
    todo,        \* getExtremeizes: the CRs (indices) not yet in the summary
    summary,     \* getExtremeizes: configSummary
    opcon        \* the services of the OperandConfig, Absent before the first round

vars == <<crs, built, pc, next, desired, mapping, todo, summary, opcon>>

None == <<>>                                \* the function with no leaf

\* Function f where it is defined, g elsewhere (TLC's @@, which proofs cannot use).
Over(f, g) == [x \in DOMAIN f \cup DOMAIN g |-> IF x \in DOMAIN f THEN f[x] ELSE g[x]]

Nothing == [spec |-> None, cluster |-> None]
Absent == [spec |-> None, cluster |-> [absent |-> EmptyStruct]]

SizeFields == {"replicas", "cpuRequest", "cpuLimit", "memoryRequest", "memoryLimit"}
ClusterSizeFields == {"instances", "dbCpuRequest", "dbCpuLimit"}
\* Mutant of ComparableFields: replicas are not compared.
ComparableFieldsNoReplicas == (SizeFields \ {"replicas"}) \cup ClusterSizeFields
ComparableFields == SizeFields \cup ClusterSizeFields

Path(f) ==
    CASE f \in {"cpuRequest", "memoryRequest"} -> <<"authService", "requests">>
      [] f \in {"cpuLimit", "memoryLimit"} -> <<"authService", "limits">>
      [] f = "dbCpuRequest" -> <<"resources", "requests">>
      [] f = "dbCpuLimit" -> <<"resources", "limits">>
      [] f = "source" -> <<"replica">>
      [] f \in {"initdb", "pg_basebackup"} -> <<"bootstrap">>
      [] OTHER -> <<>>

\* The maps on the path exist in config c.
HasMap(c, path) == path = <<>> \/ \E g \in DOMAIN c : IsPrefix(path, Path(g))

-----------------------------------------------------------------------------
(* The merges of two specs or resources.                                    *)

\* mergeSizeProfile: the changed value wins, the default fills in.
mergeSizeProfile(default, changed) == Over(changed, default)

\* mergeCRsIntoOperandConfig, with and without the rules: the larger of two
\* sizes, and of two other values the changed one.
mergeCRsIntoOperandConfig(default, changed) ==
    [f \in DOMAIN default \cup DOMAIN changed |->
        IF f \notin DOMAIN changed THEN default[f]
        ELSE IF f \in DOMAIN default \cap ComparableFields THEN Large(default[f], changed[f])
        ELSE changed[f]]

\* shrinkSize(..., Max): every leaf is compared.  A leaf only the changed side
\* has is added if the map it lies in exists, or if its whole top-level entry
\* is new; the top level of a resource is never new.
shrinkSize(default, changed, isResource) ==
    LET added == {f \in DOMAIN changed \ DOMAIN default :
                    \/ HasMap(default, Path(f))
                    \/ ~isResource /\ ~HasMap(default, SubSeq(Path(f), 1, 1))}
    IN  [f \in DOMAIN default \cup added |->
            IF f \notin DOMAIN changed THEN default[f]
            ELSE IF f \notin DOMAIN default THEN changed[f]
            ELSE Large(default[f], changed[f])]

Without(c, fields) == [f \in DOMAIN c \ fields |-> c[f]]

NonDefaultControllers == {"turbo", "turbonomic", "vpa"}

\* resetResourceInTemplate: another controller owns the sizes of the spec.
resetResourceInTemplate(spec) == Without(spec, SizeFields)

\* limits["cpu"] = struct{}{} where the resource has limits
ClearCpuLimit(cluster) ==
    IF HasMap(cluster, <<"resources", "limits">>)
    THEN Over([dbCpuLimit |-> EmptyStruct], cluster) ELSE cluster

\* Mutant of mergeResourceArrays: initdb stays beside pg_basebackup.
mergeResourceArraysKeepsInitdb(base, cs, controller) ==
    IF base = None \/ cs = None THEN Over(cs, base) ELSE mergeCRsIntoOperandConfig(base, cs)

\* The Cluster of both sides has the same kind, name and namespace.
mergeResourceArrays(base, cs, controller) ==
    IF base = None \/ cs = None THEN Over(cs, base)
    ELSE LET merged == mergeCRsIntoOperandConfig(base, cs)
             cleaned == IF "pg_basebackup" \in DOMAIN merged
                        THEN Without(merged, {"initdb"}) ELSE merged
         IN  IF controller \in NonDefaultControllers THEN ClearCpuLimit(cleaned) ELSE cleaned

mergeProfileController(sum, m) ==
    [k \in DOMAIN sum \cup DOMAIN m |->
        IF k \notin DOMAIN sum THEN m[k]
        ELSE IF k \in DOMAIN m /\ m[k] \in NonDefaultControllers
                                /\ sum[k] \notin NonDefaultControllers
        THEN m[k] ELSE sum[k]]

\* The controller of a service: its own strategy, or the one of the CR.
ControllerOf(m, service) ==
    IF service \in DOMAIN m THEN m[service]
    ELSE IF "profileController" \in DOMAIN m THEN m["profileController"] ELSE ""

\* One item of a CR's configuration into the summary.
mergeCSCR(m, sum, item) ==
    LET reset == ControllerOf(m, "ibm-im-operator") \in NonDefaultControllers
        spec == IF reset THEN resetResourceInTemplate(item.spec) ELSE item.spec
    IN  [spec |-> mergeCRsIntoOperandConfig(sum.spec, spec),
         cluster |-> mergeResourceArrays(sum.cluster, item.cluster,
                                         ControllerOf(m, "common-service-cnpg"))]

-----------------------------------------------------------------------------
(* What one CR asks for.  A CR is a record: size, controller (spec.         *)
(* profileController), strategy (managementStrategy of the im service),     *)
(* custom (sizes under spec.services), autoScale ("", "true", "false") and  *)
(* source (csPostgreSQLReplica, "" when not set, "bad" when incomplete).    *)

\* A size that a user writes: text or a number.
IsSize(v) ==
    /\ DOMAIN v = {"t", "n", "u"}
    /\ v.t \in {"str", "num"}
    /\ v.n \in Nat

IsCR(cr) ==
    /\ DOMAIN cr = {"size", "controller", "strategy", "custom", "autoScale", "source"}
    /\ DOMAIN cr.custom \subseteq SizeFields
    /\ \A f \in DOMAIN cr.custom : IsSize(cr.custom[f])

ASSUME CasesAssumption ==
    \A c \in Cases :
        /\ Len(c[1]) \in Nat /\ DOMAIN c[1] = 1..Len(c[1])
        /\ \A i \in DOMAIN c[1] : IsCR(c[1][i])
        /\ c[2] \in Arches \X (1..Len(Components))

ASSUME LaterCasesAssumption == LaterCases \subseteq Cases

Template(size) ==
    CASE size \in {"starterset", "starter"} -> "starterset"
      [] size \in {"small", "medium"} -> size
      [] size \in {"large", "production"} -> "large"
      [] OTHER -> "custom"

\* The size template of this build for the container and for the Cluster.
SizeTemplateConfig(profile) ==
    LET row == SizeTemplate(built[1], profile)[built[2]]
        db == SizeTemplate(built[1], profile)[6]
    IN  [spec |-> Over(IF row[1] = 0 THEN None ELSE [replicas |-> Num(row[1])],
                       [cpuRequest |-> Str(row[2], "m"), cpuLimit |-> Str(row[3], "m"),
                        memoryRequest |-> Str(row[4], "Mi"), memoryLimit |-> Str(row[5], "Mi")]),
         cluster |-> [instances |-> Num(db[1]), dbCpuRequest |-> Str(db[2], "m"),
                      dbCpuLimit |-> Str(db[3], "m")]]

\* extractSizeConfigs: the template with the user's values over it, or, for
\* any other size, the user's values alone.
extractSizeConfigs(cr) ==
    LET profile == Template(cr.size)
        template == IF profile = "custom" THEN Nothing ELSE SizeTemplateConfig(profile)
        scaled == shrinkSize(template.spec, cr.custom, FALSE)
    IN  [template EXCEPT !.spec = mergeSizeProfile(scaled, cr.custom)]

serviceControllerMapping(cr) ==
    Over([profileController |-> IF cr.controller = "" THEN "default" ELSE cr.controller],
         [s \in IF cr.strategy = "" THEN {} ELSE {"ibm-im-operator"} |-> cr.strategy])

\* extractPostgreSQLReplicaConfig
ReplicaConfig(source) ==
    IF source = "" THEN None ELSE [source |-> Word(source), pg_basebackup |-> Word("set")]

extractFeatureConfigs(cr) ==
    [spec |-> IF cr.autoScale = "" THEN None
              ELSE [autoScaleConfig |-> Bool(cr.autoScale = "true")],
     cluster |-> ReplicaConfig(cr.source)]

ExtractFails(cr) == cr.source = "bad"

\* mergeCSCRs over ExtractCommonServiceConfigs: the features, then the sizes.
mergeCSCRs(sum, cr, m) ==
    mergeCSCR(m, mergeCSCR(m, sum, extractFeatureConfigs(cr)), extractSizeConfigs(cr))

-----------------------------------------------------------------------------
(* buildDesiredStateFromAllCRs                                              *)

FirstNonEmpty(s, empty) ==
    IF \E i \in DOMAIN s : s[i] # empty
    THEN s[CHOOSE i \in DOMAIN s : s[i] # empty /\ \A j \in 1..(i - 1) : s[j] = empty]
    ELSE empty

\* PASS 1: any true wins for autoScaleConfig, the first replica wins.
CollectedFeatures ==
    [autoScale |-> IF \E i \in DOMAIN crs : crs[i].autoScale = "true" THEN "true" ELSE "false",
     source |-> FirstNonEmpty([i \in DOMAIN crs |-> crs[i].source], "")]

\* PASS 2: the features of all CRs as the base layer; none if one is incomplete.
FeatureLayer ==
    IF ExtractFails(CollectedFeatures) THEN Nothing
    ELSE mergeCSCR(None, Nothing, extractFeatureConfigs(CollectedFeatures))

-----------------------------------------------------------------------------
(* The steps of a reconcile of the master CR.                               *)

\* getBaseTemplateServices: the base template sizes neither service.
BaseServices == [spec |-> None, cluster |-> [initdb |-> Word("set")]]

\* buildDesiredStateFromAllCRs, PASS 1 and 2.
BuildDesired ==
    /\ pc = "build"
    /\ desired' = FeatureLayer
    /\ mapping' = None
    /\ next' = 1
    /\ pc' = "apply"
    /\ UNCHANGED <<crs, built, todo, summary, opcon>>

\* PASS 3: the sizes of the next CR on top, with the controllers met so far.
ApplyCR ==
    /\ pc = "apply"
    /\ next <= Len(crs)
    /\ mapping' = mergeProfileController(mapping, serviceControllerMapping(crs[next]))
    /\ desired' = mergeCSCR(mapping', desired, extractSizeConfigs(crs[next]))
    /\ next' = next + 1
    /\ UNCHANGED <<crs, built, pc, todo, summary, opcon>>

\* ... and the services and the mapping are returned.
DesiredBuilt ==
    /\ pc = "apply"
    /\ next > Len(crs)
    /\ pc' = "install"
    /\ UNCHANGED <<crs, built, next, desired, mapping, todo, summary, opcon>>

\* mergeOperandConfigs: spec fields of the existing OperandConfig that the new
\* one does not set stay; resources are replaced.
MergeWithExisting(existing, new) ==
    IF existing = Absent THEN new ELSE [new EXCEPT !.spec = Over(new.spec, existing.spec)]

sizePriority == [starterset |-> 0, starter |-> 0, small |-> 1, medium |-> 2, large |-> 3]

getLargestSizeFromCRs ==
    LET sized == {i \in DOMAIN crs : crs[i].size \in DOMAIN sizePriority}
    IN  IF sized = {} THEN "starterset"
        ELSE crs[CHOOSE i \in sized :
                    \A j \in sized : sizePriority[crs[j].size] <= sizePriority[crs[i].size]].size

AtLargestSize(cr) == [cr EXCEPT !.size = getLargestSizeFromCRs]

\* InstallOrUpdateOpcon with the aggregated services.
InstallOrUpdateOpcon ==
    /\ pc = "install"
    /\ desired # Nothing
    /\ opcon' = MergeWithExisting(opcon, mergeCSCR(mapping, BaseServices, desired))
    /\ pc' = "update"
    /\ UNCHANGED <<crs, built, next, desired, mapping, todo, summary>>

\* InstallOrUpdateOpcon when nothing was aggregated: mergeConfigs, from the
\* master CR alone.
InstallFromMaster(i) ==
    /\ pc = "install"
    /\ desired = Nothing
    /\ LET cr == AtLargestSize(crs[i])
           merged == mergeCSCRs(BaseServices, cr, serviceControllerMapping(cr))
       IN  IF ExtractFails(cr) THEN pc' = "failed" /\ UNCHANGED opcon
           ELSE /\ opcon' = MergeWithExisting(opcon, merged)
                /\ pc' = "update"
    /\ UNCHANGED <<crs, built, next, desired, mapping, todo, summary>>

\* Mutant of StartUpdate: the loop over the CRs begins one too early.
StartUpdateFromZero ==
    /\ pc = "update"
    /\ todo' = 0..Len(crs)
    /\ summary' = Nothing
    /\ pc' = "summarize"
    /\ UNCHANGED <<crs, built, next, desired, mapping, opcon>>

\* updateOperandConfig extracts the configuration of every CR before it merges.
StartUpdate ==
    /\ pc = "update"
    /\ todo' = DOMAIN crs
    /\ summary' = Nothing
    /\ pc' = IF \E i \in DOMAIN crs : ExtractFails(crs[i]) THEN "failed" ELSE "summarize"
    /\ UNCHANGED <<crs, built, next, desired, mapping, opcon>>

\* getExtremeizes ranges over a Go map: the CRs enter the summary in any order.
SummarizeNext(i) ==
    /\ pc = "summarize"
    /\ i \in todo
    /\ summary' = mergeCSCRs(summary, AtLargestSize(crs[i]), mapping)
    /\ todo' = todo \ {i}
    /\ UNCHANGED <<crs, built, pc, next, desired, mapping, opcon>>

\* Mutant of getExtremeizes: another controller's services keep their sizes.
getExtremeizesNoReset ==
    [spec |-> shrinkSize(desired.spec, summary.spec, FALSE),
     cluster |-> IF desired.cluster = None THEN None
                 ELSE shrinkSize(desired.cluster, summary.cluster, TRUE)]

\* getExtremeizes(..., Max): the services of the desired state against the summary.
getExtremeizes ==
    LET own == ControllerOf(mapping, "ibm-im-operator") \in NonDefaultControllers
        spec == IF own THEN resetResourceInTemplate(desired.spec) ELSE desired.spec
        clear == ControllerOf(mapping, "common-service-cnpg") \in NonDefaultControllers
        sumCluster == IF clear THEN ClearCpuLimit(summary.cluster) ELSE summary.cluster
    IN  [spec |-> IF desired.spec = None THEN None ELSE shrinkSize(spec, summary.spec, FALSE),
         cluster |-> IF desired.cluster = None THEN None
                     ELSE shrinkSize(desired.cluster, sumCluster, TRUE)]

\* mergeServiceConfig, with the default controller
mergeServicesWithBase(base, cs) ==
    [spec |-> mergeCRsIntoOperandConfig(base.spec, cs.spec),
     cluster |-> mergeResourceArrays(base.cluster, cs.cluster, "default")]

\* The rest of updateOperandConfig: the services are replaced as a whole.
UpdateServices ==
    /\ pc = "summarize"
    /\ todo = {}
    /\ opcon' = mergeServicesWithBase(BaseServices, getExtremeizes)
    /\ pc' = "done"
    /\ UNCHANGED <<crs, built, next, desired, mapping, todo, summary>>

\* The next reconcile of the master CR: the users may have changed the CRs, and
\* of the last reconcile only the OperandConfig is left.
NextRound ==
    /\ pc \in {"done", "failed"}
    /\ crs' \in {crs} \cup {c[1] : c \in {d \in LaterCases : d[2] = built}}
    /\ pc' = "build"
    /\ next' = 1
    /\ desired' = Nothing
    /\ mapping' = None
    /\ todo' = {}
    /\ summary' = Nothing
    /\ UNCHANGED <<built, opcon>>

Init ==
    /\ \E c \in Cases : crs = c[1] /\ built = c[2]
    /\ pc = "build"
    /\ next = 1
    /\ desired = Nothing
    /\ mapping = None
    /\ todo = {}
    /\ summary = Nothing
    /\ opcon = Absent

Next ==
    \/ BuildDesired
    \/ ApplyCR
    \/ DesiredBuilt
    \/ InstallOrUpdateOpcon
    \/ \E i \in DOMAIN crs : InstallFromMaster(i)
    \/ StartUpdate
    \/ \E i \in todo : SummarizeNext(i)
    \/ UpdateServices
    \/ NextRound

Spec == Init /\ [][Next]_vars

-----------------------------------------------------------------------------
(* Properties.                                                              *)

Leaves == SizeFields \cup ClusterSizeFields
            \cup {"autoScaleConfig", "source", "initdb", "pg_basebackup", "absent"}

IsServices(s) ==
    /\ DOMAIN s = {"spec", "cluster"}
    /\ \A part \in DOMAIN s : DOMAIN s[part] \subseteq Leaves

\* Type invariant: the steps, the indices still to be summarized, and services
\* made of known leaves only.
TypeOK ==
    /\ pc \in {"build", "apply", "install", "update", "summarize", "done", "failed"}
    /\ next \in 1..(Len(crs) + 1)
    /\ todo \subseteq DOMAIN crs
    /\ IsServices(desired) /\ IsServices(summary) /\ IsServices(opcon)
    /\ DOMAIN mapping \subseteq {"profileController", "ibm-im-operator"}

Flat(c) == Over(c.spec, c.cluster)

\* What the CRs ask for: each with its own size and with the largest one.
Asking == {crs[i] : i \in DOMAIN crs} \cup {AtLargestSize(crs[i]) : i \in DOMAIN crs}
Asks == {extractSizeConfigs(cr) : cr \in Asking}
Asked(f) == {a[f] : a \in {b \in {Flat(c) : c \in Asks} : f \in DOMAIN b}}

\* No number 0 beside a text that is no quantity, to which it gives way.
Comparable(values) ==
    \/ \A w \in values : w.t = "num" => w.n > 0
    \/ \A w \in values : Parses(w)

\* v is the largest quantity of a set of values, if it has any.
IsLargest(v, values) ==
    Comparable(values) /\ (\E w \in values : Parses(w)) =>
        Parses(v) /\ \A w \in values : Parses(w) => ~Exceeds(w, v)

DefaultControllers ==
    \A s \in {"ibm-im-operator", "common-service-cnpg"} :
        ControllerOf(mapping, s) \notin NonDefaultControllers

\* Whatever order the Go map was traversed in, every size in the OperandConfig
\* is one that was asked for and the largest valid one, and a size a CR asks
\* for is there: no CR gets less than it asked for, and a value that is not a
\* quantity displaces none that is, but for the number 0.
LargestWins ==
    pc = "done" /\ DefaultControllers =>
        LET final == Flat(opcon) IN
        /\ \A cr \in {crs[i] : i \in DOMAIN crs} :
              DOMAIN extractSizeConfigs(cr).spec \subseteq DOMAIN final
        /\ \A f \in DOMAIN final \cap (SizeFields \cup ClusterSizeFields) :
              \E asked \in {Asked(f)} :
                  final[f] \in asked /\ IsLargest(final[f], asked)

\* The pairs of a request and its limit.
Pairs == {<<"cpuRequest", "cpuLimit">>, <<"memoryRequest", "memoryLimit">>,
          <<"dbCpuRequest", "dbCpuLimit">>}

Bounded(c) ==
    \A p \in Pairs :
        p[1] \in DOMAIN c /\ p[2] \in DOMAIN c /\ Parses(c[p[1]]) /\ Parses(c[p[2]])
            => ~Exceeds(c[p[1]], c[p[2]])

\* A CR that overrides a request overrides its limit too, consistently.
ConsistentOverrides ==
    \A i \in DOMAIN crs :
        /\ Bounded(crs[i].custom)
        /\ \A p \in Pairs : p[1] \in DOMAIN crs[i].custom <=> p[2] \in DOMAIN crs[i].custom
        /\ \A f \in DOMAIN crs[i].custom : Parses(crs[i].custom[f])

Only(c, fields) == [f \in DOMAIN c \cap fields |-> c[f]]

\* No request exceeds its limit in the OperandConfig, for every container, every
\* build and every mix of profiles, although request and limit may come from
\* different CRs and different profiles (a larger profile requests less for
\* some containers): the API server would refuse such a pod.  A complete
\* reconcile leaves it so whatever it found; from InstallOrUpdateOpcon on it is
\* so for the sizes this reconcile has aggregated, beside which
\* mergeOperandConfigs keeps those of earlier, perhaps inconsistent, CRs.
Schedulable ==
    DefaultControllers /\ ConsistentOverrides =>
        /\ pc \in {"update", "summarize"} => Bounded(Only(Flat(opcon), DOMAIN Flat(desired)))
        /\ pc = "done" => Bounded(Flat(opcon))

\* Another controller owns the sizes of the im service: a CR names it as the
\* service's strategy or, where no CR has a strategy for it, as its own.
Owned ==
    IF \E i \in DOMAIN crs : crs[i].strategy # ""
    THEN \E i \in DOMAIN crs : crs[i].strategy \in NonDefaultControllers
    ELSE \E i \in DOMAIN crs : crs[i].controller \in NonDefaultControllers

\* Once a CR has handed the im service to another profile controller, a complete
\* reconcile leaves no size of it in the OperandConfig, whatever the other CRs
\* ask for, however early they were merged, and whatever sizes earlier CRs left
\* there.  Within the reconcile those stay: mergeOperandConfigs keeps them, and
\* only updateOperandConfig, which replaces the services, takes them out.
ControllerOwnsSizes ==
    pc = "done" /\ Owned => DOMAIN opcon.spec \cap SizeFields = {}

\* A Cluster that replicates is never also told to initialise a database of its
\* own, at any moment the OperandConfig can be read; without a replica
\* configuration it always is.
ReplicaHasNoInitdb ==
    pc \in {"summarize", "done"} =>
        LET replica == \E i \in DOMAIN crs : crs[i].source # ""
        IN  /\ replica <=> "pg_basebackup" \in DOMAIN opcon.cluster
            /\ replica <=> "initdb" \notin DOMAIN opcon.cluster

-----------------------------------------------------------------------------
(* What the comments say of the merge.                                      *)

\* "any true wins, otherwise false in the End" for autoScaleConfig, and "first
\* non-nil wins" for csPostgreSQLReplica (buildDesiredStateFromAllCRs).
FeaturesAsCollected ==
    pc = "done" =>
        /\ opcon.spec["autoScaleConfig"] = Bool(CollectedFeatures.autoScale = "true")
        /\ CollectedFeatures.source # "" =>
              opcon.cluster["source"] = Word(CollectedFeatures.source)
=============================================================================
