---------------------------- MODULE QueryTables ----------------------------
(***************************************************************************)
(* The web UI's server queries and mutations: the cache key of every       *)
(* query, the keys every mutation invalidates when it succeeds, and what   *)
(* of the server's data each of them reads or writes. A key is a sequence; *)
(* invalidating a key invalidates every query whose key it is a prefix of. *)
(***************************************************************************)
EXTENDS Naturals, Sequences, TLC

LOCAL INSTANCE SequencesExt

-----------------------------------------------------------------------------
(* Query keys, by feature (lib/queryKeys.ts and the hooks that use it).    *)
(* Parameters of a key are words of their own.                             *)

EvaluationKeys ==
    "list"              :> <<"evaluations", "FILTERS">> @@
    "detail"            :> <<"evaluations", "ID">> @@
    "columnAnnotations" :> <<"evaluations", "column-annotations", "ID">> @@
    "trendAnnotations"  :> <<"trend-annotations", "ASSET", "SLO">> @@
    "trend"             :> <<"trend", "ASSET", "SLO">> @@
    "sloTrends"         :> <<"slo-trends", "ASSET", "SLO">>

NavigatorKeys ==
    "heatmap"           :> <<"metric-heatmap", "ASSET">> @@
    "names"             :> <<"evaluation-names", "SCOPE">>

AssetQueryKeys ==
    "assets"            :> <<"assets">> @@
    "asset"             :> <<"assets", "NAME">>

GroupQueryKeys ==
    "assetGroups"       :> <<"assets", "groups">> @@
    "group"             :> <<"asset-groups", "NAME">>

GroupTreeKeys ==
    "groupTree"         :> <<"asset-groups", "tree">>

GroupLinkKeys ==
    "groupLinks"        :> <<"asset-groups", "NAME", "assignments">>

AssetTypeKeys == "assetTypes" :> <<"asset-types">>

LabelKeys ==
    "labelKeys"         :> <<"label-keys">> @@
    "labelValues"       :> <<"label-values", "KEY">>

SloQueryKeys ==
    "slos"              :> <<"slos">> @@
    "slo"               :> <<"slos", "NAME">>

SloTagQueryKeys ==
    "sloVersions"       :> <<"slos", "NAME", "versions">> @@
    "sloTagKeys"        :> <<"slos", "tag-keys">> @@
    "sloTagValues"      :> <<"slos", "tag-values", "KEY">>

AssignmentQueryKeys ==
    "assetAssignments"      :> <<"slo-assignments", "asset", "NAME">> @@
    "groupAssignments"      :> <<"slo-assignments", "group", "NAME">> @@
    "assetGroupAssignments" :> <<"slo-group-assignments", "asset", "NAME">>

SliQueryKeys ==
    "slis"              :> <<"sli-definitions", "ADAPTER">> @@
    "sli"               :> <<"sli-definitions", "NAME">> @@
    "sliVersions"       :> <<"sli-definitions", "NAME", "versions">>

DatasourceQueryKeys ==
    "datasources"       :> <<"datasources", "TAG">> @@
    "datasource"        :> <<"datasources", "NAME">>

SloGroupQueryKeys ==
    "sloGroups"         :> <<"slo-groups">> @@
    "sloGroup"          :> <<"slo-groups", "NAME">>

ChangePointQueryKeys == "changePoints" :> <<"change-points", "list", "FILTERS">>

CategoryQueryKeys == "categories" :> <<"note-categories">>

Key ==
    EvaluationKeys @@ NavigatorKeys @@ AssetQueryKeys @@ GroupQueryKeys @@ GroupTreeKeys
    @@ GroupLinkKeys @@ AssetTypeKeys @@ LabelKeys @@ SloQueryKeys @@ SloTagQueryKeys
    @@ AssignmentQueryKeys @@ SliQueryKeys @@ DatasourceQueryKeys @@ SloGroupQueryKeys
    @@ ChangePointQueryKeys @@ CategoryQueryKeys

Queries == DOMAIN Key

\* staleTime: Infinity. Such data is fetched again only when it is invalidated.
Permanent == {"columnAnnotations", "trend", "sloTrends"}

-----------------------------------------------------------------------------
(* What a mutation invalidates in its onSuccess.                           *)

EvaluationsChanged ==
    {<<"evaluations">>, <<"metric-heatmap">>, <<"trend">>, <<"slo-trends">>}

NoteAdded == {<<"evaluations", "ID">>, <<"evaluations", "column-annotations">>,
              <<"trend-annotations">>, <<"metric-heatmap">>}

AnnotationInvalidations ==
    "addAnnotation"     :> NoteAdded @@
    "hideAnnotation"    :> NoteAdded \union {<<"evaluations">>}

EvaluationInvalidations ==
    "invalidate"        :> EvaluationsChanged \union {<<"evaluation-names">>} @@
    "restore"           :> EvaluationsChanged \union {<<"evaluation-names">>} @@
    "override"          :> EvaluationsChanged @@
    "pin"               :> EvaluationsChanged \ {<<"metric-heatmap">>} @@
    "reEvaluate"        :> EvaluationsChanged \union {<<"evaluation-names">>}

\* The batch forms of the asset panel.
ColumnInvalidations ==
    "batch"             :> EvaluationsChanged \union {<<"evaluation-names">>}

TriggerInvalidations == "trigger" :> {<<"evaluations">>}

AssetInvalidations ==
    "createAsset"       :> {<<"assets">>, <<"asset-groups">>} @@
    "updateAsset"       :> {<<"assets">>} @@
    "deleteAsset"       :> {<<"assets">>, <<"asset-groups">>}

GroupsChanged == {<<"asset-groups">>, <<"assets", "groups">>}

GroupInvalidations ==
    "changeMembers"     :> GroupsChanged @@
    "createGroup"       :> GroupsChanged @@
    "updateGroup"       :> GroupsChanged @@
    "deleteGroup"       :> GroupsChanged \union {<<"slos">>}

AssetTypeInvalidations ==
    "createType"        :> {<<"asset-types">>} @@
    "renameType"        :> {<<"asset-types">>, <<"assets">>} @@
    "deleteType"        :> {<<"asset-types">>}

SloInvalidations ==
    "createSlo"         :> {<<"slos">>} @@
    "deleteSlo"         :> {<<"slos">>}

AssignmentInvalidations ==
    "assign"            :> {<<"slo-assignments">>, <<"asset-groups">>} @@
    "unassign"          :> {<<"slo-assignments">>, <<"asset-groups">>}

SliInvalidations ==
    "createSli"         :> {<<"sli-definitions">>} @@
    "deleteSli"         :> {<<"sli-definitions">>}

DatasourceInvalidations ==
    "createDatasource"  :> {<<"datasources">>} @@
    "updateDatasource"  :> {<<"datasources">>} @@
    "deleteDatasource"  :> {<<"datasources">>}

SloGroupInvalidations ==
    "changeSloGroup"    :> {<<"slo-groups">>, <<"slos">>} @@
    "deleteSloGroup"    :> {<<"slo-groups">>, <<"slos">>}

ChangePointInvalidations == "triage" :> {<<"change-points">>}

CategoryInvalidations == "changeCategory" :> {<<"note-categories">>}

Invalidates ==
    AnnotationInvalidations @@ EvaluationInvalidations @@ ColumnInvalidations
    @@ TriggerInvalidations @@ AssetInvalidations @@ GroupInvalidations
    @@ AssetTypeInvalidations @@ SloInvalidations @@ AssignmentInvalidations
    @@ SliInvalidations @@ DatasourceInvalidations @@ SloGroupInvalidations
    @@ ChangePointInvalidations @@ CategoryInvalidations

Mutations == DOMAIN Invalidates

\* invalidateQueries matches by prefix.
Covers(m, q) == \E prefix \in Invalidates[m] : IsPrefix(prefix, Key[q])

-----------------------------------------------------------------------------
(* What the requests read and write at the server.                         *)

EvaluationReads ==
    "list"              :> {"evaluation", "result", "note", "pin"} @@
    "detail"            :> {"evaluation", "result", "note", "pin", "category"} @@
    "trend"             :> {"result", "changePoint"} @@
    "sloTrends"         :> {"result", "changePoint"}

AnnotationReads ==
    "trendAnnotations"  :> {"note", "category"} @@
    "columnAnnotations" :> {"note", "category"}

NameReads == "names" :> {"completed"}

\* Cells are marked with their notes and with the change points not hidden.
HeatmapReads == "heatmap" :> {"result", "note", "changePoint"}

AssetReads ==
    "assets"            :> {"asset", "type"} @@
    "asset"             :> {"asset", "type"}

AssetTypeReads == "assetTypes" :> {"typeList", "asset"}

LabelReads == "labelKeys" :> {"asset"} @@ "labelValues" :> {"asset"}

\* A group lists its members with their display and type names.
GroupReads ==
    "assetGroups"       :> {"group", "member", "asset", "type"} @@
    "group"             :> {"group", "member", "asset", "type"} @@
    "groupTree"         :> {"group", "member", "asset", "type"}

SloReads ==
    "slos" :> {"slo"} @@ "slo" :> {"slo"} @@ "sloVersions" :> {"slo"} @@
    "sloTagKeys" :> {"slo"} @@ "sloTagValues" :> {"slo"}

AssignmentReads ==
    "groupLinks"            :> {"assignment"} @@
    "groupAssignments"      :> {"assignment"} @@
    "assetAssignments"      :> {"assetAssignment"} @@
    "assetGroupAssignments" :> {"assetAssignment"}

SliReads == "slis" :> {"sli"} @@ "sli" :> {"sli"} @@ "sliVersions" :> {"sli"}

DatasourceReads == "datasources" :> {"datasource"} @@ "datasource" :> {"datasource"}

SloGroupReads == "sloGroups" :> {"sloGroup"} @@ "sloGroup" :> {"sloGroup"}

ChangePointReads == "changePoints" :> {"changePoint"}

CategoryReads == "categories" :> {"category"}

Reads ==
    EvaluationReads @@ AnnotationReads @@ NameReads @@ HeatmapReads @@ AssetReads
    @@ AssetTypeReads @@ LabelReads @@ GroupReads @@ SloReads @@ AssignmentReads
    @@ SliReads @@ DatasourceReads @@ SloGroupReads @@ ChangePointReads @@ CategoryReads

AnnotationWrites == "addAnnotation" :> {"note"} @@ "hideAnnotation" :> {"note"}

EvaluationWrites ==
    "invalidate" :> {"result"} @@ "restore" :> {"result"} @@
    "override" :> {"result"} @@ "pin" :> {"pin"}

BatchWrites == "batch" :> {"result", "pin"}

\* The server files a note for every evaluation it scores again.
ReEvaluateWrites == "reEvaluate" :> {"result", "note"}

\* Triggered evaluations are pending: names count completed ones.
TriggerWrites == "trigger" :> {"evaluation"}

AssetWrites ==
    "createAsset" :> {"asset"} @@ "updateAsset" :> {"asset"} @@
    "deleteAsset" :> {"asset", "member"}

GroupWrites ==
    "changeMembers" :> {"member"} @@ "createGroup" :> {"group"} @@
    "updateGroup" :> {"group"} @@ "deleteGroup" :> {"group", "member", "assignment"}

AssetTypeWrites ==
    "createType" :> {"typeList"} @@ "renameType" :> {"typeList", "type"} @@
    "deleteType" :> {"typeList"}

RegistryWrites ==
    "createSlo" :> {"slo"} @@ "deleteSlo" :> {"slo"}

AssignmentWrites == "assign" :> {"assignment"} @@ "unassign" :> {"assignment"}

SliWrites == "createSli" :> {"sli"} @@ "deleteSli" :> {"sli"}

DatasourceWrites ==
    "createDatasource" :> {"datasource"} @@ "updateDatasource" :> {"datasource"} @@
    "deleteDatasource" :> {"datasource"}

SloGroupWrites ==
    "changeSloGroup" :> {"sloGroup", "slo"} @@ "deleteSloGroup" :> {"sloGroup", "slo"}

ChangePointWrites == "triage" :> {"changePoint"}

CategoryWrites == "changeCategory" :> {"category"}

Writes ==
    AnnotationWrites @@ EvaluationWrites @@ BatchWrites @@ ReEvaluateWrites
    @@ TriggerWrites @@ AssetWrites @@ GroupWrites @@ AssetTypeWrites @@ RegistryWrites
    @@ AssignmentWrites @@ SliWrites @@ DatasourceWrites @@ SloGroupWrites
    @@ ChangePointWrites @@ CategoryWrites

\* Mutation m changes the answer to query q.
Affects(m, q) == Writes[m] \cap Reads[q] # {}

\* Mutations that change the answer to a query and leave it in the cache: the
\* forgotten invalidations of the code, listed so that no other can hide.
Forgotten ==
    {<<"addAnnotation", "list">>, <<"reEvaluate", "trendAnnotations">>,
     <<"triage", "trend">>, <<"triage", "sloTrends">>, <<"triage", "heatmap">>,
     <<"createAsset", "assetTypes">>, <<"updateAsset", "assetTypes">>,
     <<"deleteAsset", "assetTypes">>, <<"updateAsset", "group">>,
     <<"updateAsset", "groupTree">>, <<"renameType", "group">>,
     <<"renameType", "groupTree">>, <<"deleteGroup", "groupAssignments">>,
     <<"changeCategory", "detail">>, <<"changeCategory", "trendAnnotations">>,
     <<"changeCategory", "columnAnnotations">>}
    \union ({"createAsset", "updateAsset", "deleteAsset"} \X {"labelKeys", "labelValues"})

\* A closed formula over the tables: evaluating it, as TLC does, settles it.
ASSUME InvalidationsComplete ==
    \A m \in Mutations, q \in Queries :
        Affects(m, q) /\ <<m, q>> \notin Forgotten => Covers(m, q)
=============================================================================
