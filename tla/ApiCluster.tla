---------------------------- MODULE ApiCluster ----------------------------
(***************************************************************************)
(* What the methods of client.cat, cluster, nodes, tasks, snapshot,        *)
(* ingest, danglingIndices send: a definition for each method, and the     *)
(* methods of each namespace.  See ApiOps.                                 *)
(***************************************************************************)
EXTENDS ApiOps

-----------------------------------------------------------------------------
catAliasesApi ==
  Method({}, <<GET(<<"_cat", "aliases", ":name">>), GET(<<"_cat", "aliases">>)>>, "none")

catAllocationApi ==
  Method({}, <<GET(<<"_cat", "allocation", ":node_id">>), GET(<<"_cat", "allocation">>)>>, "none")

catCountApi == Method({}, <<GET(<<"_cat", "count", ":index">>), GET(<<"_cat", "count">>)>>, "none")

catFielddataApi ==
  Method({}, <<GET(<<"_cat", "fielddata", ":fields">>), GET(<<"_cat", "fielddata">>)>>, "none")

catHealthApi == Method({}, <<GET(<<"_cat", "health">>)>>, "none")

catHelpApi == Method({}, <<GET(<<"_cat">>)>>, "none")

catIndicesApi ==
  Method({}, <<GET(<<"_cat", "indices", ":index">>), GET(<<"_cat", "indices">>)>>, "none")

catMasterApi == Method({}, <<GET(<<"_cat", "master">>)>>, "none")

catNodeattrsApi == Method({}, <<GET(<<"_cat", "nodeattrs">>)>>, "none")

catNodesApi == Method({}, <<GET(<<"_cat", "nodes">>)>>, "none")

catPendingTasksApi == Method({}, <<GET(<<"_cat", "pending_tasks">>)>>, "none")

catPluginsApi == Method({}, <<GET(<<"_cat", "plugins">>)>>, "none")

catRecoveryApi ==
  Method({}, <<GET(<<"_cat", "recovery", ":index">>), GET(<<"_cat", "recovery">>)>>, "none")

catRepositoriesApi == Method({}, <<GET(<<"_cat", "repositories">>)>>, "none")

catSegmentsApi ==
  Method({}, <<GET(<<"_cat", "segments", ":index">>), GET(<<"_cat", "segments">>)>>, "none")

catShardsApi ==
  Method({}, <<GET(<<"_cat", "shards", ":index">>), GET(<<"_cat", "shards">>)>>, "none")

catSnapshotsApi ==
  Method({},
         <<GET(<<"_cat", "snapshots", ":repository">>),
           GET(<<"_cat", "snapshots">>)>>, "none")

catTasksApi == Method({}, <<GET(<<"_cat", "tasks">>)>>, "none")

catTemplatesApi ==
  Method({}, <<GET(<<"_cat", "templates", ":name">>), GET(<<"_cat", "templates">>)>>, "none")

catThreadPoolApi ==
  Method({},
         <<GET(<<"_cat", "thread_pool", ":thread_pool_patterns">>),
           GET(<<"_cat", "thread_pool">>)>>, "none")

catMlDataFrameAnalyticsApi ==
  Method({},
         <<GET(<<"_cat", "ml", "data_frame", "analytics", ":id">>),
           GET(<<"_cat", "ml", "data_frame", "analytics">>)>>, "none")

catMlDatafeedsApi ==
  Method({},
         <<GET(<<"_cat", "ml", "datafeeds", ":datafeed_id">>),
           GET(<<"_cat", "ml", "datafeeds">>)>>, "none")

catMlJobsApi ==
  Method({},
         <<GET(<<"_cat", "ml", "anomaly_detectors", ":job_id">>),
           GET(<<"_cat", "ml", "anomaly_detectors">>)>>, "none")

catMlTrainedModelsApi ==
  Method({},
         <<GET(<<"_cat", "ml", "trained_models", ":model_id">>),
           GET(<<"_cat", "ml", "trained_models">>)>>, "none")

catTransformsApi ==
  Method({},
         <<GET(<<"_cat", "transforms", ":transform_id">>),
           GET(<<"_cat", "transforms">>)>>, "none")

CatApi ==
  {catAliasesApi, catAllocationApi, catCountApi, catFielddataApi, catHealthApi, catHelpApi,
   catIndicesApi, catMasterApi, catNodeattrsApi, catNodesApi, catPendingTasksApi, catPluginsApi,
   catRecoveryApi, catRepositoriesApi, catSegmentsApi, catShardsApi, catSnapshotsApi,
   catTasksApi, catTemplatesApi, catThreadPoolApi, catMlDataFrameAnalyticsApi,
   catMlDatafeedsApi, catMlJobsApi, catMlTrainedModelsApi, catTransformsApi}

-----------------------------------------------------------------------------
clusterAllocationExplainApi ==
  Method({}, <<GETorPOST(<<"_cluster", "allocation", "explain">>)>>, "body")

clusterDeleteComponentTemplateApi ==
  Method({":name"}, <<DELETE(<<"_component_template", ":name">>)>>, "body")

clusterDeleteVotingConfigExclusionsApi ==
  Method({}, <<DELETE(<<"_cluster", "voting_config_exclusions">>)>>, "body")

clusterExistsComponentTemplateApi ==
  Method({":name"}, <<HEAD(<<"_component_template", ":name">>)>>, "none")

clusterGetComponentTemplateApi ==
  Method({}, <<GET(<<"_component_template", ":name">>), GET(<<"_component_template">>)>>, "none")

clusterGetSettingsApi == Method({}, <<GET(<<"_cluster", "settings">>)>>, "none")

clusterHealthApi ==
  Method({}, <<GET(<<"_cluster", "health", ":index">>), GET(<<"_cluster", "health">>)>>, "none")

clusterPendingTasksApi == Method({}, <<GET(<<"_cluster", "pending_tasks">>)>>, "none")

clusterPostVotingConfigExclusionsApi ==
  Method({}, <<POST(<<"_cluster", "voting_config_exclusions">>)>>, "body")

clusterPutComponentTemplateApi ==
  Method({":name", "body"}, <<PUT(<<"_component_template", ":name">>)>>, "body")

clusterPutSettingsApi == Method({"body"}, <<PUT(<<"_cluster", "settings">>)>>, "body")

clusterRemoteInfoApi == Method({}, <<GET(<<"_remote", "info">>)>>, "none")

clusterRerouteApi == Method({}, <<POST(<<"_cluster", "reroute">>)>>, "body")

clusterStateApi ==
  Validated({}, {Needs(":index", {":metric"})},
            <<GET(<<"_cluster", "state", ":metric", ":index">>),
              GET(<<"_cluster", "state", ":metric">>),
              GET(<<"_cluster", "state">>)>>, "none")

clusterStatsApi ==
  Method({},
         <<GET(<<"_cluster", "stats", "nodes", ":node_id">>),
           GET(<<"_cluster", "stats">>)>>, "none")

ClusterApi ==
  {clusterAllocationExplainApi, clusterDeleteComponentTemplateApi,
   clusterDeleteVotingConfigExclusionsApi, clusterExistsComponentTemplateApi,
   clusterGetComponentTemplateApi, clusterGetSettingsApi, clusterHealthApi,
   clusterPendingTasksApi, clusterPostVotingConfigExclusionsApi, clusterPutComponentTemplateApi,
   clusterPutSettingsApi, clusterRemoteInfoApi, clusterRerouteApi, clusterStateApi,
   clusterStatsApi}

-----------------------------------------------------------------------------
nodesHotThreadsApi ==
  Method({},
         <<GET(<<"_nodes", ":node_id", "hot_threads">>),
           GET(<<"_nodes", "hot_threads">>)>>, "none")

nodesInfoApi ==
  Method({},
         <<GET(<<"_nodes", ":node_id", ":metric">>),
           GET(<<"_nodes", ":node_id">>),
           GET(<<"_nodes", ":metric">>),
           GET(<<"_nodes">>)>>, "none")

nodesReloadSecureSettingsApi ==
  Method({},
         <<POST(<<"_nodes", ":node_id", "reload_secure_settings">>),
           POST(<<"_nodes", "reload_secure_settings">>)>>, "body")

nodesStatsApi ==
  Method({},
         <<GET(<<"_nodes", ":node_id", "stats", ":metric", ":index_metric">>),
           GET(<<"_nodes", ":node_id", "stats", ":metric">>),
           GET(<<"_nodes", "stats", ":metric", ":index_metric">>),
           GET(<<"_nodes", ":node_id", "stats">>),
           GET(<<"_nodes", "stats", ":metric">>),
           GET(<<"_nodes", "stats">>)>>, "none")

nodesUsageApi ==
  Method({},
         <<GET(<<"_nodes", ":node_id", "usage", ":metric">>),
           GET(<<"_nodes", ":node_id", "usage">>),
           GET(<<"_nodes", "usage", ":metric">>),
           GET(<<"_nodes", "usage">>)>>, "none")

NodesApi ==
  {nodesHotThreadsApi, nodesInfoApi, nodesReloadSecureSettingsApi, nodesStatsApi, nodesUsageApi}

-----------------------------------------------------------------------------
tasksCancelApi ==
  Method({}, <<POST(<<"_tasks", ":task_id", "_cancel">>), POST(<<"_tasks", "_cancel">>)>>, "body")

tasksGetApi == Method({":task_id"}, <<GET(<<"_tasks", ":task_id">>)>>, "none")

tasksListApi == Method({}, <<GET(<<"_tasks">>)>>, "none")

TasksApi ==
  {tasksCancelApi, tasksGetApi, tasksListApi}

-----------------------------------------------------------------------------
snapshotCleanupRepositoryApi ==
  Method({":repository"}, <<POST(<<"_snapshot", ":repository", "_cleanup">>)>>, "body")

snapshotCloneApi ==
  Validated({":repository", ":snapshot", ":target_snapshot", "body"},
            {Needs(":target_snapshot", {":repository", ":snapshot"}), Needs(":snapshot",
             {":repository"})},
            <<PUT(<<"_snapshot", ":repository", ":snapshot", "_clone", ":target_snapshot">>)>>,
            "body")

snapshotCreateApi ==
  Validated({":repository", ":snapshot"}, {Needs(":snapshot", {":repository"})},
            <<PUT(<<"_snapshot", ":repository", ":snapshot">>)>>, "body")

snapshotCreateRepositoryApi ==
  Method({":repository", "body"}, <<PUT(<<"_snapshot", ":repository">>)>>, "body")

snapshotDeleteApi ==
  Validated({":repository", ":snapshot"}, {Needs(":snapshot", {":repository"})},
            <<DELETE(<<"_snapshot", ":repository", ":snapshot">>)>>, "body")

snapshotDeleteRepositoryApi ==
  Method({":repository"}, <<DELETE(<<"_snapshot", ":repository">>)>>, "body")

snapshotGetApi ==
  Validated({":repository", ":snapshot"}, {Needs(":snapshot", {":repository"})},
            <<GET(<<"_snapshot", ":repository", ":snapshot">>)>>, "none")

snapshotGetRepositoryApi ==
  Method({}, <<GET(<<"_snapshot", ":repository">>), GET(<<"_snapshot">>)>>, "none")

snapshotRestoreApi ==
  Validated({":repository", ":snapshot"}, {Needs(":snapshot", {":repository"})},
            <<POST(<<"_snapshot", ":repository", ":snapshot", "_restore">>)>>, "body")

snapshotStatusApi ==
  Validated({}, {Needs(":snapshot", {":repository"})},
            <<GET(<<"_snapshot", ":repository", ":snapshot", "_status">>),
              GET(<<"_snapshot", ":repository", "_status">>),
              GET(<<"_snapshot", "_status">>)>>, "none")

snapshotVerifyRepositoryApi ==
  Method({":repository"}, <<POST(<<"_snapshot", ":repository", "_verify">>)>>, "body")

SnapshotApi ==
  {snapshotCleanupRepositoryApi, snapshotCloneApi, snapshotCreateApi,
   snapshotCreateRepositoryApi, snapshotDeleteApi, snapshotDeleteRepositoryApi, snapshotGetApi,
   snapshotGetRepositoryApi, snapshotRestoreApi, snapshotStatusApi, snapshotVerifyRepositoryApi}

-----------------------------------------------------------------------------
ingestDeletePipelineApi == Method({":id"}, <<DELETE(<<"_ingest", "pipeline", ":id">>)>>, "body")

ingestGetPipelineApi ==
  Method({}, <<GET(<<"_ingest", "pipeline", ":id">>), GET(<<"_ingest", "pipeline">>)>>, "none")

ingestProcessorGrokApi == Method({}, <<GET(<<"_ingest", "processor", "grok">>)>>, "none")

ingestPutPipelineApi == Method({":id", "body"}, <<PUT(<<"_ingest", "pipeline", ":id">>)>>, "body")

ingestSimulateApi ==
  Method({"body"},
         <<GETorPOST(<<"_ingest", "pipeline", ":id", "_simulate">>),
           GETorPOST(<<"_ingest", "pipeline", "_simulate">>)>>, "body")

IngestApi ==
  {ingestDeletePipelineApi, ingestGetPipelineApi, ingestProcessorGrokApi, ingestPutPipelineApi,
   ingestSimulateApi}

-----------------------------------------------------------------------------
danglingIndicesDeleteDanglingIndexApi ==
  Method({":index_uuid"}, <<DELETE(<<"_dangling", ":index_uuid">>)>>, "body")

danglingIndicesImportDanglingIndexApi ==
  Method({":index_uuid"}, <<POST(<<"_dangling", ":index_uuid">>)>>, "body")

danglingIndicesListDanglingIndicesApi == Method({}, <<GET(<<"_dangling">>)>>, "none")

DanglingIndicesApi ==
  {danglingIndicesDeleteDanglingIndexApi, danglingIndicesImportDanglingIndexApi,
   danglingIndicesListDanglingIndicesApi}

=============================================================================
