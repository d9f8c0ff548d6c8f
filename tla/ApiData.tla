----------------------------- MODULE ApiData ------------------------------
(***************************************************************************)
(* What the methods of client.ccr, enrich, ilm, rollup,                    *)
(* searchableSnapshots, slm, transform, autoscaling, migration send: a     *)
(* definition for each method, and the methods of each namespace.  See     *)
(* ApiOps.                                                                 *)
(***************************************************************************)
EXTENDS ApiOps

-----------------------------------------------------------------------------
ccrDeleteAutoFollowPatternApi ==
  Method({":name"}, <<DELETE(<<"_ccr", "auto_follow", ":name">>)>>, "body")

ccrFollowApi == Method({":index", "body"}, <<PUT(<<":index", "_ccr", "follow">>)>>, "body")

ccrFollowInfoApi == Method({":index"}, <<GET(<<":index", "_ccr", "info">>)>>, "none")

ccrFollowStatsApi == Method({":index"}, <<GET(<<":index", "_ccr", "stats">>)>>, "none")

ccrForgetFollowerApi ==
  Method({":index", "body"}, <<POST(<<":index", "_ccr", "forget_follower">>)>>, "body")

ccrGetAutoFollowPatternApi ==
  Method({}, <<GET(<<"_ccr", "auto_follow", ":name">>), GET(<<"_ccr", "auto_follow">>)>>, "none")

ccrPauseAutoFollowPatternApi ==
  Method({":name"}, <<POST(<<"_ccr", "auto_follow", ":name", "pause">>)>>, "body")

ccrPauseFollowApi == Method({":index"}, <<POST(<<":index", "_ccr", "pause_follow">>)>>, "body")

ccrPutAutoFollowPatternApi ==
  Method({":name", "body"}, <<PUT(<<"_ccr", "auto_follow", ":name">>)>>, "body")

ccrResumeAutoFollowPatternApi ==
  Method({":name"}, <<POST(<<"_ccr", "auto_follow", ":name", "resume">>)>>, "body")

ccrResumeFollowApi == Method({":index"}, <<POST(<<":index", "_ccr", "resume_follow">>)>>, "body")

ccrStatsApi == Method({}, <<GET(<<"_ccr", "stats">>)>>, "none")

ccrUnfollowApi == Method({":index"}, <<POST(<<":index", "_ccr", "unfollow">>)>>, "body")

CcrApi ==
  {ccrDeleteAutoFollowPatternApi, ccrFollowApi, ccrFollowInfoApi, ccrFollowStatsApi,
   ccrForgetFollowerApi, ccrGetAutoFollowPatternApi, ccrPauseAutoFollowPatternApi,
   ccrPauseFollowApi, ccrPutAutoFollowPatternApi, ccrResumeAutoFollowPatternApi,
   ccrResumeFollowApi, ccrStatsApi, ccrUnfollowApi}

-----------------------------------------------------------------------------
enrichDeletePolicyApi == Method({":name"}, <<DELETE(<<"_enrich", "policy", ":name">>)>>, "body")

enrichExecutePolicyApi ==
  Method({":name"}, <<PUT(<<"_enrich", "policy", ":name", "_execute">>)>>, "body")

enrichGetPolicyApi ==
  Method({}, <<GET(<<"_enrich", "policy", ":name">>), GET(<<"_enrich", "policy">>)>>, "none")

enrichPutPolicyApi == Method({":name", "body"}, <<PUT(<<"_enrich", "policy", ":name">>)>>, "body")

enrichStatsApi == Method({}, <<GET(<<"_enrich", "_stats">>)>>, "none")

EnrichApi ==
  {enrichDeletePolicyApi, enrichExecutePolicyApi, enrichGetPolicyApi, enrichPutPolicyApi,
   enrichStatsApi}

-----------------------------------------------------------------------------
ilmDeleteLifecycleApi == Method({":policy"}, <<DELETE(<<"_ilm", "policy", ":policy">>)>>, "body")

ilmExplainLifecycleApi == Method({":index"}, <<GET(<<":index", "_ilm", "explain">>)>>, "none")

ilmGetLifecycleApi ==
  Method({}, <<GET(<<"_ilm", "policy", ":policy">>), GET(<<"_ilm", "policy">>)>>, "none")

ilmGetStatusApi == Method({}, <<GET(<<"_ilm", "status">>)>>, "none")

ilmMoveToStepApi == Method({":index"}, <<POST(<<"_ilm", "move", ":index">>)>>, "body")

ilmPutLifecycleApi == Method({":policy"}, <<PUT(<<"_ilm", "policy", ":policy">>)>>, "body")

ilmRemovePolicyApi == Method({":index"}, <<POST(<<":index", "_ilm", "remove">>)>>, "body")

ilmRetryApi == Method({":index"}, <<POST(<<":index", "_ilm", "retry">>)>>, "body")

ilmStartApi == Method({}, <<POST(<<"_ilm", "start">>)>>, "body")

ilmStopApi == Method({}, <<POST(<<"_ilm", "stop">>)>>, "body")

IlmApi ==
  {ilmDeleteLifecycleApi, ilmExplainLifecycleApi, ilmGetLifecycleApi, ilmGetStatusApi,
   ilmMoveToStepApi, ilmPutLifecycleApi, ilmRemovePolicyApi, ilmRetryApi, ilmStartApi,
   ilmStopApi}

-----------------------------------------------------------------------------
rollupDeleteJobApi == Method({":id"}, <<DELETE(<<"_rollup", "job", ":id">>)>>, "body")

rollupGetJobsApi ==
  Method({}, <<GET(<<"_rollup", "job", ":id">>), GET(<<"_rollup", "job">>)>>, "none")

rollupGetRollupCapsApi ==
  Method({}, <<GET(<<"_rollup", "data", ":id">>), GET(<<"_rollup", "data">>)>>, "none")

rollupGetRollupIndexCapsApi == Method({":index"}, <<GET(<<":index", "_rollup", "data">>)>>, "none")

rollupPutJobApi == Method({":id", "body"}, <<PUT(<<"_rollup", "job", ":id">>)>>, "body")

rollupRollupApi ==
  Validated({":index", ":rollup_index", "body"}, {Needs(":rollup_index", {":index"})},
            <<POST(<<":index", "_rollup", ":rollup_index">>)>>, "body")

rollupRollupSearchApi ==
  Validated({":index", "body"}, {Needs(":type", {":index"})},
            <<GETorPOST(<<":index", ":type", "_rollup_search">>),
              GETorPOST(<<":index", "_rollup_search">>)>>, "body")

rollupStartJobApi == Method({":id"}, <<POST(<<"_rollup", "job", ":id", "_start">>)>>, "body")

rollupStopJobApi == Method({":id"}, <<POST(<<"_rollup", "job", ":id", "_stop">>)>>, "body")

RollupApi ==
  {rollupDeleteJobApi, rollupGetJobsApi, rollupGetRollupCapsApi, rollupGetRollupIndexCapsApi,
   rollupPutJobApi, rollupRollupApi, rollupRollupSearchApi, rollupStartJobApi, rollupStopJobApi}

-----------------------------------------------------------------------------
searchableSnapshotsClearCacheApi ==
  Method({},
         <<POST(<<":index", "_searchable_snapshots", "cache", "clear">>),
           POST(<<"_searchable_snapshots", "cache", "clear">>)>>, "body")

searchableSnapshotsMountApi ==
  Validated({":repository", ":snapshot", "body"}, {Needs(":snapshot", {":repository"})},
            <<POST(<<"_snapshot", ":repository", ":snapshot", "_mount">>)>>, "body")

searchableSnapshotsStatsApi ==
  Method({},
         <<GET(<<":index", "_searchable_snapshots", "stats">>),
           GET(<<"_searchable_snapshots", "stats">>)>>, "none")

SearchableSnapshotsApi ==
  {searchableSnapshotsClearCacheApi, searchableSnapshotsMountApi, searchableSnapshotsStatsApi}

-----------------------------------------------------------------------------
slmDeleteLifecycleApi ==
  Method({":policy_id"}, <<DELETE(<<"_slm", "policy", ":policy_id">>)>>, "body")

slmExecuteLifecycleApi ==
  Method({":policy_id"}, <<PUT(<<"_slm", "policy", ":policy_id", "_execute">>)>>, "body")

slmExecuteRetentionApi == Method({}, <<POST(<<"_slm", "_execute_retention">>)>>, "body")

slmGetLifecycleApi ==
  Method({}, <<GET(<<"_slm", "policy", ":policy_id">>), GET(<<"_slm", "policy">>)>>, "none")

slmGetStatsApi == Method({}, <<GET(<<"_slm", "stats">>)>>, "none")

slmGetStatusApi == Method({}, <<GET(<<"_slm", "status">>)>>, "none")

slmPutLifecycleApi == Method({":policy_id"}, <<PUT(<<"_slm", "policy", ":policy_id">>)>>, "body")

slmStartApi == Method({}, <<POST(<<"_slm", "start">>)>>, "body")

slmStopApi == Method({}, <<POST(<<"_slm", "stop">>)>>, "body")

SlmApi ==
  {slmDeleteLifecycleApi, slmExecuteLifecycleApi, slmExecuteRetentionApi, slmGetLifecycleApi,
   slmGetStatsApi, slmGetStatusApi, slmPutLifecycleApi, slmStartApi, slmStopApi}

-----------------------------------------------------------------------------
transformDeleteTransformApi ==
  Method({":transform_id"}, <<DELETE(<<"_transform", ":transform_id">>)>>, "body")

transformGetTransformApi ==
  Method({}, <<GET(<<"_transform", ":transform_id">>), GET(<<"_transform">>)>>, "none")

transformGetTransformStatsApi ==
  Method({":transform_id"}, <<GET(<<"_transform", ":transform_id", "_stats">>)>>, "none")

transformPreviewTransformApi == Method({"body"}, <<POST(<<"_transform", "_preview">>)>>, "body")

transformPutTransformApi ==
  Method({":transform_id", "body"}, <<PUT(<<"_transform", ":transform_id">>)>>, "body")

transformStartTransformApi ==
  Method({":transform_id"}, <<POST(<<"_transform", ":transform_id", "_start">>)>>, "body")

transformStopTransformApi ==
  Method({":transform_id"}, <<POST(<<"_transform", ":transform_id", "_stop">>)>>, "body")

transformUpdateTransformApi ==
  Method({":transform_id", "body"},
         <<POST(<<"_transform", ":transform_id", "_update">>)>>, "body")

TransformApi ==
  {transformDeleteTransformApi, transformGetTransformApi, transformGetTransformStatsApi,
   transformPreviewTransformApi, transformPutTransformApi, transformStartTransformApi,
   transformStopTransformApi, transformUpdateTransformApi}

-----------------------------------------------------------------------------
autoscalingDeleteAutoscalingPolicyApi ==
  Method({":name"}, <<DELETE(<<"_autoscaling", "policy", ":name">>)>>, "body")

autoscalingGetAutoscalingCapacityApi == Method({}, <<GET(<<"_autoscaling", "capacity">>)>>, "none")

autoscalingGetAutoscalingPolicyApi ==
  Method({":name"}, <<GET(<<"_autoscaling", "policy", ":name">>)>>, "none")

autoscalingPutAutoscalingPolicyApi ==
  Method({":name", "body"}, <<PUT(<<"_autoscaling", "policy", ":name">>)>>, "body")

AutoscalingApi ==
  {autoscalingDeleteAutoscalingPolicyApi, autoscalingGetAutoscalingCapacityApi,
   autoscalingGetAutoscalingPolicyApi, autoscalingPutAutoscalingPolicyApi}

-----------------------------------------------------------------------------
migrationDeprecationsApi ==
  Method({},
         <<GET(<<":index", "_migration", "deprecations">>),
           GET(<<"_migration", "deprecations">>)>>, "none")

MigrationApi ==
  {migrationDeprecationsApi}

=============================================================================
