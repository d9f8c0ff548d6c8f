---------------------------- MODULE ApiIndices ----------------------------
(***************************************************************************)
(* What the methods of client.indices send: a definition for each method,  *)
(* and the methods of each namespace.  See ApiOps.                         *)
(***************************************************************************)
EXTENDS ApiOps

-----------------------------------------------------------------------------
indicesAddBlockApi ==
  Validated({":index", ":block"}, {Needs(":block", {":index"})},
            <<PUT(<<":index", "_block", ":block">>)>>, "body")

indicesAnalyzeApi ==
  Method({}, <<GETorPOST(<<":index", "_analyze">>), GETorPOST(<<"_analyze">>)>>, "body")

indicesClearCacheApi ==
  Method({}, <<POST(<<":index", "_cache", "clear">>), POST(<<"_cache", "clear">>)>>, "body")

indicesCloneApi ==
  Validated({":index", ":target"}, {Needs(":target", {":index"})},
            <<PUT(<<":index", "_clone", ":target">>)>>, "body")

indicesCloseApi == Method({":index"}, <<POST(<<":index", "_close">>)>>, "body")

indicesCreateApi == Method({":index"}, <<PUT(<<":index">>)>>, "body")

indicesDeleteApi == Method({":index"}, <<DELETE(<<":index">>)>>, "body")

indicesDeleteAliasApi ==
  Validated({":index", ":name"}, {Needs(":name", {":index"})},
            <<DELETE(<<":index", "_alias", ":name">>),
              DELETE(<<":index", "_aliases", ":name">>)>>, "body")

indicesDeleteIndexTemplateApi ==
  Method({":name"}, <<DELETE(<<"_index_template", ":name">>)>>, "body")

indicesDeleteTemplateApi == Method({":name"}, <<DELETE(<<"_template", ":name">>)>>, "body")

indicesExistsApi == Method({":index"}, <<HEAD(<<":index">>)>>, "none")

indicesExistsAliasApi ==
  Method({":name"},
         <<HEAD(<<":index", "_alias", ":name">>),
           HEAD(<<"_alias", ":name">>)>>, "none")

indicesExistsIndexTemplateApi == Method({":name"}, <<HEAD(<<"_index_template", ":name">>)>>, "none")

indicesExistsTemplateApi == Method({":name"}, <<HEAD(<<"_template", ":name">>)>>, "none")

indicesExistsTypeApi ==
  Validated({":index", ":type"}, {Needs(":type", {":index"})},
            <<HEAD(<<":index", "_mapping", ":type">>)>>, "none")

indicesFlushApi ==
  Method({}, <<GETorPOST(<<":index", "_flush">>), GETorPOST(<<"_flush">>)>>, "body")

indicesForcemergeApi ==
  Method({}, <<POST(<<":index", "_forcemerge">>), POST(<<"_forcemerge">>)>>, "body")

indicesGetApi == Method({":index"}, <<GET(<<":index">>)>>, "none")

indicesGetAliasApi ==
  Method({},
         <<GET(<<":index", "_alias", ":name">>),
           GET(<<"_alias", ":name">>),
           GET(<<":index", "_alias">>),
           GET(<<"_alias">>)>>, "none")

indicesGetFieldMappingApi ==
  Method({":fields"},
         <<GET(<<":index", "_mapping", "field", ":fields">>),
           GET(<<"_mapping", "field", ":fields">>)>>, "none")

indicesGetIndexTemplateApi ==
  Method({}, <<GET(<<"_index_template", ":name">>), GET(<<"_index_template">>)>>, "none")

indicesGetMappingApi == Method({}, <<GET(<<":index", "_mapping">>), GET(<<"_mapping">>)>>, "none")

indicesGetSettingsApi ==
  Method({},
         <<GET(<<":index", "_settings", ":name">>),
           GET(<<":index", "_settings">>),
           GET(<<"_settings", ":name">>),
           GET(<<"_settings">>)>>, "none")

indicesGetTemplateApi == Method({}, <<GET(<<"_template", ":name">>), GET(<<"_template">>)>>, "none")

indicesOpenApi == Method({":index"}, <<POST(<<":index", "_open">>)>>, "body")

indicesPutAliasApi ==
  Validated({":index", ":name"}, {Needs(":name", {":index"})},
            <<PUT(<<":index", "_alias", ":name">>),
              PUT(<<":index", "_aliases", ":name">>)>>, "body")

indicesPutIndexTemplateApi ==
  Method({":name", "body"}, <<PUT(<<"_index_template", ":name">>)>>, "body")

indicesPutMappingApi == Method({":index", "body"}, <<PUT(<<":index", "_mapping">>)>>, "body")

indicesPutSettingsApi ==
  Method({"body"}, <<PUT(<<":index", "_settings">>), PUT(<<"_settings">>)>>, "body")

indicesPutTemplateApi == Method({":name", "body"}, <<PUT(<<"_template", ":name">>)>>, "body")

indicesRecoveryApi == Method({}, <<GET(<<":index", "_recovery">>), GET(<<"_recovery">>)>>, "none")

indicesRefreshApi ==
  Method({}, <<GETorPOST(<<":index", "_refresh">>), GETorPOST(<<"_refresh">>)>>, "body")

indicesResolveIndexApi == Method({":name"}, <<GET(<<"_resolve", "index", ":name">>)>>, "none")

indicesRolloverApi ==
  Validated({":alias"}, {Needs(":new_index", {":alias"})},
            <<POST(<<":alias", "_rollover", ":new_index">>),
              POST(<<":alias", "_rollover">>)>>, "body")

indicesSegmentsApi == Method({}, <<GET(<<":index", "_segments">>), GET(<<"_segments">>)>>, "none")

indicesShardStoresApi ==
  Method({}, <<GET(<<":index", "_shard_stores">>), GET(<<"_shard_stores">>)>>, "none")

indicesShrinkApi ==
  Validated({":index", ":target"}, {Needs(":target", {":index"})},
            <<PUT(<<":index", "_shrink", ":target">>)>>, "body")

indicesSimulateIndexTemplateApi ==
  Method({":name"}, <<POST(<<"_index_template", "_simulate_index", ":name">>)>>, "body")

indicesSimulateTemplateApi ==
  Method({},
         <<POST(<<"_index_template", "_simulate", ":name">>),
           POST(<<"_index_template", "_simulate">>)>>, "body")

indicesSplitApi ==
  Validated({":index", ":target"}, {Needs(":target", {":index"})},
            <<PUT(<<":index", "_split", ":target">>)>>, "body")

indicesStatsApi ==
  Method({},
         <<GET(<<":index", "_stats", ":metric">>),
           GET(<<"_stats", ":metric">>),
           GET(<<":index", "_stats">>),
           GET(<<"_stats">>)>>, "none")

indicesUpdateAliasesApi == Method({"body"}, <<POST(<<"_aliases">>)>>, "body")

indicesValidateQueryApi ==
  Validated({}, {Needs(":type", {":index"})},
            <<GETorPOST(<<":index", ":type", "_validate", "query">>),
              GETorPOST(<<":index", "_validate", "query">>),
              GETorPOST(<<"_validate", "query">>)>>, "body")

indicesCreateDataStreamApi == Method({":name"}, <<PUT(<<"_data_stream", ":name">>)>>, "body")

indicesDataStreamsStatsApi ==
  Method({},
         <<GET(<<"_data_stream", ":name", "_stats">>),
           GET(<<"_data_stream", "_stats">>)>>, "none")

indicesDeleteDataStreamApi == Method({":name"}, <<DELETE(<<"_data_stream", ":name">>)>>, "body")

indicesFreezeApi == Method({":index"}, <<POST(<<":index", "_freeze">>)>>, "body")

indicesGetDataStreamApi ==
  Method({}, <<GET(<<"_data_stream", ":name">>), GET(<<"_data_stream">>)>>, "none")

indicesMigrateToDataStreamApi ==
  Method({":name"}, <<POST(<<"_data_stream", "_migrate", ":name">>)>>, "body")

indicesPromoteDataStreamApi ==
  Method({":name"}, <<POST(<<"_data_stream", "_promote", ":name">>)>>, "body")

indicesReloadSearchAnalyzersApi ==
  Method({":index"}, <<GETorPOST(<<":index", "_reload_search_analyzers">>)>>, "body")

indicesUnfreezeApi == Method({":index"}, <<POST(<<":index", "_unfreeze">>)>>, "body")

IndicesApi ==
  {indicesAddBlockApi, indicesAnalyzeApi, indicesClearCacheApi, indicesCloneApi,
   indicesCloseApi, indicesCreateApi, indicesDeleteApi, indicesDeleteAliasApi,
   indicesDeleteIndexTemplateApi, indicesDeleteTemplateApi, indicesExistsApi,
   indicesExistsAliasApi, indicesExistsIndexTemplateApi, indicesExistsTemplateApi,
   indicesExistsTypeApi, indicesFlushApi, indicesForcemergeApi, indicesGetApi,
   indicesGetAliasApi, indicesGetFieldMappingApi, indicesGetIndexTemplateApi,
   indicesGetMappingApi, indicesGetSettingsApi, indicesGetTemplateApi, indicesOpenApi,
   indicesPutAliasApi, indicesPutIndexTemplateApi, indicesPutMappingApi, indicesPutSettingsApi,
   indicesPutTemplateApi, indicesRecoveryApi, indicesRefreshApi, indicesResolveIndexApi,
   indicesRolloverApi, indicesSegmentsApi, indicesShardStoresApi, indicesShrinkApi,
   indicesSimulateIndexTemplateApi, indicesSimulateTemplateApi, indicesSplitApi,
   indicesStatsApi, indicesUpdateAliasesApi, indicesValidateQueryApi,
   indicesCreateDataStreamApi, indicesDataStreamsStatsApi, indicesDeleteDataStreamApi,
   indicesFreezeApi, indicesGetDataStreamApi, indicesMigrateToDataStreamApi,
   indicesPromoteDataStreamApi, indicesReloadSearchAnalyzersApi, indicesUnfreezeApi}

=============================================================================
