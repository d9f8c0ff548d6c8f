---------------------------- MODULE ApiSearch -----------------------------
(***************************************************************************)
(* What the methods of client.asyncSearch, eql, graph, sql, watcher,       *)
(* monitoring, xpack send: a definition for each method, and the methods   *)
(* of each namespace.  See ApiOps.                                         *)
(***************************************************************************)
EXTENDS ApiOps

-----------------------------------------------------------------------------
asyncSearchDeleteApi == Method({":id"}, <<DELETE(<<"_async_search", ":id">>)>>, "body")

asyncSearchGetApi == Method({":id"}, <<GET(<<"_async_search", ":id">>)>>, "none")

asyncSearchStatusApi == Method({":id"}, <<GET(<<"_async_search", "status", ":id">>)>>, "none")

asyncSearchSubmitApi ==
  Method({}, <<POST(<<":index", "_async_search">>), POST(<<"_async_search">>)>>, "body")

AsyncSearchApi ==
  {asyncSearchDeleteApi, asyncSearchGetApi, asyncSearchStatusApi, asyncSearchSubmitApi}

-----------------------------------------------------------------------------
eqlDeleteApi == Method({":id"}, <<DELETE(<<"_eql", "search", ":id">>)>>, "body")

eqlGetApi == Method({":id"}, <<GET(<<"_eql", "search", ":id">>)>>, "none")

eqlSearchApi == Method({":index", "body"}, <<GETorPOST(<<":index", "_eql", "search">>)>>, "body")

EqlApi ==
  {eqlDeleteApi, eqlGetApi, eqlSearchApi}

-----------------------------------------------------------------------------
graphExploreApi == Method({":index"}, <<GETorPOST(<<":index", "_graph", "explore">>)>>, "body")

GraphApi ==
  {graphExploreApi}

-----------------------------------------------------------------------------
sqlClearCursorApi == Method({"body"}, <<POST(<<"_sql", "close">>)>>, "body")

sqlQueryApi == Method({"body"}, <<GETorPOST(<<"_sql">>)>>, "body")

sqlTranslateApi == Method({"body"}, <<GETorPOST(<<"_sql", "translate">>)>>, "body")

SqlApi ==
  {sqlClearCursorApi, sqlQueryApi, sqlTranslateApi}

-----------------------------------------------------------------------------
watcherAckWatchApi ==
  Validated({":watch_id"}, {Needs(":action_id", {":watch_id"})},
            <<PUT(<<"_watcher", "watch", ":watch_id", "_ack", ":action_id">>),
              PUT(<<"_watcher", "watch", ":watch_id", "_ack">>)>>, "body")

watcherActivateWatchApi ==
  Method({":watch_id"}, <<PUT(<<"_watcher", "watch", ":watch_id", "_activate">>)>>, "body")

watcherDeactivateWatchApi ==
  Method({":watch_id"}, <<PUT(<<"_watcher", "watch", ":watch_id", "_deactivate">>)>>, "body")

watcherDeleteWatchApi == Method({":id"}, <<DELETE(<<"_watcher", "watch", ":id">>)>>, "body")

watcherExecuteWatchApi ==
  Method({},
         <<PUT(<<"_watcher", "watch", ":id", "_execute">>),
           PUT(<<"_watcher", "watch", "_execute">>)>>, "body")

watcherGetWatchApi == Method({":id"}, <<GET(<<"_watcher", "watch", ":id">>)>>, "none")

watcherPutWatchApi == Method({":id"}, <<PUT(<<"_watcher", "watch", ":id">>)>>, "body")

watcherQueryWatchesApi == Method({}, <<GETorPOST(<<"_watcher", "_query", "watches">>)>>, "body")

watcherStartApi == Method({}, <<POST(<<"_watcher", "_start">>)>>, "body")

watcherStatsApi ==
  Method({}, <<GET(<<"_watcher", "stats", ":metric">>), GET(<<"_watcher", "stats">>)>>, "none")

watcherStopApi == Method({}, <<POST(<<"_watcher", "_stop">>)>>, "body")

WatcherApi ==
  {watcherAckWatchApi, watcherActivateWatchApi, watcherDeactivateWatchApi,
   watcherDeleteWatchApi, watcherExecuteWatchApi, watcherGetWatchApi, watcherPutWatchApi,
   watcherQueryWatchesApi, watcherStartApi, watcherStatsApi, watcherStopApi}

-----------------------------------------------------------------------------
monitoringBulkApi ==
  Method({"body"},
         <<POST(<<"_monitoring", ":type", "bulk">>),
           POST(<<"_monitoring", "bulk">>)>>, "bulkBody")

MonitoringApi ==
  {monitoringBulkApi}

-----------------------------------------------------------------------------
xpackInfoApi == Method({}, <<GET(<<"_xpack">>)>>, "none")

xpackUsageApi == Method({}, <<GET(<<"_xpack", "usage">>)>>, "none")

XpackApi ==
  {xpackInfoApi, xpackUsageApi}

=============================================================================
