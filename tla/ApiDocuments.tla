--------------------------- MODULE ApiDocuments ---------------------------
(***************************************************************************)
(* What the methods of the client itself: documents, searches, scripts     *)
(* send: a definition for each method of api/api/, see ApiOps.             *)
(***************************************************************************)
EXTENDS ApiOps

bulkApi ==
  Validated({"body"}, {Needs(":type", {":index"})},
            <<POST(<<":index", ":type", "_bulk">>),
              POST(<<":index", "_bulk">>),
              POST(<<"_bulk">>)>>, "bulkBody")

clearScrollApi ==
  Method({},
         <<DELETE(<<"_search", "scroll", ":scroll_id">>),
           DELETE(<<"_search", "scroll">>)>>, "body")

closePointInTimeApi == Method({}, <<DELETE(<<"_pit">>)>>, "body")

countApi == Method({}, <<GETorPOST(<<":index", "_count">>), GETorPOST(<<"_count">>)>>, "body")

createApi ==
  Method({":id", ":index", "body"},
         <<PUT(<<":index", ":type", ":id", "_create">>),
           PUT(<<":index", "_create", ":id">>)>>, "body")

deleteApi ==
  Method({":id", ":index"},
         <<DELETE(<<":index", ":type", ":id">>),
           DELETE(<<":index", "_doc", ":id">>)>>, "body")

deleteByQueryApi == Method({":index", "body"}, <<POST(<<":index", "_delete_by_query">>)>>, "body")

deleteByQueryRethrottleApi ==
  Method({":task_id", "requests_per_second"},
         <<POST(<<"_delete_by_query", ":task_id", "_rethrottle">>)>>, "body")

deleteScriptApi == Method({":id"}, <<DELETE(<<"_scripts", ":id">>)>>, "body")

existsApi == Method({":id", ":index"}, <<HEAD(<<":index", "_doc", ":id">>)>>, "none")

existsSourceApi ==
  Validated({":id", ":index"}, {Needs(":id", {":index", ":type"}), Needs(":type", {":index"})},
            <<HEAD(<<":index", ":type", ":id", "_source">>),
              HEAD(<<":index", "_source", ":id">>)>>, "none")

explainApi == Method({":id", ":index"}, <<GETorPOST(<<":index", "_explain", ":id">>)>>, "body")

fieldCapsApi ==
  Method({}, <<GETorPOST(<<":index", "_field_caps">>), GETorPOST(<<"_field_caps">>)>>, "body")

getApi == Method({":id", ":index"}, <<GET(<<":index", "_doc", ":id">>)>>, "none")

getScriptApi == Method({":id"}, <<GET(<<"_scripts", ":id">>)>>, "none")

getScriptContextApi == Method({}, <<GET(<<"_script_context">>)>>, "none")

getScriptLanguagesApi == Method({}, <<GET(<<"_script_language">>)>>, "none")

getSourceApi == Method({":id", ":index"}, <<GET(<<":index", "_source", ":id">>)>>, "none")

indexApi ==
  Method({":index", "body"},
         <<PUT(<<":index", "_doc", ":id">>),
           POST(<<":index", "_doc">>)>>, "body")

infoApi == Method({}, <<GET(<<>>)>>, "none")

mgetApi == Method({"body"}, <<GETorPOST(<<":index", "_mget">>), GETorPOST(<<"_mget">>)>>, "body")

msearchApi ==
  Method({"body"}, <<GETorPOST(<<":index", "_msearch">>), GETorPOST(<<"_msearch">>)>>, "bulkBody")

msearchTemplateApi ==
  Method({"body"},
         <<GETorPOST(<<":index", "_msearch", "template">>),
           GETorPOST(<<"_msearch", "template">>)>>, "bulkBody")

mtermvectorsApi ==
  Method({}, <<GETorPOST(<<":index", "_mtermvectors">>), GETorPOST(<<"_mtermvectors">>)>>, "body")

openPointInTimeApi == Method({}, <<POST(<<":index", "_pit">>), POST(<<"_pit">>)>>, "body")

pingApi == Method({}, <<HEAD(<<>>)>>, "none")

putScriptApi ==
  Validated({":id", "body"}, {Needs(":context", {":id"})},
            <<PUT(<<"_scripts", ":id", ":context">>),
              PUT(<<"_scripts", ":id">>)>>, "body")

rankEvalApi ==
  Method({"body"}, <<GETorPOST(<<":index", "_rank_eval">>), GETorPOST(<<"_rank_eval">>)>>, "body")

reindexApi == Method({"body"}, <<POST(<<"_reindex">>)>>, "body")

reindexRethrottleApi ==
  Method({":task_id", "requests_per_second"},
         <<POST(<<"_reindex", ":task_id", "_rethrottle">>)>>, "body")

renderSearchTemplateApi ==
  Method({},
         <<GETorPOST(<<"_render", "template", ":id">>),
           GETorPOST(<<"_render", "template">>)>>, "body")

scriptsPainlessExecuteApi ==
  Method({}, <<GETorPOST(<<"_scripts", "painless", "_execute">>)>>, "body")

scrollApi ==
  Method({},
         <<GETorPOST(<<"_search", "scroll", ":scroll_id">>),
           GETorPOST(<<"_search", "scroll">>)>>, "body")

searchApi == Method({}, <<GETorPOST(<<":index", "_search">>), GETorPOST(<<"_search">>)>>, "body")

searchShardsApi ==
  Method({},
         <<GETorPOST(<<":index", "_search_shards">>),
           GETorPOST(<<"_search_shards">>)>>, "body")

searchTemplateApi ==
  Method({"body"},
         <<GETorPOST(<<":index", "_search", "template">>),
           GETorPOST(<<"_search", "template">>)>>, "body")

termvectorsApi ==
  Method({":index"},
         <<GETorPOST(<<":index", "_termvectors", ":id">>),
           GETorPOST(<<":index", "_termvectors">>)>>, "body")

updateApi ==
  Method({":id", ":index", "body"},
         <<POST(<<":index", ":type", ":id", "_update">>),
           POST(<<":index", "_update", ":id">>)>>, "body")

updateByQueryApi == Method({":index"}, <<POST(<<":index", "_update_by_query">>)>>, "body")

updateByQueryRethrottleApi ==
  Method({":task_id", "requests_per_second"},
         <<POST(<<"_update_by_query", ":task_id", "_rethrottle">>)>>, "body")

DocumentMethods ==
  {bulkApi, clearScrollApi, closePointInTimeApi, countApi, createApi, deleteApi,
   deleteByQueryApi, deleteByQueryRethrottleApi, deleteScriptApi, existsApi, existsSourceApi,
   explainApi, fieldCapsApi, getApi, getScriptApi, getScriptContextApi, getScriptLanguagesApi,
   getSourceApi, indexApi, infoApi, mgetApi, msearchApi, msearchTemplateApi, mtermvectorsApi,
   openPointInTimeApi, pingApi, putScriptApi, rankEvalApi, reindexApi, reindexRethrottleApi,
   renderSearchTemplateApi, scriptsPainlessExecuteApi, scrollApi, searchApi, searchShardsApi,
   searchTemplateApi, termvectorsApi, updateApi, updateByQueryApi, updateByQueryRethrottleApi}
=============================================================================
