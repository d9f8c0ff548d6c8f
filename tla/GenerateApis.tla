---------------------------- MODULE GenerateApis ----------------------------
(***************************************************************************)
(* The API of a client, and how the generator derives the checks and the   *)
(* body of a method from the specification of the REST API.  That          *)
(* specification is not kept in the repository; the urls of a method are   *)
(* the paths it had.                                                       *)
(***************************************************************************)
EXTENDS ApiDocuments, ApiIndices, ApiCluster, ApiMl, ApiSecurity, ApiData, ApiSearch,
        FiniteSets, SequencesExt

\* The namespaces of a client, and its own methods.
ESAPI ==
  [client |-> DocumentMethods, indices |-> IndicesApi,
   cat |-> CatApi, cluster |-> ClusterApi, nodes |-> NodesApi, tasks |-> TasksApi,
   snapshot |-> SnapshotApi, ingest |-> IngestApi, danglingIndices |-> DanglingIndicesApi,
   ml |-> MlApi, textStructure |-> TextStructureApi,
   security |-> SecurityApi, license |-> LicenseApi, ssl |-> SslApi,
   ccr |-> CcrApi, enrich |-> EnrichApi, ilm |-> IlmApi, rollup |-> RollupApi,
   searchableSnapshots |-> SearchableSnapshotsApi, slm |-> SlmApi, transform |-> TransformApi,
   autoscaling |-> AutoscalingApi, migration |-> MigrationApi,
   asyncSearch |-> AsyncSearchApi, eql |-> EqlApi, graph |-> GraphApi, sql |-> SqlApi,
   watcher |-> WatcherApi, monitoring |-> MonitoringApi, xpack |-> XpackApi]

\* The methods whose url parts may be given in any combination.
NoPathValidation ==
  {createApi, existsApi, explainApi, getApi, getSourceApi, indexApi, indicesGetAliasApi,
   indicesExistsAliasApi, indicesGetFieldMappingApi, indicesGetMappingApi,
   indicesGetSettingsApi, indicesPutMappingApi, indicesStatsApi, deleteApi, nodesInfoApi,
   nodesStatsApi, nodesUsageApi, tasksCancelApi, termvectorsApi, updateApi}

NdjsonApi == {bulkApi, msearchApi, msearchTemplateApi, monitoringBulkApi}

\* The parts that all paths have: none if there is a static path.
RequiredParts(paths) ==
  {part \in UNION {PartsOf(path) : path \in paths} : \A path \in paths : part \in PartsOf(path)}

\* A part of the longest path requires all that stand before it.
GenUrlValidation(paths) ==
  LET longest == CHOOSE path \in paths :
                   \A other \in paths : Cardinality(PartsOf(other)) <= Cardinality(PartsOf(path))
      chunks == SelectSeq(longest.path, LAMBDA segment : segment \in PartNames)
  IN  {Needs(chunks[k], {chunks[j] : j \in 1 .. (k - 1)}) : k \in 2 .. Len(chunks)}

\* The paths with more parts come first.
SortedPaths(urls) ==
  \A i, j \in DOMAIN urls : i < j => Cardinality(PartsOf(urls[j])) <= Cardinality(PartsOf(urls[i]))

\* Mutation of GenBody: a DELETE has none.
GenBodyOfWrites(m) ==
  CASE m \in NdjsonApi -> "bulkBody"
    [] UNION {url.methods : url \in UrlsOf(m)} \cap {"POST", "PUT"} # {} -> "body"
    [] OTHER -> "none"

\* A body is passed on if some path has a verb that may have one.
GenBody(m) ==
  CASE m \in NdjsonApi -> "bulkBody"
    [] UNION {url.methods : url \in UrlsOf(m)} \cap {"POST", "PUT", "DELETE"} # {} -> "body"
    [] OTHER -> "none"

\* The checks of the method the generator would write.
GenRefuses(m, args) ==
  LET required == RequiredParts(UrlsOf(m)) \cup (m.required \ PartNames)
      needs == IF m \in NoPathValidation THEN {} ELSE GenUrlValidation(UrlsOf(m))
  IN  Refused([required |-> required, needs |-> needs], args)
=============================================================================
