------------------------------ MODULE ApiMl -------------------------------
(***************************************************************************)
(* What the methods of client.ml and textStructure send: a definition for  *)
(* each method, and the methods of each namespace.  See ApiOps.            *)
(***************************************************************************)
EXTENDS ApiOps

-----------------------------------------------------------------------------
mlCloseJobApi ==
  Method({":job_id"}, <<POST(<<"_ml", "anomaly_detectors", ":job_id", "_close">>)>>, "body")

mlDeleteCalendarApi ==
  Method({":calendar_id"}, <<DELETE(<<"_ml", "calendars", ":calendar_id">>)>>, "body")

mlDeleteCalendarEventApi ==
  Validated({":calendar_id", ":event_id"}, {Needs(":event_id", {":calendar_id"})},
            <<DELETE(<<"_ml", "calendars", ":calendar_id", "events", ":event_id">>)>>, "body")

mlDeleteCalendarJobApi ==
  Validated({":calendar_id", ":job_id"}, {Needs(":job_id", {":calendar_id"})},
            <<DELETE(<<"_ml", "calendars", ":calendar_id", "jobs", ":job_id">>)>>, "body")

mlDeleteDataFrameAnalyticsApi ==
  Method({":id"}, <<DELETE(<<"_ml", "data_frame", "analytics", ":id">>)>>, "body")

mlDeleteDatafeedApi ==
  Method({":datafeed_id"}, <<DELETE(<<"_ml", "datafeeds", ":datafeed_id">>)>>, "body")

mlDeleteExpiredDataApi ==
  Method({},
         <<DELETE(<<"_ml", "_delete_expired_data", ":job_id">>),
           DELETE(<<"_ml", "_delete_expired_data">>)>>, "body")

mlDeleteFilterApi == Method({":filter_id"}, <<DELETE(<<"_ml", "filters", ":filter_id">>)>>, "body")

mlDeleteForecastApi ==
  Validated({":job_id"}, {Needs(":forecast_id", {":job_id"})},
            <<DELETE(<<"_ml", "anomaly_detectors", ":job_id", "_forecast", ":forecast_id">>),
              DELETE(<<"_ml", "anomaly_detectors", ":job_id", "_forecast">>)>>, "body")

mlDeleteJobApi == Method({":job_id"}, <<DELETE(<<"_ml", "anomaly_detectors", ":job_id">>)>>, "body")

mlDeleteModelSnapshotApi ==
  Validated({":job_id", ":snapshot_id"}, {Needs(":snapshot_id", {":job_id"})},
            <<DELETE(<<"_ml", "anomaly_detectors", ":job_id", "model_snapshots",
                       ":snapshot_id">>)>>, "body")

mlDeleteTrainedModelApi ==
  Method({":model_id"}, <<DELETE(<<"_ml", "trained_models", ":model_id">>)>>, "body")

mlEstimateModelMemoryApi ==
  Method({"body"}, <<POST(<<"_ml", "anomaly_detectors", "_estimate_model_memory">>)>>, "body")

mlEvaluateDataFrameApi == Method({"body"}, <<POST(<<"_ml", "data_frame", "_evaluate">>)>>, "body")

mlExplainDataFrameAnalyticsApi ==
  Method({},
         <<GETorPOST(<<"_ml", "data_frame", "analytics", ":id", "_explain">>),
           GETorPOST(<<"_ml", "data_frame", "analytics", "_explain">>)>>, "body")

mlFlushJobApi ==
  Method({":job_id"}, <<POST(<<"_ml", "anomaly_detectors", ":job_id", "_flush">>)>>, "body")

mlForecastApi ==
  Method({":job_id"}, <<POST(<<"_ml", "anomaly_detectors", ":job_id", "_forecast">>)>>, "body")

mlGetBucketsApi ==
  Validated({":job_id"}, {Needs(":timestamp", {":job_id"})},
            <<GETorPOST(<<"_ml", "anomaly_detectors", ":job_id", "results", "buckets",
                          ":timestamp">>),
              GETorPOST(<<"_ml", "anomaly_detectors", ":job_id", "results", "buckets">>)>>, "body")

mlGetCalendarEventsApi ==
  Method({":calendar_id"}, <<GET(<<"_ml", "calendars", ":calendar_id", "events">>)>>, "none")

mlGetCalendarsApi ==
  Method({},
         <<GETorPOST(<<"_ml", "calendars", ":calendar_id">>),
           GETorPOST(<<"_ml", "calendars">>)>>, "body")

mlGetCategoriesApi ==
  Validated({":job_id"}, {Needs(":category_id", {":job_id"})},
            <<GETorPOST(<<"_ml", "anomaly_detectors", ":job_id", "results", "categories",
                          ":category_id">>),
              GETorPOST(<<"_ml", "anomaly_detectors", ":job_id", "results", "categories">>)>>,
            "body")

mlGetDataFrameAnalyticsApi ==
  Method({},
         <<GET(<<"_ml", "data_frame", "analytics", ":id">>),
           GET(<<"_ml", "data_frame", "analytics">>)>>, "none")

mlGetDataFrameAnalyticsStatsApi ==
  Method({},
         <<GET(<<"_ml", "data_frame", "analytics", ":id", "_stats">>),
           GET(<<"_ml", "data_frame", "analytics", "_stats">>)>>, "none")

mlGetDatafeedStatsApi ==
  Method({},
         <<GET(<<"_ml", "datafeeds", ":datafeed_id", "_stats">>),
           GET(<<"_ml", "datafeeds", "_stats">>)>>, "none")

mlGetDatafeedsApi ==
  Method({}, <<GET(<<"_ml", "datafeeds", ":datafeed_id">>), GET(<<"_ml", "datafeeds">>)>>, "none")

mlGetFiltersApi ==
  Method({}, <<GET(<<"_ml", "filters", ":filter_id">>), GET(<<"_ml", "filters">>)>>, "none")

mlGetInfluencersApi ==
  Method({":job_id"},
         <<GETorPOST(<<"_ml", "anomaly_detectors", ":job_id", "results", "influencers">>)>>, "body")

mlGetJobStatsApi ==
  Method({},
         <<GET(<<"_ml", "anomaly_detectors", ":job_id", "_stats">>),
           GET(<<"_ml", "anomaly_detectors", "_stats">>)>>, "none")

mlGetJobsApi ==
  Method({},
         <<GET(<<"_ml", "anomaly_detectors", ":job_id">>),
           GET(<<"_ml", "anomaly_detectors">>)>>, "none")

mlGetModelSnapshotsApi ==
  Validated({":job_id"}, {Needs(":snapshot_id", {":job_id"})},
            <<GETorPOST(<<"_ml", "anomaly_detectors", ":job_id", "model_snapshots",
                          ":snapshot_id">>),
              GETorPOST(<<"_ml", "anomaly_detectors", ":job_id", "model_snapshots">>)>>, "body")

mlGetOverallBucketsApi ==
  Method({":job_id"},
         <<GETorPOST(<<"_ml", "anomaly_detectors", ":job_id", "results", "overall_buckets">>)>>,
         "body")

mlGetRecordsApi ==
  Method({":job_id"},
         <<GETorPOST(<<"_ml", "anomaly_detectors", ":job_id", "results", "records">>)>>, "body")

mlGetTrainedModelsApi ==
  Method({},
         <<GET(<<"_ml", "trained_models", ":model_id">>),
           GET(<<"_ml", "trained_models">>)>>, "none")

mlGetTrainedModelsStatsApi ==
  Method({},
         <<GET(<<"_ml", "trained_models", ":model_id", "_stats">>),
           GET(<<"_ml", "trained_models", "_stats">>)>>, "none")

mlInfoApi == Method({}, <<GET(<<"_ml", "info">>)>>, "none")

mlOpenJobApi ==
  Method({":job_id"}, <<POST(<<"_ml", "anomaly_detectors", ":job_id", "_open">>)>>, "body")

mlPostCalendarEventsApi ==
  Method({":calendar_id", "body"},
         <<POST(<<"_ml", "calendars", ":calendar_id", "events">>)>>, "body")

mlPostDataApi ==
  Method({":job_id", "body"},
         <<POST(<<"_ml", "anomaly_detectors", ":job_id", "_data">>)>>, "body")

mlPreviewDatafeedApi ==
  Method({":datafeed_id"}, <<GET(<<"_ml", "datafeeds", ":datafeed_id", "_preview">>)>>, "none")

mlPutCalendarApi ==
  Method({":calendar_id"}, <<PUT(<<"_ml", "calendars", ":calendar_id">>)>>, "body")

mlPutCalendarJobApi ==
  Validated({":calendar_id", ":job_id"}, {Needs(":job_id", {":calendar_id"})},
            <<PUT(<<"_ml", "calendars", ":calendar_id", "jobs", ":job_id">>)>>, "body")

mlPutDataFrameAnalyticsApi ==
  Method({":id", "body"}, <<PUT(<<"_ml", "data_frame", "analytics", ":id">>)>>, "body")

mlPutDatafeedApi ==
  Method({":datafeed_id", "body"}, <<PUT(<<"_ml", "datafeeds", ":datafeed_id">>)>>, "body")

mlPutFilterApi ==
  Method({":filter_id", "body"}, <<PUT(<<"_ml", "filters", ":filter_id">>)>>, "body")

mlPutJobApi ==
  Method({":job_id", "body"}, <<PUT(<<"_ml", "anomaly_detectors", ":job_id">>)>>, "body")

mlPutTrainedModelApi ==
  Method({":model_id", "body"}, <<PUT(<<"_ml", "trained_models", ":model_id">>)>>, "body")

mlRevertModelSnapshotApi ==
  Validated({":job_id", ":snapshot_id"}, {Needs(":snapshot_id", {":job_id"})},
            <<POST(<<"_ml", "anomaly_detectors", ":job_id", "model_snapshots", ":snapshot_id",
                     "_revert">>)>>, "body")

mlSetUpgradeModeApi == Method({}, <<POST(<<"_ml", "set_upgrade_mode">>)>>, "body")

mlStartDataFrameAnalyticsApi ==
  Method({":id"}, <<POST(<<"_ml", "data_frame", "analytics", ":id", "_start">>)>>, "body")

mlStartDatafeedApi ==
  Method({":datafeed_id"}, <<POST(<<"_ml", "datafeeds", ":datafeed_id", "_start">>)>>, "body")

mlStopDataFrameAnalyticsApi ==
  Method({":id"}, <<POST(<<"_ml", "data_frame", "analytics", ":id", "_stop">>)>>, "body")

mlStopDatafeedApi ==
  Method({":datafeed_id"}, <<POST(<<"_ml", "datafeeds", ":datafeed_id", "_stop">>)>>, "body")

mlUpdateDataFrameAnalyticsApi ==
  Method({":id", "body"},
         <<POST(<<"_ml", "data_frame", "analytics", ":id", "_update">>)>>, "body")

mlUpdateDatafeedApi ==
  Method({":datafeed_id", "body"},
         <<POST(<<"_ml", "datafeeds", ":datafeed_id", "_update">>)>>, "body")

mlUpdateFilterApi ==
  Method({":filter_id", "body"}, <<POST(<<"_ml", "filters", ":filter_id", "_update">>)>>, "body")

mlUpdateJobApi ==
  Method({":job_id", "body"},
         <<POST(<<"_ml", "anomaly_detectors", ":job_id", "_update">>)>>, "body")

mlUpdateModelSnapshotApi ==
  Validated({":job_id", ":snapshot_id", "body"}, {Needs(":snapshot_id", {":job_id"})},
            <<POST(<<"_ml", "anomaly_detectors", ":job_id", "model_snapshots", ":snapshot_id",
                     "_update">>)>>, "body")

mlUpgradeJobSnapshotApi ==
  Validated({":job_id", ":snapshot_id"}, {Needs(":snapshot_id", {":job_id"})},
            <<POST(<<"_ml", "anomaly_detectors", ":job_id", "model_snapshots", ":snapshot_id",
                     "_upgrade">>)>>, "body")

mlValidateApi == Method({"body"}, <<POST(<<"_ml", "anomaly_detectors", "_validate">>)>>, "body")

mlValidateDetectorApi ==
  Method({"body"}, <<POST(<<"_ml", "anomaly_detectors", "_validate", "detector">>)>>, "body")

MlApi ==
  {mlCloseJobApi, mlDeleteCalendarApi, mlDeleteCalendarEventApi, mlDeleteCalendarJobApi,
   mlDeleteDataFrameAnalyticsApi, mlDeleteDatafeedApi, mlDeleteExpiredDataApi,
   mlDeleteFilterApi, mlDeleteForecastApi, mlDeleteJobApi, mlDeleteModelSnapshotApi,
   mlDeleteTrainedModelApi, mlEstimateModelMemoryApi, mlEvaluateDataFrameApi,
   mlExplainDataFrameAnalyticsApi, mlFlushJobApi, mlForecastApi, mlGetBucketsApi,
   mlGetCalendarEventsApi, mlGetCalendarsApi, mlGetCategoriesApi, mlGetDataFrameAnalyticsApi,
   mlGetDataFrameAnalyticsStatsApi, mlGetDatafeedStatsApi, mlGetDatafeedsApi, mlGetFiltersApi,
   mlGetInfluencersApi, mlGetJobStatsApi, mlGetJobsApi, mlGetModelSnapshotsApi,
   mlGetOverallBucketsApi, mlGetRecordsApi, mlGetTrainedModelsApi, mlGetTrainedModelsStatsApi,
   mlInfoApi, mlOpenJobApi, mlPostCalendarEventsApi, mlPostDataApi, mlPreviewDatafeedApi,
   mlPutCalendarApi, mlPutCalendarJobApi, mlPutDataFrameAnalyticsApi, mlPutDatafeedApi,
   mlPutFilterApi, mlPutJobApi, mlPutTrainedModelApi, mlRevertModelSnapshotApi,
   mlSetUpgradeModeApi, mlStartDataFrameAnalyticsApi, mlStartDatafeedApi,
   mlStopDataFrameAnalyticsApi, mlStopDatafeedApi, mlUpdateDataFrameAnalyticsApi,
   mlUpdateDatafeedApi, mlUpdateFilterApi, mlUpdateJobApi, mlUpdateModelSnapshotApi,
   mlUpgradeJobSnapshotApi, mlValidateApi, mlValidateDetectorApi}

-----------------------------------------------------------------------------
textStructureFindStructureApi ==
  Method({"body"}, <<POST(<<"_text_structure", "find_structure">>)>>, "body")

TextStructureApi ==
  {textStructureFindStructureApi}

=============================================================================
