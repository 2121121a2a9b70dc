----------------------------- MODULE MCPlatform -----------------------------
(* Constants for Platform.                                                 *)
EXTENDS Platform

AllSignals == {"after_hours"}
Weights == [s \in AllSignals |-> 18]

AllScenes == {"requests", "jobs", "webhooks", "learning"}
WebhookScene == {"webhooks"}
=============================================================================
