--------------------------- MODULE MCSyncSession ---------------------------
(* Instances of SyncSession for TLC                                        *)
EXTENDS SyncSession, TLC

CONSTANTS w1, w2

TwoDirections == w1 :> "upload" @@ w2 :> "download"
TwoUploads == w1 :> "upload" @@ w2 :> "upload"
OneUpload == w1 :> "upload"

\* one wait and one local commit, all that is uploaded before the session stops
Plain == [stop_policy |-> "AfterChangesUploaded", client_resync_mode |-> "Manual",
          cancel_waits_on_nonfatal_error |-> FALSE, waits |-> OneUpload, addresses |-> {},
          sessions |-> 1, deaths |-> 2, resyncs |-> 1, versions |-> 1]

Resyncing == [Plain EXCEPT !.client_resync_mode = "Recover", !.waits = TwoUploads,
                           !.sessions = 2]

ResyncConfigs == {Resyncing}

\* closed with a commit that is not uploaded yet
ClosingConfigs == {[Plain EXCEPT !.waits = <<>>, !.deaths = 1]}

MixedConfigs ==
  {Plain,
   [Plain EXCEPT !.waits = TwoDirections, !.sessions = 2, !.deaths = 1, !.versions = 0],
   [Plain EXCEPT !.cancel_waits_on_nonfatal_error = TRUE, !.versions = 1,
                 !.waits = <<>>, !.addresses = {"a"}],
   [Plain EXCEPT !.stop_policy = "LiveIndefinitely", !.versions = 0],
   [Resyncing EXCEPT !.stop_policy = "Immediately", !.deaths = 1, !.versions = 0]}
=============================================================================
