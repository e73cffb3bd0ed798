--------------------------- MODULE MCWebhookInbox ---------------------------
(***************************************************************************)
(* Instances of WebhookInbox for TLC.                                      *)
(***************************************************************************)
EXTENDS WebhookInbox

Queued == [inline |-> FALSE, treasury |-> FALSE]
QueuedTreasury == [inline |-> FALSE, treasury |-> TRUE]
RunInline == [inline |-> TRUE, treasury |-> FALSE]

AllPipelines == {Queued, QueuedTreasury, RunInline}
QueuedPipelines == {Queued, QueuedTreasury}

=============================================================================
