------------------------- MODULE MCWebhookDelivery -------------------------
(***************************************************************************)
(* Instances of WebhookDelivery for TLC: one tenant, two endpoints.        *)
(***************************************************************************)
EXTENDS WebhookDelivery

CONSTANTS t1, p1, p2

MCTenantOf == [e \in Event |-> t1]
MCTenant == {t1}
MCEndpoints == <<p1, p2>>

=============================================================================
