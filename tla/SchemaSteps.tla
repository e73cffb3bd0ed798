---------------------------- MODULE SchemaSteps -----------------------------
(***************************************************************************)
(* The twenty-five steps of migrate(knex), as data.  The database is a set *)
(* of objects, pairs of a table and a part of it: the table itself, columns *)
(* that go together, a key, an index, a constraint, or a row that a         *)
(* backfill copies.  A step is a sequence of operations; an operation looks *)
(* at what is there and then issues its statements, one transaction each.   *)
(* Table names go without their prefix payable_, columns that nothing looks *)
(* for are left out, and the statements Knex makes of a builder are         *)
(* external: CREATE TABLE with its checks, and inside SQLite its foreign    *)
(* keys, then one statement for each foreign key, key and index.            *)
(***************************************************************************)
EXTENDS Integers, Sequences

Part(table, parts) == {<<table, p>> : p \in parts}
Table(table) == <<table, "table">>

\* Adding what is there fails, and so does dropping what is not; "merge" may be
\* repeated; "fill" and "verify" compare the rows of two tables
Does(verb, objects) == [verb |-> verb, objects |-> objects, from |-> "none", to |-> "none"]
Rows(verb, from, to) == [verb |-> verb, objects |-> {}, from |-> from, to |-> to]
Each(verb, table, parts) == [i \in DOMAIN parts |-> Does(verb, {<<table, parts[i]>>})]

\* What must be there for the operation to run, and what makes it needless; a
\* tolerant one swallows an error when it finds itself needless after all
Operation(when, unless, statements) ==
    [when |-> when, unless |-> unless, statements |-> statements, tolerant |-> FALSE]

CreateIfMissing(table, columns, foreign, keys) ==
    [when |-> {}, unless |-> {Table(table)}, tolerant |-> TRUE,
     statements |-> <<Does("add", {Table(table)} \cup Part(table, columns))>>
                    \o Each("foreign", table, foreign) \o Each("add", table, keys)]

MutEnsureUnasked(table, part) ==
    Operation({Table(table)}, {}, <<Does("add", {<<table, part>>})>>)
\* hasColumn or indexExists, and then ALTER TABLE or CREATE INDEX
Ensure(table, part) ==
    Operation({Table(table)}, {<<table, part>>}, <<Does("add", {<<table, part>>})>>)

EnsureTolerant(table, part) == [Ensure(table, part) EXCEPT !.tolerant = TRUE]

\* CREATE INDEX IF NOT EXISTS, which MySQL has not: there, it is Ensure, and
\* under the lock the two are the same
Merge(table, part) == Operation({Table(table)}, {}, <<Does("merge", {<<table, part>>})>>)

\* A backfill repeats itself in batches until nothing is left to copy
Fill(from, to) == Operation({Table(from)}, {}, <<Rows("fill", from, to)>>)
FillAndVerify(from, to) ==
    Operation({Table(from)}, {}, <<Rows("fill", from, to), Rows("verify", from, to)>>)

\* A query for rows that contradict what comes next, and for tables it needs
Refuse(table, dirt) == Operation({Table(table)}, {}, <<Does("refuse", {<<table, dirt>>})>>)
Require(tables) == Operation({}, {}, <<Does("require", {Table(t) : t \in tables})>>)

DropLegacy(verb, table, key) == Operation({<<table, key>>}, {}, <<Does(verb, {<<table, key>>})>>)

-----------------------------------------------------------------------------
\* 001: billing-schema.ts

Customers == CreateIfMissing("customers", {"tenant_key"}, <<>>, <<"page">>)
CustomerBindings ==
    CreateIfMissing("customer_bindings", {}, <<"customer">>,
                    <<"customer_provider_unique", "provider_id_unique">>)
SyncStates ==
    CreateIfMissing("sync_states", {"leases", "tenant_check"}, <<"customer">>,
                    <<"customer_provider_unique", "status">>)
Products ==
    CreateIfMissing("products", {"tenant_key", "tenant_check"}, <<>>, <<"tenant_unique">>)
Prices ==
    CreateIfMissing("prices", {"tenant_key", "tenant_check"}, <<>>,
                    <<"tenant_unique", "product">>)
Subscriptions ==
    CreateIfMissing("subscriptions",
                    {"accepted", "provider_synced_at", "lifecycle", "tenant_check"}, <<>>,
                    <<"provider_id_unique", "customer_name_unique", "tenant_id_unique", "page">>)
SubscriptionItems ==
    CreateIfMissing("subscription_items", {}, <<"subscription">>, <<"by_subscription">>)
SubscriptionBindings ==
    CreateIfMissing("subscription_bindings", {"tenant_check"}, <<"subscription">>,
                    <<"subscription_provider_unique", "provider_id_unique", "tenant_id_unique">>)
Invoices == CreateIfMissing("invoices", {}, <<>>, <<"provider_id_unique", "customer">>)
Payments ==
    CreateIfMissing("payments", {"tenant_key", "evidence", "authorization", "tenant_check"},
                    <<>>, <<"provider_id_unique", "tenant_id_unique", "customer", "page",
                            "status_page">>)
Refunds ==
    CreateIfMissing("refunds", {"evidence"}, <<"payment">>, <<"provider_id_unique", "by_payment">>)

CreateBillingTables ==
    <<Customers, CustomerBindings, SyncStates, Products, Prices, Subscriptions,
      SubscriptionItems, SubscriptionBindings, Invoices, Payments, Refunds>>

-----------------------------------------------------------------------------
\* 002: system-schema.ts

WebhookEvents ==
    CreateIfMissing("webhook_events", {"claims", "occurred_at"}, <<>>, <<"provider_event_unique">>)
IdempotencyKeys == CreateIfMissing("idempotency_keys", {"lock_token"}, <<>>, <<"key_unique">>)
AuditLogs ==
    CreateIfMissing("audit_logs", {"chain"}, <<>>,
                    <<"resource", "correlation", "sequence_unique">>)
OutboxEvents == CreateIfMissing("outbox_events", {"dedupe_key"}, <<>>, <<>>)
WebhookEndpoints == CreateIfMissing("webhook_endpoints", {"secret_text"}, <<>>, <<>>)
EndpointEvents == CreateIfMissing("endpoint_events", {}, <<>>, <<"event_type">>)
WebhookDeliveries ==
    CreateIfMissing("webhook_deliveries", {"event_id"}, <<>>, <<"endpoint", "endpoint_event">>)

CreateSystemTables ==
    <<WebhookEvents, IdempotencyKeys, AuditLogs, OutboxEvents, WebhookEndpoints,
      EndpointEvents, WebhookDeliveries>>

-----------------------------------------------------------------------------
\* 003: alter-existing-tables.ts

EnsureColumns ==
    <<Ensure("webhook_events", "claims"), Ensure("idempotency_keys", "lock_token"),
      Ensure("audit_logs", "chain"), Ensure("webhook_deliveries", "event_id"),
      Ensure("outbox_events", "dedupe_key")>>

EnsureIndexes ==
    <<Merge("audit_logs", "named_sequence_unique"), Merge("webhook_events", "received_page"),
      Merge("subscriptions", "customer_page"), Merge("invoices", "customer_page"),
      Merge("payments", "customer_page"), Merge("refunds", "payment_page"),
      Merge("outbox_events", "pending_claim"), Merge("outbox_events", "stale_claim")>>

EnsureCustomerBillableUnique ==
    <<Refuse("customers", "duplicates"), Ensure("customers", "tenant_key"),
      Merge("customers", "keyed"), Merge("customers", "billable_unique"),
      Merge("customers", "key_billable_unique")>>

BackfillEndpointEvents == Fill("webhook_endpoints", "endpoint_events")

AlterExistingTables ==
    EnsureColumns \o EnsureIndexes \o EnsureCustomerBillableUnique
    \o <<Merge("outbox_events", "dedupe_unique"),
         Merge("webhook_deliveries", "endpoint_event_unique"), BackfillEndpointEvents>>

WidenEndpointSecret == <<Merge("webhook_endpoints", "secret_text")>>
AddWebhookOccurredAt == <<Ensure("webhook_events", "occurred_at")>>
AddSubscriptionProviderSyncedAt == <<Ensure("subscriptions", "provider_synced_at")>>
ConvergePostLedgerSchema == CreateBillingTables \o CreateSystemTables \o AlterExistingTables

-----------------------------------------------------------------------------
\* 008: customer-provider-bindings.ts.  The two columns may go one after the
\* other, and a later call finds only one of them

Provider == <<"customers", "provider">>
ProviderId == <<"customers", "provider_customer_id">>

DropBoth ==
    Operation({Provider, ProviderId}, {},
              <<Rows("fill", "customers", "customer_bindings"),
                Rows("verify", "customers", "customer_bindings"),
                Does("drop", {Provider, ProviderId})>>)
DropProviderId ==
    Operation({ProviderId}, {Provider},
              <<Rows("verify", "customers", "customer_bindings"), Does("drop", {ProviderId})>>)
DropProvider == Operation({Provider}, {ProviderId}, <<Does("drop", {Provider})>>)

AddCustomerProviderBindings ==
    EnsureCustomerBillableUnique \o <<CustomerBindings, DropBoth, DropProviderId, DropProvider>>

MutTenantKeysDropsFirst(table, keyed) ==
    <<DropLegacy("dropIndex", table, "legacy_unique"), Ensure(table, "tenant_key"),
      FillAndVerify(table, keyed), Ensure(table, "tenant_check"),
      Refuse(table, "duplicates"), Ensure(table, "tenant_unique")>>
\* 009: catalog-tenant-keys.ts.  The legacy key goes with DROP INDEX
TenantKeys(table, keyed) ==
    <<Ensure(table, "tenant_key"), FillAndVerify(table, keyed), Ensure(table, "tenant_check"),
      Refuse(table, "duplicates"), Ensure(table, "tenant_unique"),
      DropLegacy("dropIndex", table, "legacy_unique")>>

AddCatalogTenantKeys ==
    TenantKeys("products", "keyed_products") \o TenantKeys("prices", "keyed_prices")

AddSubscriptionLifecycleMetadata == <<Ensure("subscriptions", "lifecycle")>>

-----------------------------------------------------------------------------
\* 011: canonical-catalog-schema.ts

CanonicalProducts ==
    CreateIfMissing("canonical_products", {"tenant_check"}, <<>>, <<"tenant_id_unique", "page">>)
CanonicalPrices ==
    CreateIfMissing("canonical_prices", {"tenant_check"}, <<"product">>,
                    <<"lookup_key_unique", "tenant_id_unique", "product_page", "tenant_page">>)
PriceBindings ==
    CreateIfMissing("price_bindings", {"tenant_check"}, <<"price">>,
                    <<"price_provider_unique", "provider_id_unique">>)
ProductBindings ==
    CreateIfMissing("product_bindings", {"tenant_check"}, <<"product">>,
                    <<"product_provider_unique", "provider_id_unique">>)

AddCanonicalCatalogTables == <<CanonicalProducts, CanonicalPrices, PriceBindings, ProductBindings>>

AddCustomerProviderSyncStateLeases == <<Ensure("sync_states", "leases")>>

CatalogSynchronizations ==
    CreateIfMissing("catalog_synchronizations", {"tenant_check"}, <<>>,
                    <<"resource_unique", "tenant_id_unique", "status">>)
AddCatalogSynchronizationTable == <<CatalogSynchronizations>>

-----------------------------------------------------------------------------
\* 015: canonical-local-subscriptions.ts; it knows the table of bindings from
\* its own release and from the later one of 001

LateBindings ==
    CreateIfMissing("subscription_bindings", {"tenant_check"}, <<"subscription">>,
                    <<"subscription_provider_unique", "provider_id_unique">>)

DropLegacyUniqueIdentity(key) == DropLegacy("drop", "subscriptions", key)

AddCanonicalLocalSubscriptions ==
    <<Ensure("subscriptions", "accepted"), FillAndVerify("subscriptions", "keyed_subscriptions"),
      Merge("subscriptions", "provider_nullable"), Ensure("subscriptions", "tenant_check"),
      Refuse("subscriptions", "duplicates"),
      Ensure("subscriptions", "customer_name_unique"),
      Ensure("subscriptions", "provider_id_unique"),
      DropLegacyUniqueIdentity("legacy_name_unique"),
      DropLegacyUniqueIdentity("legacy_provider_unique"),
      LateBindings, Ensure("subscription_bindings", "tenant_check"),
      Ensure("subscription_bindings", "subscription_provider_unique"),
      Ensure("subscription_bindings", "provider_id_unique"),
      FillAndVerify("subscriptions", "bound_subscriptions")>>

\* 016: provider-neutral-page-indexes.ts
AddProviderNeutralPageIndexes ==
    <<Ensure("payments", "tenant_key"), FillAndVerify("payments", "keyed_payments"),
      Ensure("payments", "tenant_check"),
      Ensure("customers", "page"), Ensure("canonical_products", "page"),
      Ensure("canonical_prices", "tenant_page"), Ensure("subscriptions", "page"),
      Ensure("payments", "page")>>

\* 017: canonical-provider-catalog-backfill.ts.  Nothing else has written the
\* canonical rows, so none conflicts with a legacy one
BackfillCanonicalProviderCatalog ==
    <<Require({"products", "prices", "canonical_products", "canonical_prices",
               "product_bindings", "price_bindings"}),
      Refuse("prices", "orphans"),
      Fill("products", "canonical_products"), Fill("products", "product_bindings"),
      Fill("prices", "canonical_prices"), Fill("prices", "price_bindings")>>

\* 018: canonical-subscription-products.ts
AddCanonicalSubscriptionProducts ==
    <<EnsureTolerant("subscriptions", "canonical_product_id"),
      Fill("subscriptions", "subscription_products"),
      EnsureTolerant("subscriptions", "product_page")>>

\* 019: local-payment-evidence.ts
AddLocalPaymentEvidence ==
    <<Ensure("payments", "evidence"), Merge("payments", "provider_nullable"),
      Ensure("refunds", "evidence"), Merge("refunds", "provider_nullable"),
      Ensure("payments", "tenant_id_unique")>>

-----------------------------------------------------------------------------
\* 020: canonical-invoices.ts

CanonicalInvoices ==
    CreateIfMissing("canonical_invoices", {}, <<>>, <<"tenant_id_unique", "page", "customer_page">>)
InvoiceBindings ==
    CreateIfMissing("invoice_bindings", {}, <<"invoice">>,
                    <<"invoice_provider_unique", "provider_resource_unique">>)
InvoicePayments ==
    CreateIfMissing("invoice_payments", {}, <<"invoice", "payment">>, <<"unique", "page">>)
MigrationReports == CreateIfMissing("migration_reports", {}, <<>>, <<>>)

AddCanonicalInvoices ==
    <<CanonicalInvoices, InvoiceBindings, InvoicePayments, MigrationReports,
      Fill("invoices", "canonical_invoices"), Fill("invoices", "invoice_bindings"),
      Merge("migration_reports", "020-canonical-invoices")>>

\* 021: canonical-subscription-price-migrations.ts
PriceMigrationsTable ==
    CreateIfMissing("price_migrations",
                    {"observations", "observation_check", "active_check", "ownership_check"},
                    <<"subscription", "source_price", "target_price", "binding">>,
                    <<"tenant_id_unique", "active_unique", "status_page", "subscription_page",
                      "due">>)
MutationClaims ==
    CreateIfMissing("mutation_claims", {"observations", "observation_check", "state_check"},
                    <<"subscription">>, <<"owner_unique", "active_unique">>)

AddCanonicalSubscriptionPriceMigrations ==
    <<Ensure("subscriptions", "tenant_id_unique"),
      Ensure("subscription_bindings", "tenant_id_unique"), PriceMigrationsTable, MutationClaims>>

\* 022: subscription-mutation-recovery.ts.  projection, the old name of a column,
\* is in no start of this model
AddSubscriptionMutationRecovery ==
    <<Ensure("mutation_claims", "observations"), Ensure("mutation_claims", "observation_check"),
      Ensure("price_migrations", "observations"), Ensure("price_migrations", "observation_check")>>

AddPaymentAuthorizationLifecycle == <<Ensure("payments", "authorization")>>
AddPaymentStatusPageIndex == <<EnsureTolerant("payments", "status_page")>>
RedirectCorrelations == CreateIfMissing("redirect_correlations", {}, <<>>, <<"orphan">>)
AddRedirectCorrelations == <<RedirectCorrelations>>

\* migrate
Steps ==
    <<CreateBillingTables, CreateSystemTables, AlterExistingTables, WidenEndpointSecret,
      AddWebhookOccurredAt, AddSubscriptionProviderSyncedAt, ConvergePostLedgerSchema,
      AddCustomerProviderBindings, AddCatalogTenantKeys, AddSubscriptionLifecycleMetadata,
      AddCanonicalCatalogTables, <<SyncStates>>, AddCustomerProviderSyncStateLeases,
      AddCatalogSynchronizationTable, AddCanonicalLocalSubscriptions,
      AddProviderNeutralPageIndexes, BackfillCanonicalProviderCatalog,
      AddCanonicalSubscriptionProducts, AddLocalPaymentEvidence, AddCanonicalInvoices,
      AddCanonicalSubscriptionPriceMigrations, AddSubscriptionMutationRecovery,
      AddPaymentAuthorizationLifecycle, AddPaymentStatusPageIndex, AddRedirectCorrelations>>

Operations == UNION {{Steps[s][i] : i \in DOMAIN Steps[s]} : s \in DOMAIN Steps}

\* What createIfMissing makes, and skips as a whole when it finds the table
Makes(op) == UNION {op.statements[i].objects : i \in DOMAIN op.statements}
IsCreate(op) == op.tolerant /\ op.when = {}
Creates == {op \in Operations : IsCreate(op)}

-----------------------------------------------------------------------------
\* What a release with three steps had made, and rows that a later key or
\* reference contradicts

LegacyParts == [
    customers |-> {"provider", "provider_customer_id"}, products |-> {"legacy_unique"},
    prices |-> {"legacy_unique", "product"},
    subscriptions |-> {"legacy_name_unique", "legacy_provider_unique"},
    subscription_items |-> {"by_subscription"},
    invoices |-> {"provider_id_unique", "customer"},
    payments |-> {"provider_id_unique", "customer"},
    refunds |-> {"provider_id_unique", "by_payment"},
    webhook_events |-> {"provider_event_unique"},
    idempotency_keys |-> {"lock_token", "key_unique"},
    audit_logs |-> {"chain", "resource", "correlation"},
    outbox_events |-> {}, webhook_endpoints |-> {}, webhook_deliveries |-> {"endpoint"}]

LegacySchema == UNION {Part(t, LegacyParts[t] \cup {"table"}) : t \in DOMAIN LegacyParts}
Contradictions == {"customers", "products", "prices", "subscriptions"} \X {"duplicates", "orphans"}

=============================================================================
