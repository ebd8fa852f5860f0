------------------------------- MODULE Models -------------------------------
(***************************************************************************)
(* What the services expect of the database: the tables that their ORM     *)
(* classes map, those of the mapped columns that a migration touches again *)
(* or that none makes, and the values that handlers give to the columns    *)
(* with a value check.                                                     *)
(***************************************************************************)
EXTENDS Naturals

LOCAL Of(t, cs) == {<<t, c>> : c \in cs}
LOCAL Class(ts, cs) == [tables |-> ts, columns |-> cs]

OrchestratorModels == Class({"payment_workflows", "payment_events"}, {})
OutboxModels == Class({"outbox_events"}, {})
MandateModels == Class({"payment_mandates"}, {})
RefundModels == Class({"refund_workflows"}, {})

AdminModels ==
    Class({"risk_blacklist", "system_parameters", "admin_approval_requests"},
          {})

AuditModels ==
    Class({"gateway_audit_events"}, Of("gateway_audit_events", {"severity"}))

AuthModels == Class(
    {"users", "roles", "admin_users", "permissions", "role_permissions",
     "user_devices", "user_sessions", "admin_sessions"},
    Of("users", {"first_name", "last_name", "credit_limit",
                 "available_credit", "risk_band", "next_review_date",
                 "referred_by"})
      \cup Of("admin_users", {"locked_until"})
      \cup Of("user_devices", {"deleted_at"}))

CartModels == Class({"carts", "cart_items"}, {})

CheckoutModels ==
    Class({"purchase_executions"}, Of("purchase_executions", {"updated_at"}))

ContractModels == Class(
    {"wakalah_agreements", "murabaha_contracts", "shariah_board_approvals",
     "contract_digital_signatures"},
    Of("wakalah_agreements",
       {"principal_name_encrypted", "is_executed", "executed_at"})
      \cup Of("murabaha_contracts",
              {"wakalah_agreement_id", "total_sale_price", "valid_until"}))

CreditModels == Class(
    {"credit_applications", "risk_assessments", "credit_limit_history",
     "blacklisted_entities", "fraud_rules", "velocity_checks"},
    Of("credit_limit_history", {"previous_limit", "available_before",
                                "available_after", "reason", "changed_by"}))

RiskModels == Class(
    {"fraud_alerts", "manual_review_queue", "bank_statement_analysis",
     "device_fingerprints", "ip_intelligence",
     "synthetic_identity_indicators", "credit_scores_history",
     "credit_policy_versions", "credit_feature_snapshots"}, {})

DeliveryModels == Class({"couriers", "shipments", "tracking_events"},
    Of("tracking_events", {"created_at", "updated_at"}))

HitlModels == Class({"hitl_queue"}, {})

KycModels == Class(
    {"customer_profiles", "user_kyc_verifications", "kyc_verification_queue"},
    Of("user_kyc_verifications",
       {"attempt_number", "rejection_code", "nadra_verified_at"}))

LedgerModels == Class(
    {"ledger_accounts", "journal_entries", "journal_entry_lines",
     "charity_organizations", "late_fee_charity_allocations",
     "ledger_periods", "ledger_account_balances"},
    Of("ledger_accounts",
       {"parent_code", "account_group", "currency", "is_control"})
      \cup Of("journal_entries",
              {"source_reference", "currency", "period_key",
               "reversed_by_id"})
      \cup Of("journal_entry_lines", {"currency"})
      \cup Of("late_fee_charity_allocations", {"journal_entry_id"})
      \cup Of("ledger_periods", {"fiscal_year", "pre_close_snapshot_at",
                                 "reopened_at", "reopened_by"})
      \cup Of("ledger_account_balances", {"currency", "updated_at"}))

NotificationModels == Class(
    {"notifications", "notification_dispatches", "notification_templates",
     "notification_preferences", "scheduled_notifications"},
    Of("notification_preferences", {"category", "is_globally_unsubscribed"}))

OrderModels == Class({"orders", "order_status_history"},
    Of("orders", {"order_number", "product_id", "installment_count",
                  "product_description", "product_snapshot", "loan_id",
                  "deleted_at"}))

PaymentModels == Class(
    {"loans", "installments", "payment_methods", "payment_transactions",
     "reconciliations", "reconciliation_items"},
    Of("loans", {"deleted_at"})
      \cup Of("installments", {"retry_count", "next_retry_at", "deleted_at"})
      \cup Of("payment_transactions",
              {"order_id", "loan_id", "transaction_type", "provider",
               "gateway_response", "retry_of_txn_id", "settlement_id",
               "reconciled_at", "updated_at", "deleted_at"})
      \cup Of("reconciliations", {"period_key"}))

CardModels == Class({"virtual_cards", "vcn_kms_key_versions"},
    Of("virtual_cards", {"stripe_cardholder_id", "encryption_key_version"}))

ProductModels == Class(
    {"merchants", "products", "scraping_jobs", "prohibited_categories",
     "prohibited_item_logs"},
    Of("merchants", {"partner_type", "commission_rate_pct",
                     "payment_terms_days", "min_volume_commitment_pkr",
                     "onboarding_status"})
      \cup Of("products", {"secondary_images", "status", "brand",
                           "description", "ships_to_pakistan", "variants",
                           "shariah_category", "search_vector"})
      \cup Of("prohibited_categories", {"updated_at"}))

WebhookModels == Class({"processed_webhook_events"}, {})

AllModels ==
    {OrchestratorModels, OutboxModels, MandateModels, RefundModels,
     AdminModels, AuditModels, AuthModels, CartModels, CheckoutModels,
     ContractModels, CreditModels, RiskModels, DeliveryModels, HitlModels,
     KycModels, LedgerModels, NotificationModels, OrderModels, PaymentModels,
     CardModels, ProductModels, WebhookModels}

ModelTables  == UNION {m.tables : m \in AllModels}
ModelColumns == UNION {m.columns : m \in AllModels}

----------------------------------------------------------------------------
LOCAL Puts(t, column, values) == {<<t, column, v>> : v \in values}

SigningWrites == Puts("loans", "status", {"active"})
                   \cup Puts("installments", "status", {"pending"})

CancelWrites == Puts("loans", "status", {"cancelled"})
                  \cup Puts("installments", "status", {"cancelled"})

RequestWrites ==
    Puts("payment_transactions", "status", {"initiated"})
      \cup Puts("payment_transactions", "gateway",
                {"safepay", "jazzcash", "easypaisa", "raast"})

WorkerWrites ==
    Puts("payment_transactions", "status", {"failed", "pending", "success"})

CallbackWrites ==
    Puts("payment_transactions", "status", {"confirmed", "failed"})

ManualWrites ==
    Puts("payment_transactions", "gateway", {"manual"})
      \cup Puts("payment_transactions", "status", {"confirmed"})
      \cup Puts("installments", "status", {"paid"})

AccountWrites ==
    Puts("users", "status", {"active", "suspended", "blocked"})

\* The values the handlers write.
Writes == UNION {SigningWrites, CancelWrites, RequestWrites, WorkerWrites,
                 CallbackWrites, ManualWrites, AccountWrites}
=============================================================================
