------------------------------ MODULE Revisions ------------------------------
(***************************************************************************)
(* The revisions of db/migrations/versions, each with what its upgrade()   *)
(* and its downgrade() do to tables, columns and value checks.  Every      *)
(* table is kept; of the columns, those that more than one statement of    *)
(* the chain touches or that a model maps and the chain lacks; of the      *)
(* value checks, those of the columns that services write.  Indexes,       *)
(* partitions, triggers, views and seed rows are left out, except that a   *)
(* revision Needs the tables it puts them on.                              *)
(***************************************************************************)
EXTENDS Sequences

Statement(do, what) == <<[do |-> do, what |-> what]>>

\* Tables that must not exist, that may, that must, that need not.
MakeNew(ts)  == Statement("create", ts)
Ensure(ts)  == Statement("ensure", ts)
Drop(ts)    == Statement("drop", ts)
Discard(ts) == Statement("discard", ts)
Needs(ts)   == Statement("needs", ts)

\* The same of columns; Add also gives a table made just before its columns.
Add(cs)      == Statement("add", cs)
Supply(cs)   == Statement("supply", cs)
Withdraw(cs) == Statement("withdraw", cs)
Lose(cs)     == Statement("lose", cs)
On(t, cs)  == {<<t, c>> : c \in cs}

\* <<table, old name, new name>>; RenameAny looks whether the old one exists.
Rename(names)    == Statement("rename", names)
RenameAny(names) == Statement("renameany", names)

\* <<table, column, admitted values>>: CHECK (column IN (...)).
Check(cs)   == Statement("check", cs)
Uncheck(cs) == Statement("uncheck", cs)

\* skip: the upgrade does nothing if one of these tables exists.
Revision(up, down) == [skip |-> {}, up |-> up, down |-> down]

Nothing == Revision(<<>>, <<>>)
Makes(ts) == Revision(MakeNew(ts), Drop(ts))
Widens(cs) == Revision(Add(cs), Withdraw(cs))
MakesAndWidens(ts, cs) ==
    Revision(MakeNew(ts) \o Add(cs), Drop(ts) \o Withdraw(cs))
Touches(ts) == Revision(Needs(ts), Needs(ts))
After(ts, rev) == [rev EXCEPT !.up = Needs(ts) \o @]
Unless(t, rev) == [rev EXCEPT !.skip = {t}]

----------------------------------------------------------------------------
R001 == Makes({"credit_applications", "risk_assessments",
               "credit_limit_history", "blacklisted_entities", "fraud_rules",
               "velocity_checks"})

R002 == Makes({"roles", "permissions", "role_permissions", "users",
               "admin_users", "user_devices", "user_sessions"})

R003 == Makes({"customer_profiles", "user_kyc_verifications",
               "kyc_verification_queue"})

R004 ==
    LET made == {"wakalah_agreements", "murabaha_contracts",
                 "contract_digital_signatures"}
    IN  Revision(MakeNew(made) \o Add(On("murabaha_contracts",
                   {"wakalah_agreement_id", "total_sale_price"})),
                 Drop(made))

R005 == Nothing

PaymentTables == {"orders", "order_status_history", "loans", "installments",
                  "payment_methods", "payment_transactions", "virtual_cards"}

PaymentColumns ==
    On("orders", {"product_description", "deleted_at"})
      \cup On("loans", {"deleted_at"})
      \cup On("installments", {"retry_count", "next_retry_at", "deleted_at"})
      \cup On("payment_transactions",
              {"loan_id", "gateway_response", "retry_of_txn_id",
               "settlement_id", "reconciled_at", "updated_at", "deleted_at"})

\* orders goes before the tables that refer to it.
R006 == Revision(
    After({"wakalah_agreements", "murabaha_contracts"},
          Makes(PaymentTables)).up \o Add(PaymentColumns),
    Drop({"order_status_history", "orders"})
      \o Drop(PaymentTables \ {"order_status_history", "orders"}))

ProductTables == {"merchants", "products", "scraping_jobs",
                  "prohibited_categories", "prohibited_item_logs"}

\* The link of orders to products goes after products.
R007 == Revision(
    MakeNew(ProductTables)
      \o Add(On("products", {"search_vector"})
               \cup On("prohibited_categories", {"updated_at"}))
      \o Add(On("orders", {"product_id"})),
    Drop(ProductTables) \o Withdraw(On("orders", {"product_id"})))

R008 == After({"orders"}, Revision(
    MakeNew({"purchase_executions"})
      \o Add(On("purchase_executions", {"updated_at"})),
    Drop({"purchase_executions"})))

R009 == After({"orders", "purchase_executions"}, Makes({"hitl_queue"}))

R010 ==
    LET made == {"couriers", "shipments", "tracking_events"}
    IN  After({"orders"}, Revision(
          MakeNew(made)
            \o Add(On("tracking_events", {"created_at", "updated_at"})),
          Drop(made)))

R011 == After({"installments", "loans"},
    Makes({"ledger_accounts", "charity_organizations", "journal_entries",
           "journal_entry_lines", "late_fee_charity_allocations"}))

R012 == Nothing

\* The downgrade does not bring payment_methods back.
R013 ==
    LET made == {"user_addresses", "user_payment_methods",
                 "user_bank_accounts", "user_consent_records",
                 "user_activity_logs", "user_biometric_data",
                 "user_preferences"}
    IN  Revision(Discard({"payment_methods"}) \o MakeNew(made), Drop(made))

R014 == Makes({"fraud_alerts", "manual_review_queue",
               "bank_statement_analysis", "device_fingerprints",
               "ip_intelligence", "synthetic_identity_indicators"})

R015 == Makes({"product_variants", "product_prices_history", "product_images",
               "merchant_performance_metrics",
               "product_availability_history"})

R016 == After({"orders"}, 
    MakesAndWidens({"order_items", "order_addresses", "order_cancellations",
                    "order_returns", "order_notes"},
            On("orders", {"product_snapshot", "selected_variant",
                 "product_cost", "platform_profit", "currency",
                 "delivery_address_id", "delivery_address_snapshot",
                 "risk_assessment_id", "down_payment_pct",
                 "merchant_order_id", "merchant_order_url", "cancelled_at",
                 "cancel_reason", "cancelled_by", "admin_notes",
                 "order_number"})))

R017 == After({"orders"}, 
    MakesAndWidens({"refunds", "chargebacks", "settlements",
                    "payment_retries", "payment_arrangements",
                    "early_payoff_discounts"},
            On("installments", {"late_fee_waiver_reason", "reminders_sent",
                 "last_reminder_at"})
       \cup On("loans", {"start_date", "expected_end_date", "actual_end_date",
                 "last_payment_date"})))

R018 == After({"orders"}, 
    MakesAndWidens({"delivery_attempts", "delivery_proofs",
                    "return_shipments", "courier_performance_metrics"},
            On("shipments", {"recipient_name", "recipient_phone", "weight_kg",
                 "shipping_cost", "is_cod", "cod_amount",
                 "delivery_address_snapshot", "courier_tracking_url"})))

\* updated_at goes too, which 007 made.
R019 ==
    LET made == {"shariah_audit_reports", "legacy_shariah_board_approvals"}
    IN  Revision(
          Add(On("prohibited_categories", {"is_active"})) \o MakeNew(made),
          Drop(made) \o Withdraw(On("prohibited_categories",
                                  {"updated_at", "is_active"})))

R020 == After({"payment_transactions"}, 
    Makes({"reconciliations", "reconciliation_items", "revenue_transactions",
           "gateway_settlements", "financial_reports"}))

R021 == After({"loans", "orders"}, 
    Makes({"support_tickets", "ticket_messages", "email_templates",
           "sms_templates", "notifications_queue", "customer_communications",
           "canned_responses"}))

R022 == After({"orders"}, 
    Makes({"referrals", "promotional_codes", "promo_code_usage",
           "marketing_campaigns", "campaign_metrics",
           "user_acquisition_attribution", "ab_test_experiments",
           "ab_test_assignments", "conversion_events"}))

R023 == MakesAndWidens({"admin_user_roles", "admin_activity_logs",
                        "admin_sessions", "system_settings", "feature_flags"},
        On("users", {"email", "email_verified_at", "first_name", "last_name",
             "date_of_birth", "gender", "cnic_encrypted", "cnic_hash",
             "cnic_verified_at", "kyc_status", "risk_level", "credit_limit",
             "available_credit", "total_outstanding",
             "last_credit_assessment", "mobile_operator",
             "preferred_language", "city", "province", "referral_code",
             "referred_by_user_id", "marketing_opt_in", "sms_opt_in",
             "push_opt_in", "registration_source", "registration_ip",
             "last_login_at", "last_login_ip"}))

ComplianceTables == {"audit_trails", "regulatory_reports",
                     "data_deletion_requests", "consent_logs",
                     "aml_suspicious_activity_reports"}

R024 == Makes(ComplianceTables)

R025 == Makes({"api_keys", "webhooks", "webhook_deliveries",
               "integration_logs", "error_logs", "system_health_metrics",
               "scheduled_tasks", "background_jobs"})

R026 == Widens(On("users", {"full_name", "is_blocked", "recovery_risk_score",
                    "cnic_expiry_date", "is_suspended", "suspension_reason"})
          \cup On("orders", {"merchant_id"})
          \cup On("loans", {"is_rescheduled", "rescheduled_from_loan_id"})
          \cup On("installments", {"late_fee_waiver_by"})
          \cup On("shipments", {"is_fragile"})
          \cup On("virtual_cards", {"billing_zip"}))

R027 == Makes({"user_profile_extensions", "user_documents",
               "admin_audit_logs", "system_backup_logs", "api_request_logs",
               "system_health_checks", "notification_channels",
               "notification_templates", "user_notifications"})

R028 == Touches({"prohibited_categories", "system_settings"})

R029 == Revision(Needs({"users", "loans", "installments",
                       "payment_transactions", "orders", "merchants"}), <<>>)

R030 == Makes({"pakistan_cities", "pakistan_postal_codes",
               "islamic_calendar"})

R031 == Makes({"credit_scores_history"})

\* The downgrade brings none of the old tables back.
R032 ==
    LET made == {"orders", "order_state_history", "purchase_executions"}
    IN  Revision(
          Discard(made \cup {"order_status_history"}) \o MakeNew(made)
            \o Add(On("orders",
                 {"order_number", "merchant_id", "product_id",
                  "product_snapshot", "selected_variant", "product_cost",
                  "platform_profit", "currency", "delivery_address_id",
                  "delivery_address_snapshot", "risk_assessment_id",
                  "down_payment_pct", "merchant_order_id",
                  "merchant_order_url", "cancelled_at", "cancel_reason",
                  "cancelled_by", "admin_notes"})),
          Discard(made))

R033 ==
    LET loaned  == {"loans", "installments"}
        tracked == {"payment_transactions", "tracking_events"}
        log     == {"prohibited_items_log"}
    IN  Revision(
          Discard(loaned) \o MakeNew(loaned)
            \o Add(On("loans", {"last_payment_date", "start_date",
                                "expected_end_date", "actual_end_date"})
                     \cup On("installments", {"late_fee_waiver_reason",
                             "reminders_sent", "last_reminder_at"}))
            \o Discard(tracked) \o MakeNew(tracked \cup log),
          Drop(log) \o Discard(tracked) \o Drop(loaned))

R034 == Revision(
    Discard({"notifications_queue"}) \o MakeNew({"notifications_queue"}),
    Discard({"notifications_queue"}))

R035 ==
    LET logs == {"audit_trails", "integration_logs", "error_logs",
                 "system_health_metrics"}
    IN  Revision(Discard(logs) \o MakeNew(logs \cup {"shard_routing"}),
                 Drop({"shard_routing"}) \o Discard(logs))

R036 == Revision(Needs({"purchase_executions", "payment_transactions",
                       "tracking_events", "notifications_queue",
                       "audit_trails"}), <<>>)

R037 ==
    LET back == On("payment_transactions",
                   {"gateway_response", "retry_of_txn_id", "settlement_id",
                    "reconciled_at"})
    IN  Revision(
          Supply(back) \o Needs({"orders", "loans", "installments",
                                 "purchase_executions", "tracking_events"}),
          Lose(back))

CodeTables == {"pk_mobile_prefixes", "cnic_division_codes"}

PlanAndZoneTables == {"payment_plan_configurations", "loan_loss_provisions",
                      "write_off_records", "delivery_zones",
                      "delivery_sla_configs"}

ContractAndTaxTables == {"murabaha_contract_templates",
                         "charity_disbursements", "tax_filings",
                         "balance_sheet_snapshots"}

SupportTables == {"chatbot_sessions", "support_ticket_sla_configs",
                  "user_segments", "campaign_segments"}

FilingTables == {"regulatory_calendar", "pci_dss_assessments", "secp_filings"}

SettingTables == {"third_party_service_configs", "rate_limit_configs",
                  "scheduled_task_runs"}

R038 ==
    LET made == UNION {CodeTables, PlanAndZoneTables, ContractAndTaxTables,
                       SupportTables, FilingTables, SettingTables}
    IN  After({"loans"}, Revision(Ensure(made), Discard(made)))

\* "drop the wrong one"
DropWrongLog == Discard({"prohibited_item_logs"})

\* Partitions, indexes and tasks for 2026.
Tables2026 == Needs({"orders", "payment_transactions", "purchase_executions",
                     "notifications_queue", "tracking_events", "audit_trails",
                     "installments", "scheduled_tasks", "murabaha_contracts"})

\* prohibited_item_logs does not come back.
R039 == Revision(DropWrongLog \o Tables2026,
                 Needs({"murabaha_contracts", "scheduled_tasks"}))

CreditTables == {"bureau_credit_reports", "income_verification_records",
                 "credit_policy_rules"}

RiskTables == {"risk_score_components", "watchlist_screening_logs",
               "fraud_case_investigations"}

CheckoutTables == {"merchant_checkout_configs", "checkout_sessions"}

PurchaseTables == {"virtual_card_transactions", "order_approval_rules"}

CollectionTables == {"payment_links", "debt_collection_cases"}

GatewayTables == {"payment_gateway_configs",
                  "installment_date_change_requests"}

AccountingTables == {"company_bank_accounts", "profit_recognition_schedules",
                     "tax_gl_mappings"}

MessageTables == {"notification_preferences", "whatsapp_templates",
                  "support_escalation_rules"}

R040 == After({"installments", "loans"},
    Makes(UNION {CreditTables, RiskTables, CheckoutTables, PurchaseTables,
                 CollectionTables, GatewayTables, AccountingTables,
                 MessageTables}))

RetryColumns == On("installments", {"retry_count", "next_retry_at"})

WakalahColumns == On("wakalah_agreements",
    {"is_executed", "executed_at", "valid_from", "signing_ip",
     "signing_device_id", "signed_via"})

MurabahaColumns == On("murabaha_contracts",
    {"loan_id", "product_specification", "delivery_obligation",
     "payment_plan", "contract_pdf_s3", "signed_via", "signing_ip",
     "shariah_approval_ref", "status", "completed_at"})

MurabahaNames ==
    {<<"murabaha_contracts", "total_sale_price", "total_repayable">>,
     <<"murabaha_contracts", "wakalah_agreement_id", "wakalah_id">>}

RiskColumns ==
    On("users", {"phone_verified_at"})
      \cup On("velocity_checks", {"checked_at"})
      \cup On("credit_applications",
              {"decided_at", "decided_by_admin_id", "processing_time_ms"})

StatusChecks ==
    {<<"users", "status",
       {"pending_kyc", "active", "suspended", "closed", "blocked"}>>,
     <<"loans", "status",
       {"active", "partially_paid", "fully_paid", "defaulted", "written_off",
        "disputed"}>>,
     <<"installments", "status",
       {"pending", "paid", "overdue", "defaulted", "waived", "rescheduled"}>>,
     <<"payment_transactions", "gateway",
       {"safepay", "jazzcash", "easypaisa", "raast", "stripe", "manual"}>>,
     <<"payment_transactions", "status",
       {"initiated", "pending", "success", "failed", "refunded",
        "partially_refunded", "chargeback"}>>}

StampedTables == Needs({"credit_applications", "risk_assessments", "orders",
                        "scraping_jobs", "virtual_cards"})

Unharden == Uncheck({<<c[1], c[2]>> : c \in StatusChecks})
              \o Lose(RiskColumns)

Unname == RenameAny({<<n[1], n[3], n[2]>> : n \in MurabahaNames})
            \o Lose(MurabahaColumns \cup WakalahColumns \cup RetryColumns)

R041 == Revision(
    Supply(RetryColumns) \o Needs({"loans", "orders"})
      \o Supply(WakalahColumns \cup MurabahaColumns)
      \o RenameAny(MurabahaNames) \o Supply(RiskColumns)
      \o Check(StatusChecks) \o StampedTables,
    Unharden \o Unname)

R042 == Touches({"scheduled_tasks"})

R043 == Widens(On("orders", {"installment_count"}))

R044 == Makes({"product_price_history"})

R045 ==
    LET wider == On("products", {"status", "description", "brand",
                                 "ships_to_pakistan", "variants",
                                 "secondary_images", "shariah_category"})
    IN  Revision(Supply(wider), Lose(wider))

R046 == Makes({"ledger_periods"})

R047 == MakesAndWidens({"ledger_account_balances"},
        On("journal_entries", {"period_key"}))

R048 == Widens(On("virtual_cards", {"stripe_cardholder_id"}))

R049 == Unless("notification_templates",
    Makes({"notifications", "notification_dispatches",
           "notification_templates", "notification_preferences",
           "scheduled_notifications"}))

R049a == Makes({"risk_blacklist", "system_parameters"})

R050 == Touches({"ledger_accounts"})

R051 == MakesAndWidens({"carts", "cart_items"},
        On("orders", {"loan_id"}))

R052 == Widens(On("orders", {"deleted_at"}))

R053 == Makes({"order_status_history"})

R054 ==
    LET name == On("wakalah_agreements", {"principal_name_encrypted"})
        old  == {<<"murabaha_contracts", "total_repayable",
                   "total_sale_price">>,
                 <<"murabaha_contracts", "wakalah_id",
                   "wakalah_agreement_id">>}
    IN  Revision(Add(name) \o Rename(old),
                 Rename({<<n[1], n[3], n[2]>> : n \in old}) \o Withdraw(name))

R055 == Widens(On("murabaha_contracts", {"valid_until"}))

\* Seeded fault: the downgrade keeps its table.
R056Kept == Revision(MakeNew({"gateway_audit_events"}), <<>>)

R056 == Makes({"gateway_audit_events"})

R057 ==
    LET wider == On("loans", {"deleted_at"})
                   \cup On("installments", {"deleted_at"})
                   \cup On("payment_transactions",
                           {"loan_id", "updated_at", "deleted_at",
                            "transaction_type", "provider"})
        status == CHOOSE c \in StatusChecks :
                    c[1] = "payment_transactions" /\ c[2] = "status"
    IN  Revision(
          Add(wider) \o Check({<<"payment_transactions", "status",
                                 status[3] \cup {"confirmed"}>>}),
          Check({status}) \o Withdraw(wider))

R058 == Touches({"customer_profiles"})

R059 == Widens(On("user_kyc_verifications", {"rejection_code",
                    "nadra_verified_at"}))

R060 == Widens(On("tracking_events", {"created_at", "updated_at"}))

R061 == Makes({"notifications"})

R062 == Makes({"payment_methods"})

R063 == Makes({"admin_approval_requests"})

R064 == Widens(On("gateway_audit_events", {"severity"}))

R065 == MakesAndWidens({"merchant_onboarding_applications",
                        "merchant_commission_accruals", "merchant_payouts"},
        On("merchants", {"partner_type", "commission_rate_pct",
             "payment_terms_days", "min_volume_commitment_pkr",
             "onboarding_status"}))

R066 == Touches({"merchants"})

R067 == Touches({"roles"})

R068 == Makes({"third_party_integrations"})

R069 ==
    LET made == {"notification_templates", "notification_dispatches"}
    IN  Revision(
          Drop({"notification_templates"}) \o MakeNew(made),
          Drop(made) \o MakeNew({"notification_templates"}))

R070 == Widens(On("ledger_account_balances", {"currency"}))

R071 == Widens(On("virtual_cards", {"encryption_key_version"}))

R072 == Touches({"journal_entry_lines"})

R073 == Touches({"ledger_account_balances"})

R074 == MakesAndWidens({"credit_policy_versions", "credit_feature_snapshots"},
        On("credit_limit_history", {"previous_limit", "available_before",
             "available_after", "reason", "changed_by"}))

R075 == Makes({"outbox_events"})

R076 == Makes({"payment_workflows", "payment_events", "payment_mandates",
               "refund_workflows"})

R077 == Unless("scheduled_notifications", 
    Makes({"scheduled_notifications"}))

R078 == Widens(On("users", {"risk_band", "next_review_date"}))

R079 == Widens(On("users", {"referred_by"}))

R080 == Widens(On("orders", {"product_description"}))

R081 == Widens(On("payment_transactions", {"order_id"}))

R082 == Makes({"vcn_kms_key_versions"})

R083 == Widens(On("user_kyc_verifications", {"attempt_number"}))

R084 == Widens(On("purchase_executions", {"updated_at"}))

R085 == Touches({"journal_entry_lines"})

R086 == Revision(<<>>, Needs({"installments"}))

R087 == Makes({"shariah_board_approvals", "processed_webhook_events"})

R088 == Makes({"prohibited_merchant_domains"})

R089 == Widens(On("journal_entries", {"source_reference", "currency",
                    "reversed_by_id"}))

R090 == Widens(On("ledger_accounts", {"parent_code", "account_group",
                    "currency", "is_control"})
          \cup On("ledger_periods", {"fiscal_year", "pre_close_snapshot_at",
                    "reopened_at", "reopened_by"})
          \cup On("late_fee_charity_allocations", {"journal_entry_id"}))

R091 == Widens(On("journal_entry_lines", {"currency"})
          \cup On("ledger_account_balances", {"updated_at"}))

R092 == Widens(On("admin_users", {"locked_until"}))

----------------------------------------------------------------------------
Revisions == <<
    R001, R002, R003, R004, R005, R006, R007, R008, R009, R010, R011,
    R012, R013, R014, R015, R016, R017, R018, R019, R020, R021, R022,
    R023, R024, R025, R026, R027, R028, R029, R030, R031, R032, R033,
    R034, R035, R036, R037, R038, R039, R040, R041, R042, R043, R044,
    R045, R046, R047, R048, R049, R049a, R050, R051, R052, R053, R054,
    R055, R056, R057, R058, R059, R060, R061, R062, R063, R064, R065,
    R066, R067, R068, R069, R070, R071, R072, R073, R074, R075, R076,
    R077, R078, R079, R080, R081, R082, R083, R084, R085, R086, R087,
    R088, R089, R090, R091, R092>>
=============================================================================
