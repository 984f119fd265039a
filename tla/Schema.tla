-------------------------------- MODULE Schema --------------------------------
(***************************************************************************)
(* The database schema, twice: as the ORM models declare it and as the     *)
(* migration scripts build it, statement by statement.                     *)
(*                                                                         *)
(* The objects are the ones whose order of creation or removal matters:    *)
(* extensions, enum types, tables, foreign keys, named constraints,        *)
(* indexes, and the columns that use a type or that a script adds to a     *)
(* table that exists.  Other columns come and go with their table.         *)
(***************************************************************************)
EXTENDS Integers, Sequences

\* "is no part of a table"
NoTable == "-"

\* An object has a kind and a name, and the table it is a part of, or NoTable.  needs:
\* the free-standing objects it depends on, by name.  reads: the columns of its own
\* table it goes away with.
FreeStanding(kind, n) ==
  [kind |-> kind, name |-> n, table |-> NoTable, needs |-> {}, reads |-> {}]
Extension(n) == FreeStanding("extension", n)
Type(n) == FreeStanding("type", n)
Table(n) == FreeStanding("table", n)

Part(kind, t, n, needs, reads) ==
  [kind |-> kind, name |-> n, table |-> t, needs |-> needs, reads |-> reads]
Column(t, c, types) == Part("column", t, c, types, {})
ForeignKey(t, c, u) == Part("foreign key", t, c, {u}, {c})
Constraint(t, n, columns) == Part("constraint", t, n, {}, columns)
Index(t, n, columns) == Part("index", t, n, {}, columns)

\* A table with its columns of enum types, its foreign keys, given as pairs, and
\* its named constraints.
TableWith(t, typed, references, constraints) ==
  {Table(t)}
    \cup {Column(t, p[1], {p[2]}) : p \in typed}
    \cup {ForeignKey(t, p[1], p[2]) : p \in references}
    \cup {Constraint(t, n, {}) : n \in constraints}

\* ex_bookings_no_active_asset_overlap: "=" on a UUID in a GiST index.
NoActiveAssetOverlap ==
  Part("constraint", "bookings", "ex_bookings_no_active_asset_overlap", {"btree_gist"}, {})

\* The index on the publication state.
PublicLagos == Index("assets", "ix_assets_public_lagos", {"listing_status"})
TrustTierValid ==
  Constraint("assets", "ck_assets_minimum_trust_tier_valid", {"minimum_trust_tier"})

-----------------------------------------------------------------------------
(* What the models declare *)

User ==
  TableWith("users", {<<"role", "renterrole">>}, {}, {})
    \cup {Index("users", "ix_users_phone", {})}

KYCProfile ==
  TableWith("kyc_profiles", {<<"status", "kycstatus">>}, {<<"user_id", "users">>},
    {"ck_kyc_profiles_supported_tier", "ck_kyc_profiles_verified_at_required",
     "ck_kyc_profiles_verification_consistency", "uq_kyc_profiles_provider_reference"})

Asset0001 ==
  TableWith("assets", {<<"category", "assetcategory">>, <<"city", "city">>},
    {<<"vendor_id", "users">>},
    {"ck_assets_daily_rate_positive", "ck_assets_deposit_amount_nonnegative"})
  \cup {Index("assets", "ix_assets_vendor_id", {})}

\* The publication fields of an asset, and what is declared on them.
Publication ==
  {Column("assets", "listing_status", {"listingstatus"}), PublicLagos, TrustTierValid,
   ForeignKey("assets", "review_actor_id", "users")}
  \cup {Column("assets", c, {}) :
         c \in {"minimum_trust_tier", "review_actor_id", "reviewed_at", "review_reason"}}

AvailabilityWindow ==
  TableWith("availability_windows", {}, {<<"asset_id", "assets">>},
    {"ck_availability_windows_valid_date_range"})
  \cup {Index("availability_windows", "ix_availability_windows_asset_id", {})}

Booking ==
  TableWith("bookings", {<<"status", "bookingstatus">>},
    {<<"asset_id", "assets">>, <<"renter_id", "users">>, <<"vendor_id", "users">>},
    {"ck_bookings_total_rental_fee_positive", "ck_bookings_deposit_amount_nonnegative",
     "ck_bookings_valid_date_range", "uq_bookings_id_renter", "uq_bookings_id_vendor"})
  \cup {NoActiveAssetOverlap}
  \cup {Index("bookings", n, {}) :
         n \in {"ix_bookings_asset_id", "ix_bookings_renter_id", "ix_bookings_vendor_id"}}

HandoverRecord ==
  TableWith("handover_records",
    {<<"direction", "handoverdirection">>, <<"status", "handoverstatus">>},
    {<<"booking_id", "bookings">>, <<"vendor_signer_id", "users">>,
     <<"renter_signer_id", "users">>, <<"fk_handover_records_booking_vendor", "bookings">>,
     <<"fk_handover_records_booking_renter", "bookings">>},
    {"ck_handover_records_completed_requirements", "uq_handover_records_booking_direction"})
  \cup {Index("handover_records", "ix_handover_records_booking_id", {})}

Payment ==
  TableWith("payments",
    {<<"type", "paymenttype">>, <<"status", "paymentstatus">>,
     <<"deposit_status", "depositstatus">>, <<"payout_status", "payoutstatus">>},
    {<<"booking_id", "bookings">>},
    {"ck_payments_amount_positive", "ck_payments_payout_fields_required",
     "ck_payments_platform_fee_nonnegative", "ck_payments_deposit_lifecycle_type",
     "ck_payments_payout_lifecycle_type", "ck_payments_deposit_status_timestamps",
     "ck_payments_payout_status_timestamps"})
  \cup {Index("payments", "ix_payments_booking_id", {})}

\* Base.metadata: the tables and, for every column that uses one, its type.
WithTypes(tables) ==
  tables \cup {Type(n) : n \in UNION {o.needs : o \in {x \in tables : x.kind = "column"}}}

Metadata ==
  WithTypes(User \cup KYCProfile \cup Asset0001 \cup Publication \cup AvailabilityWindow
              \cup Booking \cup HandoverRecord \cup Payment)

-----------------------------------------------------------------------------
(* What the scripts do *)

Create(S) == [op |-> "create", objects |-> S]
Drop(kind, t, n) == [op |-> "drop", object |-> <<kind, t, n>>]

\* IF NOT EXISTS and checkfirst: a look at the catalog that skips the statement
\* after it when the object is there, or when it is not.
CreateMissing(o) == <<[op |-> "skip if present", object |-> o], Create({o})>>
DropPresent(o) == <<[op |-> "skip if absent", object |-> o], Drop(o.kind, o.table, o.name)>>

Backfill == [op |-> "backfill", table |-> "assets"]

CreateIndex(n, t) == Create({Index(t, n, {})})
DropIndex(n, t) == Drop("index", t, n)
DropTable(t) == Drop("table", NoTable, t)
DropColumn(t, c) == Drop("column", t, c)

ENUMS ==
  <<"renterrole", "kycstatus", "assetcategory", "city", "bookingstatus", "handoverdirection",
    "handoverstatus", "paymenttype", "paymentstatus", "depositstatus", "payoutstatus">>

CreateEnums == [i \in 1 .. Len(ENUMS) |-> Create({Type(ENUMS[i])})]

CreateUsers ==
  <<Create(TableWith("users", {<<"role", "renterrole">>}, {}, {})),
    CreateIndex("ix_users_phone", "users")>>

CreateAssets ==
  <<Create(TableWith("assets", {<<"category", "assetcategory">>, <<"city", "city">>},
             {<<"vendor_id", "users">>},
             {"ck_assets_daily_rate_positive", "ck_assets_deposit_amount_nonnegative"})),
    CreateIndex("ix_assets_vendor_id", "assets")>>

CreateKYCProfiles ==
  <<Create(TableWith("kyc_profiles", {<<"status", "kycstatus">>}, {<<"user_id", "users">>},
             {"ck_kyc_profiles_supported_tier", "ck_kyc_profiles_verified_at_required",
              "ck_kyc_profiles_verification_consistency",
              "uq_kyc_profiles_provider_reference"}))>>

CreateAvailabilityWindows ==
  <<Create(TableWith("availability_windows", {}, {<<"asset_id", "assets">>},
             {"ck_availability_windows_valid_date_range"})),
    CreateIndex("ix_availability_windows_asset_id", "availability_windows")>>

CreateBookings ==
  <<Create(TableWith("bookings", {<<"status", "bookingstatus">>},
             {<<"asset_id", "assets">>, <<"renter_id", "users">>, <<"vendor_id", "users">>},
             {"ck_bookings_deposit_amount_nonnegative", "ck_bookings_valid_date_range",
              "ck_bookings_total_rental_fee_positive", "uq_bookings_id_renter",
              "uq_bookings_id_vendor"})
           \cup {NoActiveAssetOverlap}),
    CreateIndex("ix_bookings_asset_id", "bookings"),
    CreateIndex("ix_bookings_renter_id", "bookings"),
    CreateIndex("ix_bookings_vendor_id", "bookings")>>

CreateHandoverRecords ==
  <<Create(TableWith("handover_records",
             {<<"direction", "handoverdirection">>, <<"status", "handoverstatus">>},
             {<<"booking_id", "bookings">>, <<"renter_signer_id", "users">>,
              <<"fk_handover_records_booking_vendor", "bookings">>,
              <<"fk_handover_records_booking_renter", "bookings">>},
             {"ck_handover_records_completed_requirements",
              "uq_handover_records_booking_direction"})),
    CreateIndex("ix_handover_records_booking_id", "handover_records")>>

CreatePayments ==
  <<Create(TableWith("payments",
             {<<"type", "paymenttype">>, <<"status", "paymentstatus">>,
              <<"deposit_status", "depositstatus">>, <<"payout_status", "payoutstatus">>},
             {<<"booking_id", "bookings">>},
             {"ck_payments_amount_positive", "ck_payments_payout_fields_required",
              "ck_payments_platform_fee_nonnegative", "ck_payments_deposit_lifecycle_type",
              "ck_payments_payout_lifecycle_type", "ck_payments_deposit_status_timestamps",
              "ck_payments_payout_status_timestamps"})),
    CreateIndex("ix_payments_booking_id", "payments")>>

Upgrade0001 ==
  CreateMissing(Extension("pgcrypto")) \o CreateMissing(Extension("btree_gist"))
    \o CreateEnums \o CreateUsers \o CreateAssets \o CreateKYCProfiles
    \o CreateAvailabilityWindows \o CreateBookings \o CreateHandoverRecords \o CreatePayments

DropEnums == [i \in 1 .. Len(ENUMS) |-> Drop("type", NoTable, ENUMS[Len(ENUMS) + 1 - i])]

\* A fault: the assets go before the bookings that refer to them.
Downgrade0001Misordered ==
  <<DropTable("payments"), DropTable("handover_records"), DropTable("assets"),
    DropTable("bookings"), DropTable("availability_windows"), DropTable("kyc_profiles"),
    DropTable("users")>>
  \o DropEnums

Downgrade0001 ==
  <<DropIndex("ix_payments_booking_id", "payments"), DropTable("payments"),
    DropIndex("ix_handover_records_booking_id", "handover_records"),
    DropTable("handover_records"),
    DropIndex("ix_bookings_vendor_id", "bookings"),
    DropIndex("ix_bookings_renter_id", "bookings"),
    DropIndex("ix_bookings_asset_id", "bookings"), DropTable("bookings"),
    DropIndex("ix_availability_windows_asset_id", "availability_windows"),
    DropTable("availability_windows"),
    DropTable("kyc_profiles"),
    DropIndex("ix_assets_vendor_id", "assets"), DropTable("assets"),
    DropIndex("ix_users_phone", "users"), DropTable("users")>>
  \o DropEnums

Upgrade0002 ==
  CreateMissing(Type("listingstatus"))
  \o <<Create({Column("assets", "listing_status", {"listingstatus"})}),
       Create({Column("assets", "minimum_trust_tier", {})}),
       Create({Column("assets", "review_actor_id", {}),
               ForeignKey("assets", "review_actor_id", "users")}),
       Create({Column("assets", "reviewed_at", {})}),
       Create({Column("assets", "review_reason", {})}),
       Backfill,
       Create({TrustTierValid}),
       Create({PublicLagos})>>

Downgrade0002 ==
  <<DropIndex("ix_assets_public_lagos", "assets"),
    Drop("constraint", "assets", "ck_assets_minimum_trust_tier_valid"),
    DropColumn("assets", "review_reason"),
    DropColumn("assets", "reviewed_at"),
    DropColumn("assets", "review_actor_id"),
    DropColumn("assets", "minimum_trust_tier"),
    DropColumn("assets", "listing_status")>>
  \o DropPresent(Type("listingstatus"))

===============================================================================
