----------------------------- MODULE Ingestion -----------------------------
(***************************************************************************)
(* The reading of a merchant's exports (ingestion/, domain/quality.py and  *)
(* analytics/pipeline.py load_dataset): four files, read one line at a     *)
(* time, each line accepted, deduplicated or refused with a quality issue. *)
(*                                                                         *)
(* export[s] is None when the file is not supplied, otherwise its lines in *)
(* order.  A line is a record of the cells the code reads; an amount cell  *)
(* is an integer, None when empty, Broken when it is not a number (the     *)
(* whole reading then fails: InvalidDataError).  Titles, statuses and      *)
(* encodings are left out; a customer is the lower-cased e-mail, a campaign *)
(* its identifier, an integer.                                             *)
(***************************************************************************)
EXTENDS Calendar, Lists

CONSTANTS
    None,       \* an empty cell, an absent file
    Broken,     \* a cell that is not a number
    Exports,    \* the exports a behaviour may start from
    Tolerance   \* _TOTAL_TOLERANCE, the rounding of a total

VARIABLES
    export,     \* the files supplied
    source,     \* the file being read, as an index of Sources
    line,       \* its next line
    book,       \* what has been read: the dataset and the locals of the loops
    quality,    \* the DataQualityReport
    stage       \* "reading", then "read" or "rejected"

readVars == << export, source, line, book, quality, stage >>

Sources == << "shopify_products", "shopify_orders", "stripe", "google_ads" >>

\* The fields of the report that load_dataset() ends by setting.
Fields == {"product_cogs", "order_revenue", "customer_identity", "payment_fees", "ad_spend", "currency"}

\* What a date cell may hold.
DateCells == [form : {"iso"}, day : Int] \cup [form : {"slash"}, first : Nat, second : Nat] \cup [form : {"none"}]

\* A file is a list of lines, in which dates are cells, quantities are amounts and campaigns
\* have numbers.
ASSUME IngestionAssumption ==
    \A e \in Exports :
        /\ DOMAIN e = ToSet(Sources)
        /\ \A name \in ToSet(Sources) : e[name] # None =>
              /\ e[name] \in Seq(ToSet(e[name]))
              /\ \A i \in DOMAIN e[name] :
                    /\ name # "shopify_products" => e[name][i].date \in DateCells
                    /\ name = "shopify_orders" => e[name][i].quantity \in Int \cup {None, Broken}
                    /\ name = "google_ads" => e[name][i].campaign \in Int \cup {None}

\* The calendar of the model begins a year before the first date and ends with the last: dates
\* are of 2023 and 2024, slash dates of 2024.
Days == -365..365

ASSUME CalendarAssumption ==
    \A e \in Exports : \A name \in {"shopify_orders", "google_ads"} : e[name] # None =>
        \A i \in DOMAIN e[name] : e[name][i].date.form = "iso" => e[name][i].date.day \in Days

EmptyBook ==
    [ products |-> << >>, orders |-> << >>, refunds |-> << >>, payments |-> << >>,
      campaigns |-> {}, ads |-> << >>, currency |-> None,
      withTotal |-> {}, cancelled |-> {}, drafts |-> {}, identified |-> 0, invalid |-> 0,
      accepted |-> 0, priced |-> 0, withFee |-> 0, paid |-> {}, spent |-> {} ]

EmptyQuality ==
    [ issues |-> {}, fields |-> << >>, rows |-> << >>, currencies |-> << >> ]

ReadInit ==
    /\ export \in Exports
    /\ source = 1
    /\ line = 1
    /\ book = EmptyBook
    /\ quality = EmptyQuality
    /\ stage = "reading"

-----------------------------------------------------------------------------
(* The quality report.                                                     *)

Coverage(covered, total) ==
    CASE total = 0 \/ covered <= 0 -> "unavailable"
      [] total > 0 /\ covered > 0 /\ 100 * covered >= 95 * total -> "reliable"
      [] OTHER -> "incomplete"

\* A function with the value of a key set, be it new or not.
With(f, key, value) == [k \in DOMAIN f \cup {key} |-> IF k = key THEN value ELSE f[k]]

AddIssue(q, from, kind, severity) == [q EXCEPT !.issues = @ \cup {<< from, kind, severity >>}]

SetStatus(q, field, status) == [q EXCEPT !.fields = With(@, field, status)]

SetRows(q, from, total, accepted) ==
    [q EXCEPT !.rows = With(@, from, [total |-> total, accepted |-> accepted])]

\* observe_currency(): the currencies seen in a source, an empty cell never.
ObserveCurrency(q, from, currency) ==
    IF currency = None THEN q
    ELSE LET seen == IF from \in DOMAIN q.currencies THEN q.currencies[from] ELSE {}
         IN  [q EXCEPT !.currencies = With(@, from, seen \cup {currency})]

DistinctCurrencies(q) == UNION { q.currencies[s] : s \in DOMAIN q.currencies }

Rejected(counts) == IF counts.accepted > counts.total THEN 0 ELSE counts.total - counts.accepted

-----------------------------------------------------------------------------
(* Going through the files.                                                *)

Lines == export[Sources[source]]
Row == Lines[line]

Reading(name) ==
    /\ stage = "reading"
    /\ source <= Len(Sources)
    /\ Sources[source] = name
    /\ Lines # None

AtRow(name) == Reading(name) /\ line <= Len(Lines)
AtEnd(name) == Reading(name) /\ Len(Lines) > 0 /\ line > Len(Lines)

NextLine == line' = line + 1 /\ UNCHANGED << export, source, stage >>
NextFile == source' = source + 1 /\ line' = 1 /\ UNCHANGED export

\* read_csv() and require_columns() refuse a file without a line of data, and an
\* amount that is not a number: the whole reading fails.
RejectReading ==
    /\ stage' = "rejected"
    /\ UNCHANGED << export, source, line, book, quality >>

EmptyFile ==
    /\ \E i \in 1..Len(Sources) : Reading(Sources[i])
    /\ Lines = << >>
    /\ RejectReading

\* A source that is not supplied: an issue, and its field unavailable.  The orders
\* are required (REQUIRED_SOURCES): without them nothing is analysed.
MissingField(name) ==
    CASE name = "shopify_products" -> "product_cogs"
      [] name = "stripe" -> "payment_fees"
      [] name = "google_ads" -> "ad_spend"

SkipSource ==
    /\ stage = "reading"
    /\ source <= Len(Sources)
    /\ Lines = None
    /\ LET name == Sources[source]
       IN  IF name = "shopify_orders" THEN RejectReading
           ELSE /\ quality' = SetStatus(AddIssue(quality, name, "source_missing", "warning"),
                                        MissingField(name), "unavailable")
                /\ NextFile
                /\ UNCHANGED << book, stage >>

-----------------------------------------------------------------------------
(* The products: one cost per SKU, the last line of a SKU winning.         *)

SkipUnnamedProduct ==
    /\ AtRow("shopify_products")
    /\ Row.sku = None
    /\ quality' = AddIssue(quality, "shopify", "missing_sku", "warning")
    /\ NextLine
    /\ UNCHANGED book

ReadProduct ==
    /\ AtRow("shopify_products")
    /\ Row.sku # None
    /\ IF Row.cost = Broken THEN RejectReading
       ELSE LET negative == Row.cost # None /\ Row.cost < 0
                cost == IF negative THEN None ELSE Row.cost
            IN  /\ book' = [book EXCEPT !.products = With(@, Row.sku, cost),
                                        !.priced = IF cost = None THEN @ ELSE @ + 1]
                /\ quality' = IF negative THEN AddIssue(quality, "shopify", "negative_cogs", "error")
                              ELSE quality
                /\ NextLine

EndProducts ==
    /\ AtEnd("shopify_products")
    /\ LET known == Cardinality(DOMAIN book.products)
       IN  quality' = SetStatus(SetRows(quality, "shopify_products", Len(Lines), known),
                                "product_cogs", Coverage(book.priced, known))
    /\ NextFile
    /\ UNCHANGED << book, stage >>

-----------------------------------------------------------------------------
(* The orders: one line per article, the order's own cells being read on   *)
(* the first line that names it.                                           *)

DateOrder == DetectDateOrder([ i \in DOMAIN Lines |-> Lines[i].date ])

PlaceOf(orders, id) == CHOOSE i \in DOMAIN orders : orders[i].id = id
HasOrder(orders, id) == \E i \in DOMAIN orders : orders[i].id = id

Amounts == {"total", "subtotal", "discount", "shipping", "tax", "refunded"}

OrZero(cell) == IF cell = None THEN 0 ELSE cell

\* An amount cell holds a number, nothing, or what is not a number; a total is rounded by
\* some cents or none.
AmountCells == Int \cup {None, Broken}

ASSUME AmountAssumption ==
    /\ Tolerance \in Nat
    /\ \A e \in Exports :
          /\ e.shopify_orders # None =>
                \A i \in DOMAIN e.shopify_orders : \A c \in Amounts \cup {"quantity", "price"} :
                    e.shopify_orders[i][c] \in AmountCells
          /\ e.stripe # None => \A i \in DOMAIN e.stripe : e.stripe[i].refunded \in AmountCells

\* The order its first line opens, with no article yet.
OpenedOrder(row, day) ==
    [ id |-> row.order, day |-> day, currency |-> row.currency,
      customer |-> IF row.email = None THEN << "guest", row.order >> ELSE << "email", row.email >>,
      subtotal |-> OrZero(row.subtotal), discount |-> OrZero(row.discount),
      shipping |-> OrZero(row.shipping), tax |-> OrZero(row.tax),
      total |-> OrZero(row.total), settled |-> row.settled, items |-> << >> ]

\* The order joins the book, with its refund.
Opened(b, row, day) ==
    [b EXCEPT
        !.orders = Append(@, OpenedOrder(row, day)),
        !.refunds = IF OrZero(row.refunded) > 0
                    THEN Append(@, [ id |-> row.order, order |-> row.order, day |-> day, amount |-> row.refunded,
                                     source |-> "shopify" ])
                    ELSE @,
        !.currency = IF row.currency = None THEN @ ELSE row.currency,
        !.withTotal = IF row.total = None THEN @ ELSE @ \cup {row.order},
        !.cancelled = IF row.cancelled THEN @ \cup {row.order} ELSE @,
        !.drafts = IF row.draft THEN @ \cup {row.order} ELSE @,
        !.identified = IF row.email = None THEN @ ELSE @ + 1,
        !.accepted = @ + 1]

OpeningIssues(q, row) ==
    LET told == { << "shopify", k[1], k[2] >> : k \in
                  { << "missing_email", "warning" >> : x \in {row.email} \cap {None} }
                  \cup { << "missing_currency", "warning" >> : x \in {row.currency} \cap {None} }
                  \cup { << "negative_refund", "error" >> :
                         x \in { a \in {OrZero(row.refunded)} : a < 0 } } }
    IN  ObserveCurrency([q EXCEPT !.issues = @ \cup told], "shopify", row.currency)

\* The article of a line joins its order, unless the same article is already there.
\* created_here: the line that gives an order its first article was counted when
\* the order was opened.
Article(row) == [ sku |-> row.sku, quantity |-> OrZero(row.quantity), price |-> OrZero(row.price) ]

\* Mutant: an article is a duplicate only when it repeats the line just before it.
IsDuplicateFaulty(b, row) ==
    LET items == b.orders[PlaceOf(b.orders, row.order)].items
    IN  items # << >> /\ items[Len(items)] = Article(row)

IsDuplicate(b, row) ==
    LET items == b.orders[PlaceOf(b.orders, row.order)].items
    IN  \E k \in DOMAIN items : items[k] = Article(row)

Itemised(b, row) ==
    LET place == PlaceOf(b.orders, row.order)
    IN  IF OrZero(row.quantity) <= 0 \/ IsDuplicate(b, row) THEN b
        ELSE [b EXCEPT !.orders[place].items = Append(@, Article(row)),
                       !.accepted = IF b.orders[place].items = << >> THEN @ ELSE @ + 1]

ItemIssues(q, b, row) ==
    IF OrZero(row.quantity) <= 0 THEN q
    ELSE IF IsDuplicate(b, row) THEN AddIssue(q, "shopify", "duplicate_line_item", "warning")
    ELSE IF row.sku = None THEN AddIssue(q, "shopify", "missing_line_sku", "warning") ELSE q

RefuseUnnamedLine ==
    /\ AtRow("shopify_orders")
    /\ Row.order = None
    /\ book' = [book EXCEPT !.invalid = @ + 1]
    /\ quality' = AddIssue(quality, "shopify", "missing_order_id", "error")
    /\ NextLine

RefuseUndatedOrder ==
    /\ AtRow("shopify_orders")
    /\ Row.order # None
    /\ ~HasOrder(book.orders, Row.order)
    /\ ReadDate(Row.date, DateOrder) = {}
    /\ book' = [book EXCEPT !.invalid = @ + 1]
    /\ quality' = AddIssue(quality, "shopify", "invalid_date", "error")
    /\ NextLine

OpenOrder ==
    /\ AtRow("shopify_orders")
    /\ Row.order # None
    /\ ~HasOrder(book.orders, Row.order)
    /\ \E day \in ReadDate(Row.date, DateOrder) :
          IF Broken \in { Row[c] : c \in Amounts \cup {"quantity", "price"} } THEN RejectReading
          ELSE LET opened == Opened(book, Row, day)
               IN  /\ book' = Itemised(opened, Row)
                   /\ quality' = ItemIssues(OpeningIssues(quality, Row), opened, Row)
                   /\ NextLine

ContinueOrder ==
    /\ AtRow("shopify_orders")
    /\ Row.order # None
    /\ HasOrder(book.orders, Row.order)
    /\ IF Broken \in {Row.quantity, Row.price} THEN RejectReading
       ELSE /\ book' = Itemised(book, Row)
            /\ quality' = ItemIssues(quality, book, Row)
            /\ NextLine

-----------------------------------------------------------------------------
(* The checks that close the reading of the orders.                        *)

Close(a, b) == a - b <= Tolerance /\ b - a <= Tolerance

\* Does the total of an order agree with a subtotal after discount, and before it?
AgreesAfter(o) == Close(o.total, o.subtotal + o.shipping + o.tax) \/ Close(o.total, o.subtotal + o.shipping)
AgreesBefore(o) == LET net == o.subtotal - o.discount
                   IN  Close(o.total, net + o.shipping + o.tax) \/ Close(o.total, net + o.shipping)

\* _check_subtotal_contract(): contradicted, or not verifiable; never both for one order.
SubtotalIssues(b) ==
    LET orders == ToSet(b.orders)
        totalled == { o \in orders : o.id \in b.withTotal }
        contradicting == { o \in totalled : o.discount > 0 /\ AgreesBefore(o) /\ ~AgreesAfter(o) }
        undecided == { o \in totalled :
                         IF o.discount > 0 THEN AgreesAfter(o) = AgreesBefore(o) ELSE ~AgreesAfter(o) }
    IN  { << "shopify", "subtotal_convention_contradiction", "error" >> : o \in contradicting }
        \cup { << "shopify", "subtotal_contract_unverified", "warning" >> :
               o \in undecided \cup (orders \ totalled) }

\* _check_refund_basis() and _report_order_semantics(): what the reader must know.
SemanticIssues(b) ==
    LET orders == ToSet(b.orders)
        Told(kind, severity, some) == { << "shopify", kind, severity >> : o \in some }
    IN  Told("missing_order_total", "warning", { o \in orders : o.id \notin b.withTotal })
        \cup Told("refund_exceeds_order_total", "warning",
                  { o \in orders : o.id \in b.withTotal /\
                      \E r \in ToSet(b.refunds) : r.order = o.id /\ r.amount > o.total + Tolerance })
        \cup Told("negative_subtotal", "warning", { o \in orders : o.subtotal < 0 })
        \cup Told("cancelled_orders_counted", "warning", { o \in orders : o.id \in b.cancelled })
        \cup Told("unsettled_orders_counted", "warning", { o \in orders : ~o.settled })
        \cup Told("zero_value_orders_counted", "info", { o \in orders : o.subtotal = 0 })
        \cup Told("draft_orders_counted", "info", { o \in orders : o.id \in b.drafts })

\* The orders leave sorted by creation, those of one day as the file has them.
ByDay(orders) ==
    Sorted(orders, { p \in (DOMAIN orders) \X (DOMAIN orders) :
                        \/ orders[p[1]].day < orders[p[2]].day
                        \/ orders[p[1]].day = orders[p[2]].day /\ p[1] < p[2] })

EndOrders ==
    /\ AtEnd("shopify_orders")
    /\ book' = [book EXCEPT !.orders = ByDay(@)]
    /\ LET n == Len(book.orders)
           told == { << "shopify", k, IF k = "date_order_inferred" THEN "info" ELSE "error" >> :
                       k \in DateOrderIssues([ i \in DOMAIN Lines |-> Lines[i].date ]) }
           counted == SetRows(quality, "shopify_orders", Len(Lines), book.accepted)
           checked == [counted EXCEPT !.issues = @ \cup told \cup SubtotalIssues(book) \cup SemanticIssues(book)]
       IN  quality' = SetStatus(SetStatus(checked, "order_revenue", Coverage(n, n + book.invalid)),
                                "customer_identity", Coverage(book.identified, n))
    /\ IF book.accepted = 0 THEN stage' = "rejected" /\ UNCHANGED << export, source, line >>
       ELSE NextFile /\ UNCHANGED stage

-----------------------------------------------------------------------------
(* The payments: an identifier is taken once, before its date is looked at. *)

SkipUnnamedPayment ==
    /\ AtRow("stripe")
    /\ Row.id = None
    /\ quality' = AddIssue(quality, "stripe", "missing_id", "error")
    /\ NextLine
    /\ UNCHANGED book

SkipRepeatedPayment ==
    /\ AtRow("stripe")
    /\ Row.id \in book.paid
    /\ quality' = AddIssue(quality, "stripe", "duplicate_payment", "warning")
    /\ NextLine
    /\ UNCHANGED book

RefuseUndatedPayment ==
    /\ AtRow("stripe")
    /\ Row.id \notin book.paid \cup {None}
    /\ ReadDate(Row.date, DateOrder) = {}
    /\ book' = [book EXCEPT !.paid = @ \cup {Row.id}]
    /\ quality' = AddIssue(quality, "stripe", "invalid_date", "error")
    /\ NextLine

\* The amount and the net of a payment have to be numbers; no figure is made of them.
ReadPayment ==
    /\ AtRow("stripe")
    /\ Row.id \notin book.paid \cup {None}
    /\ \E day \in ReadDate(Row.date, DateOrder) :
          IF Broken \in {Row.amount, Row.fee, Row.net, Row.refunded} THEN RejectReading
          ELSE LET fee == IF Row.fee # None /\ Row.fee < 0 THEN None ELSE Row.fee
                   refunded == OrZero(Row.refunded)
                   told == { << "stripe", "negative_fee", "error" >> : x \in {Row.fee} \ {fee} }
                           \cup { << "stripe", "negative_refund", "error" >> : x \in { a \in {refunded} : a < 0 } }
               IN  /\ book' = [book EXCEPT
                        !.paid = @ \cup {Row.id},
                        !.payments = Append(@, [ id |-> Row.id, day |-> day, fee |-> fee ]),
                        !.refunds = IF refunded <= 0 THEN @
                                    ELSE Append(@, [ id |-> Row.id, order |-> Row.order, day |-> day,
                                                     amount |-> refunded, source |-> "stripe" ]),
                        !.withFee = IF fee = None THEN @ ELSE @ + 1]
                   /\ quality' = ObserveCurrency([quality EXCEPT !.issues = @ \cup told],
                                                 "stripe", Row.currency)
                   /\ NextLine

\* _reconcile_refunds(): Shopify is believed, a gap above one percent is told.
RefundTotal(b, from) ==
    LET places == { i \in DOMAIN b.refunds : b.refunds[i].source = from }
    IN  MapThenSumSet(LAMBDA i : b.refunds[i].amount, places)

EndPayments ==
    /\ AtEnd("stripe")
    /\ LET shopify == RefundTotal(book, "shopify")
           stripe == RefundTotal(book, "stripe")
           gap == IF shopify > stripe THEN shopify - stripe ELSE stripe - shopify
           mismatch == shopify > 0 /\ stripe > 0 /\ 100 * gap > Max({shopify, stripe})
           told == { << "stripe", k, IF k = "date_order_inferred" THEN "info" ELSE "error" >> :
                       k \in DateOrderIssues([ i \in DOMAIN Lines |-> Lines[i].date ]) }
                   \cup { << "reconciliation", "refund_mismatch", "warning" >> : x \in {mismatch} \cap {TRUE} }
           counted == SetRows(quality, "stripe", Len(Lines), Len(book.payments))
       IN  quality' = SetStatus([counted EXCEPT !.issues = @ \cup told],
                                "payment_fees", Coverage(book.withFee, Len(book.payments)))
    /\ NextFile
    /\ UNCHANGED << book, stage >>

-----------------------------------------------------------------------------
(* The advertising report: one line per campaign and day.                  *)

RefuseUndatedAd ==
    /\ AtRow("google_ads")
    /\ ReadDate(Row.date, DateOrder) = {}
    /\ quality' = AddIssue(quality, "google_ads", "invalid_date", "error")
    /\ NextLine
    /\ UNCHANGED book

ReadAd ==
    /\ AtRow("google_ads")
    /\ \E day \in ReadDate(Row.date, DateOrder) :
          LET key == << Row.campaign, day >>
              spend == OrZero(Row.spend)
              Refuse(kind, severity) ==
                  quality' = AddIssue(quality, "google_ads", kind, severity) /\ NextLine
          IN  CASE Row.campaign = None ->
                     Refuse("missing_campaign", "error") /\ UNCHANGED book
                [] Row.campaign # None /\ key \in book.spent ->
                     Refuse("duplicate_ad_row", "warning") /\ UNCHANGED book
                [] /\ Row.campaign # None /\ key \notin book.spent
                   /\ Row.spend = Broken \/ (spend >= 0 /\ Broken \in {Row.clicks, Row.conversions}) ->
                     RejectReading
                [] OTHER ->
                     LET named == [book EXCEPT !.campaigns = @ \cup {Row.campaign},
                                               !.spent = @ \cup {key}]
                     IN  IF spend < 0
                         THEN Refuse("negative_spend", "error") /\ book' = named
                         ELSE /\ book' = [named EXCEPT !.ads = Append(@,
                                    [ day |-> day, campaign |-> Row.campaign, spend |-> spend,
                                      clicks |-> OrZero(Row.clicks), conversions |-> OrZero(Row.conversions) ])]
                              /\ NextLine
                              /\ UNCHANGED quality

ByDayAndCampaign(ads) ==
    Sorted(ads, { p \in (DOMAIN ads) \X (DOMAIN ads) :
                    \/ ads[p[1]].day < ads[p[2]].day
                    \/ ads[p[1]].day = ads[p[2]].day /\ ads[p[1]].campaign < ads[p[2]].campaign })

EndAds ==
    /\ AtEnd("google_ads")
    /\ LET n == Len(book.ads)
           told == { << "google_ads", k, IF k = "date_order_inferred" THEN "info" ELSE "error" >> :
                       k \in DateOrderIssues([ i \in DOMAIN Lines |-> Lines[i].date ]) }
           counted == SetRows(quality, "google_ads", Len(Lines), n)
       IN  quality' = SetStatus([counted EXCEPT !.issues = @ \cup told],
                                "ad_spend", Coverage(n, IF n = 0 THEN 1 ELSE n))
    /\ book' = [book EXCEPT !.ads = ByDayAndCampaign(@)]
    /\ NextFile
    /\ UNCHANGED stage

-----------------------------------------------------------------------------
(* The dataset is complete: one currency, or the amounts say nothing.      *)

CloseReading ==
    /\ stage = "reading"
    /\ source > Len(Sources)
    /\ LET currencies == DistinctCurrencies(quality)
           partial == << "shopify", "missing_currency", "warning" >> \in quality.issues
       IN  quality' =
             IF Cardinality(currencies) > 1
             THEN SetStatus(AddIssue(quality, "reconciliation", "currency_mismatch", "error"),
                            "currency", "unavailable")
             ELSE IF "shopify" \notin DOMAIN quality.currencies
             THEN SetStatus(AddIssue(quality, "shopify", "currency_absent", "warning"),
                            "currency", "unavailable")
             ELSE SetStatus(quality, "currency", IF partial THEN "incomplete" ELSE "reliable")
    /\ stage' = "read"
    /\ UNCHANGED << export, source, line, book >>

ReadNext ==
    \/ EmptyFile \/ SkipSource
    \/ SkipUnnamedProduct \/ ReadProduct \/ EndProducts
    \/ RefuseUnnamedLine \/ RefuseUndatedOrder \/ OpenOrder \/ ContinueOrder \/ EndOrders
    \/ SkipUnnamedPayment \/ SkipRepeatedPayment \/ RefuseUndatedPayment \/ ReadPayment \/ EndPayments
    \/ RefuseUndatedAd \/ ReadAd \/ EndAds
    \/ CloseReading
=============================================================================
