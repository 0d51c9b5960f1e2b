------------------------------ MODULE MCEngine ------------------------------
(* Families of small exports: one for the dates, one for the lines of the   *)
(* orders, one for the money, one for the periods, one for the products.    *)
EXTENDS Engine

Iso(day) == [form |-> "iso", day |-> day]
Slash(a, b) == [form |-> "slash", first |-> a, second |-> b]
Blank == [form |-> "none"]

\* A plain line of the orders, of which each family changes a few cells.
Plain ==
    [ order |-> 1, date |-> Iso(6), email |-> "e", currency |-> "EUR", total |-> 10, subtotal |-> 10,
      discount |-> 0, shipping |-> 0, tax |-> 0, refunded |-> None, cancelled |-> FALSE, draft |-> FALSE,
      settled |-> TRUE, quantity |-> 1, price |-> 10, sku |-> "s" ]

Only(orders) == [shopify_products |-> None, shopify_orders |-> orders, stripe |-> None, google_ads |-> None]
Upto(n, S) == UNION { [1..k -> S] : k \in 1..n }

\* Dates: columns of up to three cells, for the orders, the payments or the campaigns.
Cells == { Iso(3), Blank, Slash(3, 4), Slash(4, 4), Slash(13, 4), Slash(4, 13), Slash(13, 13), Slash(31, 2) }
Columns == Upto(3, Cells)

DatedOrders == { Only([ i \in DOMAIN c |-> [Plain EXCEPT !.order = i, !.date = c[i]] ]) : c \in Columns }

OnePay == [ id |-> 1, date |-> Iso(6), amount |-> 10, fee |-> 1, net |-> 9, refunded |-> None, order |-> 1, currency |-> "EUR" ]
OneAd == [ date |-> Iso(6), campaign |-> 1, spend |-> 2, clicks |-> 2, conversions |-> 1 ]

DatedOthers ==
    { [Only(<< Plain >>) EXCEPT !.stripe = [ i \in DOMAIN c |-> [OnePay EXCEPT !.id = i, !.date = c[i]] ]]
        : c \in Upto(2, Cells) }
    \cup { [Only(<< Plain >>) EXCEPT !.google_ads = [ i \in DOMAIN c |-> [OneAd EXCEPT !.campaign = i, !.date = c[i]] ]]
        : c \in Upto(2, Cells) }

\* Lines: articles repeated, refused, opening and continuing orders.
OrderLineKinds ==
    { Plain, [Plain EXCEPT !.sku = None, !.email = None], [Plain EXCEPT !.date = Blank, !.price = 3],
      [Plain EXCEPT !.quantity = None, !.currency = None], [Plain EXCEPT !.order = None],
      [Plain EXCEPT !.order = 2, !.email = "f", !.currency = "USD", !.draft = TRUE],
      [Plain EXCEPT !.order = 2, !.date = Blank] }
Lined == { Only(c) : c \in [1..4 -> OrderLineKinds] }

\* Files that stop the reading, and files that have nothing.
Odd ==
    { Only(<< >>), [Only(None) EXCEPT !.stripe = << OnePay >>],
      Only(<< [Plain EXCEPT !.total = Broken] >>), Only(<< Plain, [Plain EXCEPT !.price = Broken] >>),
      [Only(<< Plain >>) EXCEPT !.shopify_products = << [sku |-> "s", cost |-> Broken] >>],
      [Only(<< Plain >>) EXCEPT !.stripe = << [OnePay EXCEPT !.fee = Broken] >>],
      [Only(<< Plain >>) EXCEPT !.stripe = << OnePay, [OnePay EXCEPT !.id = 2, !.net = Broken] >>],
      [Only(<< Plain >>) EXCEPT !.google_ads = << [OneAd EXCEPT !.spend = Broken] >>] }

\* Money: one or two orders with what was invoiced, refunded and paid.
Money ==
    { Only([ i \in DOMAIN m |->
               [Plain EXCEPT !.order = i, !.subtotal = m[i][1], !.total = m[i][2], !.refunded = m[i][3],
                             !.discount = 2, !.shipping = 2, !.cancelled = TRUE, !.settled = FALSE] ])
        : m \in Upto(2, {-2, 0, 6} \X {None, 6, 7, 8} \X {-2, 2, 8}) }

\* Products, costs, fees and campaigns on one order of two articles, the second of which may
\* take back what the first one brings, or more.
ProductLines == { [sku |-> k, cost |-> v] : k \in {"s", "t", None}, v \in {None, -1, 3, 9} }
Costed ==
    { [ shopify_products |-> p,
        shopify_orders |-> << Plain, [Plain EXCEPT !.sku = "t", !.price = z] >>, stripe |-> pay, google_ads |-> ad ]
        : p \in Upto(2, ProductLines), z \in {-20, -10, 0, 10},
          pay \in { << OnePay, OnePay, [OnePay EXCEPT !.id = None] >>,
                    << [OnePay EXCEPT !.fee = -1, !.refunded = 4], [OnePay EXCEPT !.id = 2, !.refunded = -4] >> },
          ad \in { None, << OneAd, OneAd, [OneAd EXCEPT !.campaign = None] >>,
                   << [OneAd EXCEPT !.spend = -1], [OneAd EXCEPT !.campaign = 2, !.conversions = 3] >> } }

\* Periods: orders and advertising over five weeks or months, customers coming back.
Histories ==
    LET Amount == [1..5 -> {0, 4, 10}]
        Day(i) == -28 + 7 * i
        Orders(a) == [ i \in 1..5 |->
            [Plain EXCEPT !.order = i, !.date = Iso(Day(i) - (i % 2)), !.email = IF i % 3 = 0 THEN "f" ELSE "e",
                          !.subtotal = a[i], !.total = a[i], !.price = a[i]] ]
        Ads(c) == [ i \in 1..5 |-> [OneAd EXCEPT !.date = Iso(Day(i)), !.clicks = c[i], !.spend = 2 * c[i],
                                                 !.conversions = i % 4] ]
    IN  { [Only(Orders(a)) EXCEPT !.google_ads = ads] : a \in Amount,
            ads \in {None} \cup { Ads(c) : c \in { [ i \in 1..5 |-> 2 ], << 2, 2, 2, 2, 5 >>, << 2, 2, 5, 5, 1 >> } } }

MCExports == DatedOrders \cup DatedOthers \cup Lined \cup Odd \cup Money \cup Costed \cup Histories
MCReferences == {None, 4}
=============================================================================
