------------------------------ MODULE Filings ------------------------------
(***************************************************************************)
(* What a scan makes of its sources: the listings of an exchange           *)
(* (services/universe_catalog.py), the annual facts that a company filed   *)
(* with the SEC and the rows of the OpenDART bundles                       *)
(* (services/bulk_fundamentals.py).                                        *)
(*                                                                         *)
(* A document grows by one row at a time and is parsed as a whole; the     *)
(* order of its rows is the source's.  The documents are independent, so a *)
(* behaviour builds one kind of them.  A figure is the number of the row   *)
(* that gives it.                                                          *)
(***************************************************************************)
EXTENDS Integers, FiniteSets, Sequences, SequencesExt

CONSTANTS
    Kinds,       \* the documents that may be built
    Tickers,     \* symbols of the listings
    KeyOf,       \* per symbol, how it is matched: "BRK-B" is "BRK.B"
    Ciks,        \* numbers of the SEC
    TagsOf,      \* per field, the tags that may report it, preferred first
    Units,       \* currencies, the dollar first and then by name
    YearSet,     \* fiscal years
    Dates,       \* days of filing
    MaxRows,     \* bound: per kind, the rows of a document
    None

VARIABLES
    kind,      \* the documents of this behaviour
    market,
    listing,   \* the two listings of the market: rows, or None when missing
    ciks,      \* the SEC's table of numbers and symbols
    facts,     \* the facts that a company filed
    accounts   \* the rows of a company in the OpenDART bundles

vars == <<kind, market, listing, ciks, facts, accounts>>

----------------------------------------------------------------------------
(* Listings *)

\* The rows that count as the listing's, and those of common shares; a KRX row that
\* is too short does not count.
Counted(rows) == {n \in 1 .. Len(rows) : market = "KR" => rows[n].class # "short"}
Common(rows)  == {n \in 1 .. Len(rows) : rows[n].class = "common"}

Usable(rows) == rows # None /\ Common(rows) # {}

Key_Symbol(r) == r.ticker

\* What tells securities apart.
Key(r) == IF market = "US" THEN KeyOf[r.ticker] ELSE r.ticker

\* The first row of a symbol counts.
CikOf(key) ==
    LET s == SelectSeq(ciks, LAMBDA r : KeyOf[r.ticker] = key)
    IN  IF s = <<>> THEN None ELSE s[1].cik

\* The records of both listings, one listing after the other.
Records == UNION {{<<i, n>> : n \in Common(listing[i])} : i \in 1 .. 2}
Row(p) == listing[p[1]][p[2]]
Before(p, q) == p[1] < q[1] \/ (p[1] = q[1] /\ p[2] < q[2])

\* Of the records with one key the first is taken.
Taken == {p \in Records : \A q \in Records : Before(q, p) => Key(Row(q)) # Key(Row(p))}

\* Both listings are required.
Snapshot ==
    LET raw == Cardinality(Counted(listing[1])) + Cardinality(Counted(listing[2]))
    IN  IF ~(Usable(listing[1]) /\ Usable(listing[2])) THEN None
        ELSE [members |-> {[ticker |-> Row(p).ticker, file |-> p[1],
                            cik |-> IF market = "US" THEN CikOf(Key(Row(p))) ELSE None] :
                              p \in Taken},
              raw |-> raw, excluded |-> raw - Cardinality(Records),
              duplicates |-> Cardinality(Records) - Cardinality(Taken)]

----------------------------------------------------------------------------
(* Facts filed with the SEC *)

\* The currency of the whole report: the dollar if the first revenue tag with
\* a currency has it, or the first by name.
Currency ==
    LET reported(t) == {u \in ToSet(Units) : \E n \in 1 .. Len(facts) :
                           facts[n].tag = t /\ facts[n].unit = u}
        tags == SelectSeq(TagsOf["revenue"], LAMBDA t : reported(t) # {})
    IN  IF tags = <<>> THEN None
        ELSE SelectSeq(Units, LAMBDA u : u \in reported(tags[1]))[1]

Newer_Always(filed, than) == TRUE

\* An entry replaces the one of its year only if it was filed later.
Newer(filed, than) == than = None \/ filed > facts[than].filed

Entry(tag, unit, n) == facts[n].tag = tag /\ facts[n].unit = unit /\ facts[n].annual

\* What the loop over the entries of a tag ends with for a year.
Latest(tag, unit, y) ==
    LET last[n \in 0 .. Len(facts)] ==
            IF n = 0 THEN None
            ELSE IF Entry(tag, unit, n) /\ facts[n].year = y /\ Newer(facts[n].filed, last[n - 1])
                 THEN n ELSE last[n - 1]
    IN  last[Len(facts)]

\* _sec_annual_values: the first tag with annual entries is the only one used.
Annual(field, unit) ==
    LET tags == SelectSeq(TagsOf[field], LAMBDA t : \E n \in 1 .. Len(facts) : Entry(t, unit, n))
    IN  [y \in YearSet |-> IF tags = <<>> THEN None ELSE Latest(tags[1], unit, y)]

\* _parse_sec_company_facts: the last three years with revenue, and the latest
\* day on which a figure of theirs was filed.
Company ==
    LET unit   == Currency
        series == [f \in DOMAIN TagsOf |-> Annual(f, unit)]
        known  == {y \in YearSet : unit # None /\ series["revenue"][y] # None}
        years  == {y \in known : Cardinality({z \in known : z > y}) < 3}
        days   == UNION {{facts[series[f][y]].filed : y \in {z \in years : series[f][z] # None}} :
                           f \in DOMAIN TagsOf}
    IN  IF years = {} THEN None
        ELSE [currency |-> unit, years |-> years,
              figures |-> [f \in DOMAIN TagsOf |-> [y \in years |-> series[f][y]]],
              reported |-> CHOOSE d \in days : \A e \in days : e <= d]

----------------------------------------------------------------------------
(* Rows of the OpenDART bundles *)

\* _find_dart_account: the first consolidated row of the account, or else its
\* first row; its three amounts are the account's three years.
AccountRow(field) ==
    LET rows         == {n \in 1 .. Len(accounts) : accounts[n].field = field}
        consolidated == {n \in rows : accounts[n].consolidated}
        from         == IF consolidated # {} THEN consolidated ELSE rows
    IN  IF rows = {} THEN None ELSE CHOOSE n \in from : \A k \in from : n <= k

\* _parse_dart_rows: a company's figures, account by account.
Statement == [f \in DOMAIN TagsOf |-> AccountRow(f)]

----------------------------------------------------------------------------

Init ==
    /\ kind \in Kinds
    /\ market \in IF kind = "listing" THEN {"US", "KR"} ELSE {None}
    /\ listing \in {<<a, b>> : a, b \in IF kind = "listing" THEN {None, <<>>} ELSE {<<>>}}
    /\ ciks = <<>> /\ facts = <<>> /\ accounts = <<>>

\* A row of one of the listings that were obtained.
ListSecurity(n, t, class) ==
    /\ kind = "listing" /\ listing[n] # None /\ Len(listing[n]) < MaxRows[kind]
    /\ class = "short" => market = "KR"
    /\ listing' = [listing EXCEPT ![n] = Append(@, [ticker |-> t, class |-> class])]
    /\ UNCHANGED <<kind, market, ciks, facts, accounts>>

\* A row of the SEC's table, which is read for the United States only.
ListCik(t, c) ==
    /\ kind = "listing" /\ market = "US" /\ Len(ciks) < MaxRows[kind]
    /\ ciks' = Append(ciks, [ticker |-> t, cik |-> c])
    /\ UNCHANGED <<kind, market, listing, facts, accounts>>

File(tag, unit, year, day, annual) ==
    /\ kind = "facts" /\ Len(facts) < MaxRows[kind]
    /\ facts' = Append(facts, [tag |-> tag, unit |-> unit, year |-> year, filed |-> day,
                               annual |-> annual])
    /\ UNCHANGED <<kind, market, listing, ciks, accounts>>

Account(field, consolidated) ==
    /\ kind = "accounts" /\ Len(accounts) < MaxRows[kind]
    /\ accounts' = Append(accounts, [field |-> field, consolidated |-> consolidated])
    /\ UNCHANGED <<kind, market, listing, ciks, facts>>

Tags == UNION {ToSet(TagsOf[f]) : f \in DOMAIN TagsOf}

Next ==
    \/ \E n \in 1 .. 2, t \in Tickers, c \in {"common", "other", "short"} : ListSecurity(n, t, c)
    \/ \E t \in Tickers, c \in Ciks : ListCik(t, c)
    \/ \E t \in Tags, u \in ToSet(Units), y \in YearSet, d \in Dates, a \in BOOLEAN : File(t, u, y, d, a)
    \/ \E f \in DOMAIN TagsOf, c \in BOOLEAN : Account(f, c)

Spec == Init /\ [][Next]_vars

----------------------------------------------------------------------------
(* Properties *)

SameSecurity(l, m) == IF market = "US" THEN KeyOf[l.ticker] = KeyOf[m.ticker] ELSE l.ticker = m.ticker

\* A listing accounts for every row it counted, has each security once under
\* whatever spelling, loses none, and gives it one number.
ListingIsWhole ==
    kind = "listing" =>
        LET s == Snapshot
        IN  s # None =>
            /\ s.raw = Cardinality(s.members) + s.excluded + s.duplicates
            /\ s.excluded >= 0
            /\ \A p \in Records : \E m \in s.members : SameSecurity(Row(p), m)
            /\ \A l, m \in s.members : SameSecurity(l, m) => l = m

\* Every figure of a company is in the one currency of its report and is the
\* one filed last for its year, in whatever order the entries are listed; a
\* consolidated account is never passed over for a separate one.
LatestFilingPrevails ==
    /\ kind = "facts" =>
          LET c == Company IN
          c # None => \A f \in DOMAIN TagsOf, y \in c.years :
              LET n == c.figures[f][y]
              IN  n # None =>
                    /\ facts[n].unit = c.currency
                    /\ \A k \in 1 .. Len(facts) :
                          facts[k].annual /\ facts[k].tag = facts[n].tag /\ facts[k].year = y
                          /\ facts[k].unit = facts[n].unit
                          => facts[k].filed <= facts[n].filed
                    /\ facts[n].filed <= c.reported
    /\ kind = "accounts" =>
          \A n \in 1 .. Len(accounts) :
              LET m == Statement[accounts[n].field]
              IN  accounts[n].consolidated => accounts[m].consolidated /\ m <= n
=============================================================================
