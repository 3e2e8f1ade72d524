------------------------- MODULE ObservationQueries -------------------------
(***************************************************************************)
(* ObservationQueryService (src/app/application/queries/observations.py):  *)
(* a client lists a history page by page, with keyset cursors, while       *)
(* writers revise the observations underneath it, and asks for the latest  *)
(* observation.  A page is one SELECT; between two pages the server keeps  *)
(* nothing, the cursor is all there is.                                    *)
(***************************************************************************)
EXTENDS ObservationVersions, SequencesExt

CONSTANTS
    Position,   \* rank of a key in the order (observation_date, id)
    PageSize,   \* page_size of the requests
    NoListing   \* the client has not asked yet

ASSUME QueryAssumption ==
    /\ PageSize \in Nat \ {0}
    /\ Position \in [Keys -> Nat \ {0}]
    /\ \A j, k \in Keys : Position[j] = Position[k] => j = k
    /\ \A j, k \in Keys : ObservedOn[j] < ObservedOn[k] => Position[j] < Position[k]

VARIABLE listing  \* the client's requests so far

queryVars == <<vars, listing>>

View == [key : Keys, number : Nat, fingerprint : Fingerprints]

Listing == [asOf : Instants \cup {Null},  \* as_of of the requests, Null when left out
            items : Seq(View),            \* the items of the pages received
            cursor : Nat,                 \* position in next_cursor, Null at first
            more : BOOLEAN,               \* there is a next page
            settled : BOOLEAN,            \* as_of was settled at the first request
            known : SUBSET Keys]          \* what the first request could have listed

QueryTypeOK == TypeOK /\ listing \in Listing \cup {NoListing}

QueryInit == Init /\ listing = NoListing

-----------------------------------------------------------------------------
\* _after_cursor, on the pair (observation_date, id).
After(k, cursor) == Position[k] > cursor

\* Faulty variant: every page reads the present.
InstantNow(asOf) == clock

\* as_of defaults to the time of each request.
InstantOf(asOf) == IF asOf = Null THEN clock ELSE asOf

\* The order of the listing, on rows <<key, version>>; rows of one key, which
\* one instant never has, by number.
Precedes(x, y) ==
    \/ Position[x[1]] < Position[y[1]]
    \/ x[1] = y[1] /\ x[2].number < y[2].number

\* The rows a page selects from, in ORDER BY order.
Selected(t, cursor) ==
    LET rows == {x \in Keys \X UNION {AsOf(k, t) : k \in Keys} :
                    After(x[1], cursor) /\ x[2] \in AsOf(x[1], t)}
    IN  CHOOSE s \in [1..Cardinality(rows) -> rows] :
            \A i, j \in DOMAIN s : i < j => Precedes(s[i], s[j])

Views(rows) ==
    [i \in DOMAIN rows |-> [key |-> rows[i][1], number |-> rows[i][2].number,
                            fingerprint |-> rows[i][2].fingerprint]]

Visible(rows) == SubSeq(rows, 1, IF Len(rows) < PageSize THEN Len(rows) ELSE PageSize)

\* Faulty variant: the cursor is taken from the row that was read in excess.
NextCursorExcess(rows) == Position[rows[PageSize + 1][1]]

\* _page: PageSize + 1 rows were read to see whether there is a next page.
NextCursor(rows) == Position[rows[PageSize][1]]

\* The client settles on an as_of, or on none, for all the pages it requests.
StartListing(asOf) ==
    /\ listing = NoListing
    /\ listing' = [asOf |-> asOf, items |-> <<>>, cursor |-> Null, more |-> TRUE,
                   settled |-> asOf # Null /\ Settled(asOf),
                   known |-> {k \in Keys : AsOf(k, InstantOf(asOf)) # {}}]
    /\ UNCHANGED vars

\* fx_history, policy_history.
RequestPage ==
    /\ listing # NoListing
    /\ listing.more
    /\ LET rows == Selected(InstantOf(listing.asOf), listing.cursor)
           more == Len(rows) > PageSize
       IN  listing' = [listing EXCEPT
               !.items = @ \o Views(Visible(rows)),
               !.more = more,
               !.cursor = IF more THEN NextCursor(rows) ELSE @]
    /\ UNCHANGED vars

QueryNext ==
    \/ Next /\ UNCHANGED listing
    \/ \E asOf \in Instants \cup {Null} : StartListing(asOf)
    \/ RequestPage

QuerySpec == QueryInit /\ [][QueryNext]_queryVars

\* fx_latest, policy_latest: the observation date of the row that comes first.
LatestDates(t) == {ObservedOn[k] : k \in {j \in Keys : AsOf(j, t) # {}}}

-----------------------------------------------------------------------------
(***************************************************************************)
(* Properties.                                                             *)
(***************************************************************************)
\* Pages taken one after the other while observations are revised add up to
\* one consistent snapshot, if as_of was settled when the first was requested.
SettledListingIsSnapshot ==
    listing # NoListing /\ listing.settled =>
        LET snapshot == Views(Selected(listing.asOf, Null))
        IN  /\ IsPrefix(listing.items, snapshot)
            /\ ~listing.more => listing.items = snapshot

\* No listing, not even one that reads the present on each page, contains an
\* observation twice or goes back in order; and once it is finished, it contains
\* what could be listed when its first page was requested: a revision between
\* two pages neither repeats nor hides an observation.
PagesNeitherRepeatNorDrop ==
    listing # NoListing =>
        /\ \A i, j \in DOMAIN listing.items :
                i < j => Position[listing.items[i].key] < Position[listing.items[j].key]
        /\ ~listing.more => listing.known \subseteq {listing.items[i].key : i \in DOMAIN listing.items}

\* The date of the latest observation never goes back: no insertion, revision
\* or passing of time withdraws an observation from those who read the present.
LatestNeverRegresses ==
    [][\A d \in LatestDates(clock) : \E e \in LatestDates(clock)' : d <= e]_queryVars
=============================================================================
