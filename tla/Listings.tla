------------------------------ MODULE Listings ------------------------------
(***************************************************************************)
(* Reading a list page by page.  Every list of the system is read with     *)
(* LIMIT and OFFSET out of a table that goes on changing, and the answer   *)
(* says whether there are more pages, from a count of the rows.  The lists *)
(* differ in their order, in how the count is taken and in what can happen *)
(* to a row meanwhile.                                                     *)
(*                                                                         *)
(* A row is its key: where the order puts it.  The filter of a list (owner *)
(* and search terms) is the same in the page's query and in the count's,   *)
(* and only the rows that pass it are here.                                *)
(***************************************************************************)
EXTENDS Naturals, FiniteSets

CONSTANTS
    Lists,        \* the lists read
    Ids,          \* rows that may be made
    Keys,         \* places in the order: naturals, the highest first
    PageSizes,    \* limits a reader may ask for
    MaxWrites,    \* bound: changes while he reads
    NoRow         \* no row

ASSUME ListingsAssumption ==
    /\ Keys \subseteq Nat /\ PageSizes \subseteq Nat \ {0} /\ MaxWrites \in Nat
    /\ IsFiniteSet(Ids) /\ NoRow \notin Nat /\ \A R \in SUBSET Ids : R # NoRow

-----------------------------------------------------------------------------
(* order: "time", a new row is the first; "any", it may come anywhere;     *)
(* "none", the query has no order.                                         *)
(* count: "together" with the page, in either order; "after" it; "within"  *)
(* the same query.                                                         *)
(* shrinks: a row may leave the list.  moves: its key may change.          *)
Profile(order, count, shrinks, moves) ==
    [order |-> order, count |-> count, shrinks |-> shrinks, moves |-> moves]

\* Statements are never taken back.
Statements == Profile("time", "together", FALSE, FALSE)
\* Clearing hides the notifications that were read.
Notifications == Profile("time", "together", TRUE, FALSE)
\* Those with a comment come first.
Reviews == Profile("any", "together", FALSE, FALSE)
Favorites == Profile("time", "after", TRUE, FALSE)
\* By their start, which may move; those of one status.
CustomerAppointments == Profile("any", "after", TRUE, TRUE)
\* By name.
CustomersFound == Profile("any", "together", TRUE, TRUE)
\* By how often they were booked; or combos, by their last change.
ServicesOnSale == Profile("any", "together", TRUE, TRUE)
OfferingsOnSale == Profile("any", "together", TRUE, TRUE)
CombosOffered == Profile("any", "together", TRUE, TRUE)
CombosOfBusiness == Profile("any", "together", TRUE, TRUE)
ServicesOfBusiness == Profile("none", "together", TRUE, FALSE)
BusinessesFiltered == Profile("none", "together", TRUE, FALSE)
\* By plan, rating and bookings; by distance.
Recommended == Profile("any", "within", TRUE, TRUE)
RecommendedElsewhere == Recommended
Nearby == Profile("any", "within", TRUE, FALSE)
ByState == Profile("any", "within", TRUE, TRUE)
\* What the operators of the platform look through, newest first.
UsersListed == Profile("time", "after", FALSE, FALSE)
BusinessesListed == Profile("time", "after", FALSE, FALSE)
AppointmentsListed == Profile("time", "after", FALSE, FALSE)
SubscriptionsListed == Profile("time", "after", FALSE, FALSE)
LogsListed == Profile("time", "after", FALSE, FALSE)
ServicesListed == Profile("time", "after", TRUE, FALSE)
UpdatesListed == Profile("time", "after", TRUE, FALSE)

AllLists ==
    {Statements, Notifications, Reviews, Favorites, CustomerAppointments, CustomersFound,
     ServicesOnSale, OfferingsOnSale, CombosOffered, CombosOfBusiness, ServicesOfBusiness,
     BusinessesFiltered, Recommended, RecommendedElsewhere, Nearby, ByState,
     UsersListed, BusinessesListed, AppointmentsListed, SubscriptionsListed, LogsListed,
     ServicesListed, UpdatesListed}

-----------------------------------------------------------------------------
VARIABLES
    list, size,    \* the list read, and the page size
    key,           \* each row: NoRow or its key
    page,          \* the page being read, 0 at the end
    got, total,    \* what the request for it has: the rows, NoRow before; likewise the count
    read,          \* rows answered so far
    stayed,        \* rows there all along
    writes,        \* changes so far
    stir           \* what may have upset the reading

listingsVars == <<list, size, key, page, got, total, read, stayed, writes, stir>>

Listed == {r \in Ids : key[r] # NoRow}
HasTie == \E r \in Listed, s \in Listed : r # s /\ key[r] = key[s]

ListingsInit ==
    /\ list \in Lists /\ size \in PageSizes
    /\ key \in [Ids -> Keys \cup {NoRow}]
    /\ page = 1 /\ got = NoRow /\ total = NoRow
    /\ read = {} /\ stayed = Listed
    /\ writes = 0
    /\ stir = {s \in {"tie"} : HasTie} \cup {s \in {"no order"} : list.order = "none"}

-----------------------------------------------------------------------------
\* Mutant: the first page is page 0.
SkipFromZero(n) == n * size

Skip(n) == (n - 1) * size

(* The rows a page may hold: size of them behind Skip others, rows of one  *)
(* key in any order, and in any order at all if the query has none.        *)
Before(A, B) == list.order = "none" \/ \A a \in A, b \in B : key[a] >= key[b]

Pages(n) ==
    LET R == Listed
        left == IF Cardinality(R) > Skip(n) THEN Cardinality(R) - Skip(n) ELSE 0
        length == IF left < size THEN left ELSE size
    IN {P \in SUBSET R :
            /\ Cardinality(P) = length
            /\ length = 0 \/ \E A \in SUBSET (R \ P) :
                    Cardinality(A) = Skip(n) /\ Before(A, R \ A) /\ Before(P, R \ (A \cup P))}

HasMore(n, count) == count > n * size

(* The answer, when the request has its rows and its count.                *)
Answer(rows, count) ==
    /\ read' = read \cup rows
    /\ page' = IF HasMore(page, count) THEN page + 1 ELSE 0
    /\ got' = NoRow /\ total' = NoRow

QueryPage ==
    /\ page > 0 /\ got = NoRow
    /\ \E P \in Pages(page) :
        IF list.count = "within"
        \* The count comes with the rows: none without them.
        THEN Answer(P, IF P = {} THEN 0 ELSE Cardinality(Listed))
        ELSE IF total # NoRow THEN Answer(P, total)
        ELSE got' = P /\ UNCHANGED <<page, total, read>>
    /\ UNCHANGED <<list, size, key, stayed, writes, stir>>

QueryCount ==
    /\ page > 0 /\ total = NoRow
    /\ \/ list.count = "together"
       \/ list.count = "after" /\ got # NoRow
    /\ IF got # NoRow THEN Answer(got, Cardinality(Listed))
       ELSE total' = Cardinality(Listed) /\ UNCHANGED <<page, got, read>>
    /\ UNCHANGED <<list, size, key, stayed, writes, stir>>

-----------------------------------------------------------------------------
Writes == page > 0 /\ writes < MaxWrites /\ writes' = writes + 1
Upset(s) == stir' = stir \cup s \cup {x \in {"tie"} : HasTie'}

(* A row more, between the count and the rows of one page or elsewhere.    *)
AddRow(r, k) ==
    /\ key[r] = NoRow
    /\ list.order = "time" => \A s \in Listed : k >= key[s]
    /\ key' = [key EXCEPT ![r] = k]
    /\ Writes
    /\ Upset({x \in {"added after the count"} : total # NoRow})
    /\ UNCHANGED <<list, size, page, got, total, read, stayed>>

RemoveRows(R) ==
    /\ list.shrinks /\ R # {} /\ R \subseteq Listed
    \* Notifications that were read are cleared together.
    /\ list # Notifications => Cardinality(R) = 1
    /\ key' = [r \in Ids |-> IF r \in R THEN NoRow ELSE key[r]]
    /\ stayed' = stayed \ R
    /\ Writes
    /\ Upset({"removed"})
    /\ UNCHANGED <<list, size, page, got, total, read>>

MoveRow(r, k) ==
    /\ list.moves /\ key[r] # NoRow /\ key[r] # k
    /\ key' = [key EXCEPT ![r] = k]
    /\ Writes
    /\ Upset({"moved"})
    /\ UNCHANGED <<list, size, page, got, total, read, stayed>>

ListingsNext ==
    \/ QueryPage \/ QueryCount
    \/ \E R \in SUBSET Ids : RemoveRows(R)
    \/ \E r \in Ids, k \in Keys : AddRow(r, k) \/ MoveRow(r, k)

ListingsSpec == ListingsInit /\ [][ListingsNext]_listingsVars

-----------------------------------------------------------------------------
ListingsTypeOK ==
    /\ list \in Lists /\ size \in PageSizes
    /\ key \in [Ids -> Keys \cup {NoRow}]
    /\ page \in Nat /\ read \subseteq Ids /\ stayed \subseteq Ids

(* Who reads to the last page has read every row that was there all along. *)
(* A row added meanwhile only makes him read others twice, unless it comes *)
(* between the count and the rows of one page; a row that leaves or moves, *)
(* and rows that the order does not tell apart, may hide others from him.  *)
NoneMissed == page = 0 /\ stir = {} => stayed \subseteq read
=============================================================================
