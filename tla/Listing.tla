-------------------------------- MODULE Listing --------------------------------
(***************************************************************************)
(* The listings: the catalog, an author's publications with the number of  *)
(* their purchases, and a user's purchases, each read page by page while   *)
(* others publish and buy.  A listing reads a directory, which is not one  *)
(* instant: a file linked meanwhile may or may not be in it.  Identifiers  *)
(* are drawn at random, so a new record may come anywhere in the order.    *)
(***************************************************************************)
EXTENDS Integers, FiniteSets, Sequences

CONSTANTS
  Pubs,         \* identifiers of publications
  Ids,          \* identifiers of purchases
  Users,        \* authors and buyers
  Limits,       \* limits a reader asks for
  DefaultPage,  \* k_default_page_size
  MaxPage,      \* k_max_page_size
  None          \* no record, no field

Listings == {"catalog", "author_publications", "purchases"}
Purchase == [user: Users, pub: Pubs]
Asks     == [listing: Listings, user: Users, limit: Limits \cup {None}]

ASSUME IdsAssumption == Pubs \cup Ids \subseteq Nat /\ IsFiniteSet(Pubs \cup Ids)
ASSUME PagesAssumption == Limits \subseteq Nat /\ DefaultPage \in 1 .. MaxPage /\ MaxPage \in Nat
ASSUME NoneAssumption == None \notin Users \cup Limits \cup Purchase \cup Asks

VARIABLES
  pubs,         \* the author of each publication
  purchases,    \* the purchases
  pc,           \* what the listing in progress does next
  ask,          \* what the reader asks for: the listing, its user, the limit
  offset,       \* where its next page begins
  begun,        \* the files that were there when the directory was opened
  page,         \* identifiers of the page
  total,        \* how many records there are
  counts,       \* purchases of the first publications of the page
  collected,    \* what the reader has got so far
  before,       \* history: the records that were there when the reader began
  least,        \* history: the records that were there when the page was asked for
  bought        \* history: purchases of each publication when the page was asked for

stored  == <<pubs, purchases>>
history == <<before, least, bought>>
vars == <<pubs, purchases, pc, ask, offset, begun, page, total, counts, collected, before, least, bought>>

Steps == {"idle", "next", "list", "count", "join", "answered"}

TypeOK ==
  /\ pubs \in [Pubs -> Users \cup {None}]
  /\ purchases \in [Ids -> Purchase \cup {None}]
  /\ pc \in Steps
  /\ ask \in Asks \cup {None}
  /\ offset \in Nat
  /\ begun \subseteq Pubs \cup Ids
  /\ page \in Seq(Pubs \cup Ids)
  /\ total \in Nat
  /\ counts \in Seq(Nat)
  /\ collected \subseteq Pubs \cup Ids
  /\ before \subseteq Pubs \cup Ids
  /\ least \subseteq Pubs \cup Ids
  /\ bought \in [Pubs -> Nat]

NoCounts == [p \in Pubs |-> 0]

Init ==
  /\ pubs = [p \in Pubs |-> None]
  /\ purchases = [i \in Ids |-> None]
  /\ pc = "idle"
  /\ ask = None
  /\ offset = 0
  /\ begun = {}
  /\ page = <<>>
  /\ total = 0
  /\ counts = <<>>
  /\ collected = {}
  /\ before = {}
  /\ least = {}
  /\ bought = NoCounts

--------------------------------------------------------------------------------
\* The files of the directory a listing reads.
Files(listing) ==
  IF listing = "purchases" THEN {i \in Ids : purchases[i] # None} ELSE {p \in Pubs : pubs[p] # None}

\* The records among them the listing is about: records do not change, so they may be
\* read one by one.
Selected(a, files) ==
  CASE a.listing = "catalog" -> files
    [] a.listing = "author_publications" -> {i \in files : pubs[i] = a.user}
    [] OTHER -> {i \in files : purchases[i].user = a.user}

\* Mutant: every purchase counts.
PurchasesOfAny(p, files) == files

\* Purchases of publication p among the files.
PurchasesOf(p, files) == {i \in files : purchases[i].pub = p}

\* How often p has been bought.
CountOf(p) == Cardinality({i \in Ids : purchases[i] # None /\ purchases[i].pub = p})

\* The records in the order of their identifiers.
Sorted(s) == CHOOSE q \in [1 .. Cardinality(s) -> s] : \A i, j \in DOMAIN q : i < j => q[i] < q[j]

\* The limit read_page gives a request.
Limit(a) == IF a.limit = None THEN DefaultPage ELSE a.limit

\* window_of and window_of_files: the records from the offset on, up to the limit.
WindowOf(q, from, limit) == SubSeq(q, from + 1, IF from + limit < Len(q) THEN from + limit ELSE Len(q))

\* The records of a page.
Elements(q) == {q[i] : i \in DOMAIN q}

\* The reader asks for the page at its offset: read_page refuses a limit above the
\* maximum, otherwise the directory is opened.
Ask(a) ==
  /\ ask' = a
  /\ IF Limit(a) > MaxPage
       THEN pc' = "idle" /\ UNCHANGED <<begun, least, bought>>
       ELSE /\ pc' = "list"
            /\ begun' = Files(a.listing)
            /\ least' = Selected(a, Files(a.listing))
            /\ bought' = [p \in Pubs |-> CountOf(p)]

\* A reader begins a listing with its first page.
Begin ==
  /\ pc = "idle"
  /\ \E l \in Listings, u \in Users, n \in Limits \cup {None} :
       LET a == [listing |-> l, user |-> u, limit |-> n]
       IN Ask(a) /\ before' = Selected(a, Files(l))
  /\ offset' = 0
  /\ collected' = {}
  /\ UNCHANGED <<stored, page, total, counts>>

Continue ==
  /\ pc = "next"
  /\ Ask(ask)
  /\ UNCHANGED <<stored, offset, page, total, counts, collected, before>>

\* Mutant: the page is counted instead of the records.
ListCountingPage ==
  /\ pc = "list"
  /\ \E files \in SUBSET Files(ask.listing) :
       /\ begun \subseteq files
       /\ page' = WindowOf(Sorted(Selected(ask, files)), offset, Limit(ask))
       /\ total' = Len(page')
  /\ begun' = Files("purchases")
  /\ pc' = CASE ask.listing = "author_publications" -> "count"
             [] ask.listing = "purchases" -> "join"
             [] OTHER -> "answered"
  /\ UNCHANGED <<stored, ask, offset, counts, collected, history>>

\* The directory has been read: publications, publications_of_author, purchases_of_user.
List ==
  /\ pc = "list"
  /\ \E files \in SUBSET Files(ask.listing) :
       /\ begun \subseteq files
       /\ page' = WindowOf(Sorted(Selected(ask, files)), offset, Limit(ask))
       /\ total' = Cardinality(Selected(ask, files))
  /\ begun' = Files("purchases")
  /\ pc' = CASE ask.listing = "author_publications" -> "count"
             [] ask.listing = "purchases" -> "join"
             [] OTHER -> "answered"
  /\ UNCHANGED <<stored, ask, offset, counts, collected, history>>

\* purchase_count of the next publication of the page: all purchases are read again.
Count ==
  /\ pc = "count"
  /\ IF Len(counts) < Len(page)
       THEN /\ \E files \in SUBSET Files("purchases") :
                 /\ begun \subseteq files
                 /\ counts' = Append(counts, Cardinality(PurchasesOf(page[Len(counts) + 1], files)))
            /\ begun' = Files("purchases")
            /\ UNCHANGED pc
       ELSE pc' = "answered" /\ UNCHANGED <<counts, begun>>
  /\ UNCHANGED <<stored, ask, offset, page, total, collected, history>>

\* purchases_of looks up the publication of every purchase; one that is missing fails
\* the listing.
Join ==
  /\ pc = "join"
  /\ \A i \in DOMAIN page : pubs[purchases[page[i]].pub] # None
  /\ pc' = "answered"
  /\ UNCHANGED <<stored, ask, offset, begun, page, total, counts, collected, history>>

\* The request is over.
Forget ==
  /\ begun' = {}
  /\ page' = <<>>
  /\ total' = 0
  /\ counts' = <<>>
  /\ least' = {}
  /\ bought' = NoCounts

\* The reader takes the page and goes on until it has reached the total.
Receive ==
  /\ pc = "answered"
  /\ collected' = collected \cup Elements(page)
  /\ offset' = offset + Limit(ask)
  /\ pc' = IF offset' < total THEN "next" ELSE "idle"
  /\ Forget
  /\ UNCHANGED <<stored, ask, before>>

\* A file cannot be read, or is missing: the reader gets an error instead of a page and gives up.
Fail ==
  /\ pc \in {"list", "count", "join"}
  /\ pc' = "idle"
  /\ ask' = None
  /\ offset' = 0
  /\ collected' = {}
  /\ before' = {}
  /\ Forget
  /\ UNCHANGED stored

\* Meanwhile a publication or a purchase is linked into its directory, never removed.
Publish ==
  /\ \E p \in Pubs, u \in Users : pubs[p] = None /\ pubs' = [pubs EXCEPT ![p] = u]
  /\ UNCHANGED <<purchases, pc, ask, offset, begun, page, total, counts, collected, history>>

Buy ==
  /\ \E i \in Ids, p \in Pubs, u \in Users :
       /\ purchases[i] = None
       /\ pubs[p] # None
       /\ purchases' = [purchases EXCEPT ![i] = [user |-> u, pub |-> p]]
  /\ UNCHANGED <<pubs, pc, ask, offset, begun, page, total, counts, collected, history>>

Next ==
  \/ Begin \/ Continue \/ List \/ Count \/ Join \/ Receive \/ Fail
  \/ Publish \/ Buy

Spec == Init /\ [][Next]_vars

--------------------------------------------------------------------------------
\* The records that the reader's listing is about, as they are now.
Present == Selected(ask, Files(ask.listing))

\* How many records of s come before x.
Rank(s, x) == Cardinality({y \in s : y < x})

\* What the limit takes of the records s from the offset on: the page is to have it.
Window(s, from, limit) == {x \in s : Rank(s, x) \in from .. (from + limit - 1)}

PageOf(s) == Elements(page) = Window(s, offset, Limit(ask))

PageSorted == \A i, j \in DOMAIN page : i < j => page[i] < page[j]

\* A reader that gets to the end has seen every record that was there when it began,
\* however many were added between its pages.
WalkComplete ==
  pc = "idle" /\ ask # None /\ Limit(ask) <= MaxPage => before \subseteq collected

\* A page is the window of some set of records that has all of those that were there
\* when it was asked for, in their order, with the size of that set as total; each count
\* lies between the purchases at the request and those at the answer.
PageExact ==
  pc = "answered" =>
    /\ \E s \in SUBSET Present : least \subseteq s /\ Cardinality(s) = total /\ PageOf(s)
    /\ PageSorted
    /\ \A i \in DOMAIN counts : counts[i] \in bought[page[i]] .. CountOf(page[i])

--------------------------------------------------------------------------------
(***************************************************************************)
(* The inductive invariant.                                                *)
(***************************************************************************)
Serving == {"list", "count", "join", "answered"}

\* A reader that is not idle has a listing, and a limit that read_page has let through.
AskKnown == pc # "idle" => ask # None /\ Limit(ask) <= MaxPage

\* The page asked for has at least the records of the directory as it was opened.
LeastKnown == pc = "list" => begun \subseteq Files(ask.listing) /\ least = Selected(ask, begun)

\* Purchases are never removed: every reading of their directory finds those that were
\* there when the page was asked for.
BoughtKnown ==
  /\ pc \in Serving => \A p \in Pubs : bought[p] <= CountOf(p)
  /\ pc = "count" => /\ begun \subseteq Files("purchases")
                     /\ \A p \in Pubs : bought[p] <= Cardinality(PurchasesOf(p, begun))

\* The publications of the page are counted one after the other.
CountsKnown ==
  /\ pc \notin {"count", "answered"} => counts = <<>>
  /\ Len(counts) <= Len(page)
  /\ pc = "count" => \A i \in DOMAIN page : page[i] \in Pubs
  /\ \A i \in DOMAIN counts :
       page[i] \in Pubs /\ counts[i] \in bought[page[i]] .. CountOf(page[i])

PageKnown ==
  pc \in Serving \ {"list"} =>
    /\ \E s \in SUBSET Present : least \subseteq s /\ Cardinality(s) = total /\ PageOf(s)
    /\ PageSorted

\* A record that was there when the reader began, and now comes before the offset, came
\* before it earlier too, since records are only added: the reader has got it.
WalkKnown ==
  /\ pc \in Serving => /\ before \subseteq least /\ least \subseteq Present
                       /\ \A x \in before : Rank(least, x) < offset => x \in collected
  /\ pc = "next" => /\ before \subseteq Present
                    /\ \A x \in before : Rank(Present, x) < offset => x \in collected
  /\ WalkComplete

IInv == TypeOK /\ AskKnown /\ LeastKnown /\ BoughtKnown /\ CountsKnown /\ PageKnown /\ WalkKnown
================================================================================
