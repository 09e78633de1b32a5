---------------------------- MODULE CloudJournal ----------------------------
(***************************************************************************)
(* The trade journal of XMI: records live in a browser tab                 *)
(* (src/app/xmi/XMICoachPanel.jsx) until their owner uploads them, in      *)
(* batches, or loads the cloud's, in pages (XMICloudSync.jsx).  The cloud  *)
(* keeps one row for each trade of an owner (src/lib/xmiCloudStore.mjs);   *)
(* other tabs of the owner upload and delete meanwhile, and requests and   *)
(* answers get lost.                                                       *)
(***************************************************************************)
EXTENDS Integers, Sequences, FiniteSets

CONSTANTS
  Tabs,
  Entries,      \* for each tab, what may be entered, imported or restored in it: a trade, by
                \* what its fingerprint tells apart, and whether it came from a file
  BatchSize,    \* 100 trades of one POST
  PageSize,     \* 200 rows of one GET
  MaxPages,     \* 26 pages of one load
  MaxKept,      \* 5000 records of a tab
  LastRow, Upsets   \* bounds of the model: the ids of rows, and how often a request or answer
                    \* is lost, a token expires, the cloud is deleted or a tab is left

ASSUME JournalAssumption ==
  /\ {BatchSize, PageSize, MaxPages, MaxKept, LastRow} \subseteq Nat \ {0} /\ Upsets \in Nat
  /\ \A t \in Tabs : \A e \in Entries[t] : e \in [trade : {e.trade}, source : {"csv", "manual"}]

VARIABLES rows, account, busy, cloud, lastRow, upsets

journalVars == <<rows, account, busy, cloud, lastRow, upsets>>

\* before and wiped are history: the cloud when the work began, and whether it was deleted since.
NotBusy == [doing |-> "nothing", batches |-> <<>>, received |-> <<>>, cursor |-> LastRow + 1,
            pages |-> 0, before |-> {}, wiped |-> FALSE]

JournalInit ==
  /\ rows = [t \in Tabs |-> <<>>]
  /\ account = [t \in Tabs |-> "signed in"]
  /\ busy = [t \in Tabs |-> NotBusy]
  /\ cloud = {} /\ lastRow = 0 /\ upsets = 0

TradesOf(records) == {records[n].trade : n \in DOMAIN records}
CloudTrades == {row.trade : row \in cloud}

Lesser(a, b) == IF a < b THEN a ELSE b

\* The n-th of some numbers, and the records at some places, in their order.
Nth(S, n) == CHOOSE x \in S : Cardinality({y \in S : y <= x}) = n
AtPlaces(records, S) == [n \in 1..Cardinality(S) |-> records[Nth(S, n)]]

\* The last MaxKept of the records.
Kept(records) == SubSeq(records, Len(records) - Lesser(Len(records), MaxKept) + 1, Len(records))

\* mergeTrades, and the merge of a load: those that are new go to the end.
Merge(records, more) ==
  LET IsNew(n) == /\ more[n].trade \notin TradesOf(records)
                  /\ \A k \in 1..(n - 1) : more[k].trade # more[n].trade
  IN  Kept(records \o AtPlaces(more, {n \in DOMAIN more : IsNew(n)}))

Upset == upsets < Upsets /\ upsets' = upsets + 1

\* A trade entered by hand, imported or restored; the panel takes it while an upload or a
\* load is under way.
AddTrade(t, entry) ==
  /\ rows' = [rows EXCEPT ![t] = Merge(@, <<entry>>)]
  /\ rows' # rows
  /\ UNCHANGED <<account, busy, cloud, lastRow, upsets>>

\* The page is loaded again: the tab forgets its records, its account and its work.
LeavePage(t) ==
  /\ rows' = [rows EXCEPT ![t] = <<>>]
  /\ account' = [account EXCEPT ![t] = "signed out"]
  /\ busy' = [busy EXCEPT ![t] = NotBusy]
  /\ Upset
  /\ UNCHANGED <<cloud, lastRow>>

\* The redirects of a sign-in load the page again, so a tab with records refuses.
SignIn(t) ==
  /\ account[t] = "signed out" /\ rows[t] = <<>>
  /\ account' = [account EXCEPT ![t] = "signed in"]
  /\ UNCHANGED <<rows, busy, cloud, lastRow, upsets>>

TokenExpires(t) ==
  /\ account[t] = "signed in" /\ Upset
  /\ account' = [account EXCEPT ![t] = "expired"]
  /\ UNCHANGED <<rows, busy, cloud, lastRow>>

\* token() of an expired session, and the button.
SignOut(t) ==
  /\ busy[t] = NotBusy /\ account[t] # "signed out"
  /\ IF account[t] = "expired" THEN UNCHANGED upsets ELSE Upset
  /\ account' = [account EXCEPT ![t] = "signed out"]
  /\ UNCHANGED <<rows, busy, cloud, lastRow>>

\* The catch of an upload or a load: a refused token ends the session.
Stops(t) ==
  /\ busy' = [busy EXCEPT ![t] = NotBusy]
  /\ account' = [account EXCEPT ![t] = IF @ = "expired" THEN "signed out" ELSE @]

\* chosen, in batches: the records from files first.
Batches(records) ==
  LET Chosen(source) == AtPlaces(records, {n \in DOMAIN records : records[n].source = source})
      Cut(s) == [n \in 1..((Len(s) + BatchSize - 1) \div BatchSize) |->
                   SubSeq(s, (n - 1) * BatchSize + 1, Lesser(n * BatchSize, Len(s)))]
  IN  Cut(Chosen("csv")) \o Cut(Chosen("manual"))

Upload(t) ==
  /\ busy[t] = NotBusy /\ account[t] = "signed in" /\ rows[t] # <<>>
  /\ busy' = [busy EXCEPT ![t] = [NotBusy EXCEPT !.doing = "upload", !.batches = Batches(rows[t]),
                                                 !.before = TradesOf(rows[t])]]
  /\ UNCHANGED <<rows, account, cloud, lastRow, upsets>>

\* Variant of Inserted: without the unique index.
InsertedAgain(batch) == DOMAIN batch

\* ON CONFLICT DO NOTHING: the places of the records whose trade has no row yet.
Inserted(batch) == {n \in DOMAIN batch : batch[n].trade \notin CloudTrades}

\* One transaction.
Commit(batch) ==
  LET new == Inserted(batch)
      Row(n) == [id |-> lastRow + Cardinality({m \in new : m <= n}),
                 trade |-> batch[n].trade, source |-> batch[n].source]
  IN  /\ lastRow' = lastRow + Cardinality(new) /\ lastRow' <= LastRow
      /\ cloud' = cloud \cup {Row(n) : n \in new}

SendBatch(t) ==
  /\ busy[t].doing = "upload" /\ busy[t].batches # <<>> /\ account[t] = "signed in"
  /\ Commit(Head(busy[t].batches))
  /\ \/ /\ busy' = [busy EXCEPT ![t].batches = Tail(@)]
        /\ UNCHANGED <<account, upsets>>
     \/ Stops(t) /\ Upset                                          \* the answer is lost
  /\ UNCHANGED rows

UploadDone(t) ==
  /\ busy[t].doing = "upload" /\ busy[t].batches = <<>>
  /\ busy' = [busy EXCEPT ![t] = NotBusy]
  /\ UNCHANGED <<rows, account, cloud, lastRow, upsets>>

Load(t) ==
  /\ busy[t] = NotBusy /\ account[t] = "signed in"
  /\ busy' = [busy EXCEPT ![t] = [NotBusy EXCEPT !.doing = "load", !.before = cloud]]
  /\ UNCHANGED <<rows, account, cloud, lastRow, upsets>>

\* The newest n rows below the cursor, the newest first.
Below(cursor, n) ==
  LET ids == {row.id : row \in {r \in cloud : r.id < cursor}}
      RowOf(id) == CHOOSE row \in cloud : row.id = id
  IN  [k \in 1..Lesser(n, Cardinality(ids)) |-> RowOf(Nth(ids, Cardinality(ids) + 1 - k))]

\* Variant of NextCursor: the row that was only looked at is taken for seen.
NextCursorPeeked(found) == found[PageSize + 1].id

\* One row more than the page is asked for, to see whether there is another page.
NextCursor(found) == found[PageSize].id

Found(t) == Below(busy[t].cursor, PageSize + 1)

\* The page as the tab keeps it.
Received(t) == busy[t].received \o SubSeq(Found(t), 1, Lesser(PageSize, Len(Found(t))))

\* Too many pages are an error; nothing is kept of them.
ReadPage(t) ==
  /\ busy[t].doing = "load" /\ account[t] = "signed in" /\ Len(Found(t)) > PageSize
  /\ LET pages == busy[t].pages + 1
     IN  busy' = [busy EXCEPT ![t] =
                    IF pages = MaxPages THEN NotBusy
                    ELSE [@ EXCEPT !.received = Received(t), !.pages = pages,
                                   !.cursor = NextCursor(Found(t))]]
  /\ UNCHANGED <<rows, account, cloud, lastRow, upsets>>

LastPage(t) ==
  /\ busy[t].doing = "load" /\ account[t] = "signed in" /\ Len(Found(t)) <= PageSize
  /\ rows' = [rows EXCEPT ![t] = Merge(@, [n \in DOMAIN Received(t) |->
                [trade |-> Received(t)[n].trade, source |-> Received(t)[n].source]])]
  /\ busy' = [busy EXCEPT ![t] = NotBusy]
  /\ UNCHANGED <<account, cloud, lastRow, upsets>>

\* A request is lost, or its token is refused; what an upload sent before stays.
RequestFails(t) ==
  /\ busy[t].doing = "load" \/ busy[t].batches # <<>>
  /\ Stops(t)
  /\ IF account[t] = "expired" THEN UNCHANGED upsets ELSE Upset
  /\ UNCHANGED <<rows, cloud, lastRow>>

\* One statement, once it was confirmed twice; whether its answer arrives changes nothing.
DeleteCloud(t) ==
  /\ busy[t] = NotBusy /\ account[t] = "signed in" /\ Upset
  /\ cloud' = {}
  /\ busy' = [u \in Tabs |-> [busy[u] EXCEPT !.wiped = @ \/ busy[u] # NotBusy]]
  /\ UNCHANGED <<rows, account, lastRow>>

JournalNext ==
  \E t \in Tabs :
    \/ \E entry \in Entries[t] : AddTrade(t, entry)
    \/ LeavePage(t) \/ SignIn(t) \/ TokenExpires(t) \/ SignOut(t)
    \/ Upload(t) \/ SendBatch(t) \/ UploadDone(t)
    \/ Load(t) \/ ReadPage(t) \/ LastPage(t) \/ RequestFails(t) \/ DeleteCloud(t)

JournalSpec == JournalInit /\ [][JournalNext]_journalVars

-----------------------------------------------------------------------------
JournalTypeOK ==
  /\ \A t \in Tabs : /\ Len(rows[t]) <= MaxKept
                     /\ account[t] \in {"signed in", "expired", "signed out"}
                     /\ busy[t].doing \in {"nothing", "upload", "load"}
  /\ lastRow \in 0..LastRow /\ upsets \in 0..Upsets

Unique(records) == \A m, n \in DOMAIN records : records[m].trade = records[n].trade => m = n

\* One row, and one record of a tab, for each trade.
OneOfEach ==
  /\ \A a, b \in cloud : a.trade = b.trade => a = b
  /\ \A t \in Tabs : Unique(rows[t])

\* However tabs, retries and lost answers interleave: an upload that reports success has
\* every record it was given in the cloud, unless the cloud was deleted meanwhile; a load
\* that succeeds has every row that was there before and after it in the tab, next to the
\* tab's own records, as long as the tab may keep that many; and no trade is kept twice
\* (XMICloudSync.jsx:51-97, xmiCloudStore.mjs:37-54).
JournalsAgree ==
  [][/\ OneOfEach'
     /\ \A t \in Tabs :
          /\ UploadDone(t) => busy[t].wiped \/ busy[t].before \subseteq CloudTrades
          /\ LastPage(t) =>
               \/ TradesOf(rows[t]) \cup {stored.trade : stored \in busy[t].before \cap cloud}
                    \subseteq TradesOf(rows'[t])
               \/ Len(rows'[t]) = MaxKept]_journalVars
=============================================================================
