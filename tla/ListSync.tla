------------------------------ MODULE ListSync ------------------------------
(***************************************************************************)
(* How a list page of the console follows its table: the versions the      *)
(* server counts (refresh_sync.go), the shell that polls them              *)
(* (core/refresh/refreshBus.ts), the warmed route data (core/router/       *)
(* prefetch.ts) and the dictionary page, which loads, searches and writes  *)
(* (modules/system/config/dict).                                           *)
(*                                                                         *)
(* The rows of an answer are abstracted to the number of changes the table *)
(* had seen when the server read it, and to the query that asked for them. *)
(* Only the unfiltered query goes through the warmed data.  The version is *)
(* no count of the changes: refused writes and the other writes of the     *)
(* topic raise it too, and an import changes the table without raising it. *)
(***************************************************************************)
EXTENDS Naturals, FiniteSets

CONSTANTS Queries,     \* the toolbar's queries: "default" and "filtered"
          Calls,       \* the list requests that may be in flight
          MaxPolls,    \* bound on the version requests in flight
          MaxChanges,  \* bound on the changes of the table
          MaxVersion,  \* bound on the writes the middleware counts
          MaxEvents    \* bound on searches, failures, expiries and writes without a change

ASSUME ListAssumption ==
  /\ Queries \subseteq {"default", "filtered"} /\ Queries # {}
  /\ MaxChanges \in Nat /\ MaxVersion \in Nat /\ MaxEvents \in Nat
  /\ Calls \subseteq Nat \ {0} /\ MaxPolls \in Nat

None == 0
Unknown == MaxVersion + 1   \* versionsRef has no entry for the topic yet
Changes == 1..MaxChanges
Versions == 0..MaxVersion

VARIABLES
  data,      \* server: the changes of the table so far
  version,   \* server: system_refresh_version of the page's topic
  pending,   \* server: the changes the middleware has yet to count
  counted,   \* the version a change was counted under, 0 while it was not
  polls,     \* the versions the polls in flight have read
  known,     \* versionsRef
  calls,     \* the list requests
  warm,      \* warmDataCache: the call the cached promise belongs to
  page,      \* the page: its query, rows and request sequence
  own,       \* the page's own write
  events     \* searches, failures, expiries and writes without a change so far

server == <<data, version, pending, counted>>
sync == <<polls, known>>
vars == <<server, sync, calls, warm, page, own, events>>

\* The place of a new list request.
NextFree(pool) ==
  {c \in Calls : pool[c].at = "none" /\ \A b \in Calls : pool[b].at = "none" => c <= b}

\* joined: a load of the page awaits the promise.
NoCall == [at |-> "none", query |-> "default", data |-> 0, joined |-> FALSE]
\* modal: the write is a form submitted under its modal; a deletion, a batch
\* and an import leave the toolbar to the user.
NoSave == [at |-> "none", modal |-> FALSE, query |-> "default", data |-> 0]
\* outdated: the newest load asked for another query than the toolbar's.
NewPage == [query |-> CHOOSE q \in Queries : TRUE, due |-> TRUE, current |-> None,
            loading |-> FALSE, failed |-> FALSE, outdated |-> FALSE,
            rows |-> [data |-> 0, query |-> "none"]]

ListTypeOK ==
  /\ data \in 0..MaxChanges /\ version \in 0..MaxVersion
  /\ pending \subseteq 1..data
  /\ counted \in [Changes -> 0..version]
  /\ \A d \in Changes : counted[d] # 0 => d <= data /\ d \notin pending
  /\ polls \subseteq 0..version
  /\ known \in 0..version \cup {Unknown}
  /\ calls \in [Calls -> [at : {"none", "sent", "answered", "failed", "kept"},
                          query : {"default", "filtered"}, data : 0..data, joined : BOOLEAN]]
  /\ warm \in Calls \cup {None}
  /\ page \in [query : Queries, due : BOOLEAN, current : Calls \cup {None},
               loading : BOOLEAN, failed : BOOLEAN, outdated : BOOLEAN,
               rows : [data : 0..data, query : Queries \cup {"none"}]]
  /\ own \in [at : {"none", "sent", "stored", "answered"}, modal : BOOLEAN,
              query : {"default", "filtered"}, data : 0..data]
  /\ events \in 0..MaxEvents

Init ==
  /\ data = 0 /\ version = 0 /\ pending = {} /\ counted = [d \in Changes |-> 0]
  /\ polls = {} /\ known = Unknown
  /\ calls = [c \in Calls |-> NoCall] /\ warm = None
  /\ page = NewPage /\ own = NoSave
  /\ events = 0

Event == events < MaxEvents /\ events' = events + 1

-----------------------------------------------------------------------------
(* The server. *)

\* A change is committed; the middleware of its route, if it has one (an
\* import has none), counts it afterwards.
Stores(counts) ==
  /\ data < MaxChanges
  /\ data' = data + 1
  /\ pending' = IF counts THEN pending \cup {data + 1} ELSE pending
  /\ UNCHANGED <<version, counted>>

\* Another administrator's change.
ChangedElsewhere ==
  /\ \E counts \in BOOLEAN : Stores(counts)
  /\ UNCHANGED <<sync, calls, warm, page, own, events>>

Counts(changes) ==
  /\ version < MaxVersion
  /\ version' = version + 1
  /\ counted' = [d \in Changes |-> IF d \in changes THEN version + 1 ELSE counted[d]]
  /\ pending' = pending \ changes
  /\ UNCHANGED <<data, sync, calls, warm, page, own>>

\* Mutant: the middleware counts before its handler has stored the change.
TouchFirst ==
  /\ data < MaxChanges /\ counted[data + 1] = 0
  /\ Counts({data + 1}) /\ UNCHANGED events

\* RefreshSyncMiddleware counts a change after its handler, unless that fails.
Touch == (\E d \in pending : Counts({d})) /\ UNCHANGED events

\* It counts a refused write as well, whose HTTP status is 200, and the cache
\* refreshes and the item writes of the same topic.
TouchUnchanged == Counts({}) /\ Event

\* The page's own write is committed, and answered whether it was counted or
\* not; only an import, which is no form, passes the middleware by.
SaveStored ==
  /\ own.at = "sent"
  /\ \E counts \in BOOLEAN : (own.modal => counts) /\ Stores(counts)
  /\ own' = [own EXCEPT !.at = "stored", !.data = data + 1]
  /\ UNCHANGED <<sync, calls, warm, page, events>>

SaveAnswered ==
  /\ own.at = "stored"
  /\ own' = [own EXCEPT !.at = "answered"]
  /\ UNCHANGED <<server, sync, calls, warm, page, events>>

ServerReads(c) ==
  /\ calls[c].at = "sent"
  /\ calls' = [calls EXCEPT ![c].at = "answered", ![c].data = data]
  /\ UNCHANGED <<server, sync, warm, page, own, events>>

CallFails(c) ==
  /\ calls[c].at \in {"sent", "answered"} /\ Event
  /\ calls' = [calls EXCEPT ![c].at = "failed"]
  /\ UNCHANGED <<server, sync, warm, page, own>>

-----------------------------------------------------------------------------
(* The page and its warmed data. *)

\* The entry is invalidated; its promise lives on for those who await it.
Dropped == [c \in Calls |-> IF calls[c].at = "kept" THEN NoCall ELSE calls[c]]
SentCall(query, joined) == [NoCall EXCEPT !.at = "sent", !.query = query, !.joined = joined]
RowsOf(c) == [data |-> calls[c].data, query |-> calls[c].query]
\* When the rows change, the selected one may go: then loadTypes changes with
\* selectedTypeId, and the effect loads once more.
Shows(p, c) ==
  {[p EXCEPT !.rows = RowsOf(c), !.loading = FALSE, !.current = None, !.due = due] :
     due \in IF p.rows = RowsOf(c) THEN {p.due} ELSE {p.due, TRUE}}

\* Starts, joins or reads the call of a load, given the cached entry and calls.
\* typeLoadRequestSeqRef: the load becomes the only one whose answer counts.
Load(p, query, entry, pool) ==
  LET started == [p EXCEPT !.loading = TRUE, !.failed = FALSE, !.outdated = query # p.query] IN
  IF query = "default" /\ entry # None
  THEN /\ warm' = entry
       /\ IF pool[entry].at = "kept"
          THEN page' \in Shows(started, entry) /\ calls' = pool
          ELSE /\ page' = [started EXCEPT !.current = entry]
               /\ calls' = [pool EXCEPT ![entry].joined = TRUE]
  ELSE \E c \in NextFree(pool) :
         /\ calls' = [pool EXCEPT ![c] = SentCall(query, TRUE)]
         /\ page' = [started EXCEPT !.current = c]
         /\ warm' = IF query = "default" THEN c ELSE entry

\* The effect's timer: the mounted page, or a new query, loads.
LoadDue ==
  /\ page.due
  /\ Load([page EXCEPT !.due = FALSE], page.query, warm, calls)
  /\ UNCHANGED <<server, sync, own, events>>

\* The user searches, resets or selects another row, unless a modal covers
\* the toolbar.
Search(query) ==
  /\ ~own.modal /\ Event
  /\ page' = [page EXCEPT !.query = query, !.due = TRUE]
  /\ UNCHANGED <<server, sync, calls, warm, own>>

\* Mutant: the sequence number is not looked at.
AnyCurrent(c) == calls[c].joined
IsCurrent(c) == calls[c].joined /\ page.current = c

\* Mutant: the page stays loading.
FailsBusy(p) == [p EXCEPT !.failed = TRUE, !.current = None]
Fails(p) == [p EXCEPT !.failed = TRUE, !.loading = FALSE, !.current = None]

\* The promise of a call settles for everyone who awaits it.
CallSettles(c) ==
  /\ calls[c].at \in {"answered", "failed"}
  /\ IF calls[c].at = "answered"
     THEN /\ page' \in IF IsCurrent(c) THEN Shows(page, c) ELSE {page}
          /\ calls' = [calls EXCEPT ![c] = IF warm = c
                                           THEN [@ EXCEPT !.at = "kept", !.joined = FALSE]
                                           ELSE NoCall]
          /\ UNCHANGED warm
     ELSE /\ page' = IF IsCurrent(c) THEN Fails(page) ELSE page
          /\ IF calls[c].query = "default"
             THEN warm' = None /\ calls' = [Dropped EXCEPT ![c] = NoCall]
             ELSE calls' = [calls EXCEPT ![c] = NoCall] /\ UNCHANGED warm
  /\ UNCHANGED <<server, sync, own, events>>

\* The thirty seconds are over, or another page invalidates the entry.
WarmExpires ==
  /\ warm # None /\ Event
  /\ warm' = None /\ calls' = Dropped
  /\ UNCHANGED <<server, sync, page, own>>

\* The warm-up of a route the user has not opened, or hovers over.
Warmup ==
  /\ "default" \in Queries /\ warm = None /\ Event
  /\ \E c \in NextFree(calls) :
       /\ calls' = [calls EXCEPT ![c] = SentCall("default", FALSE)]
       /\ warm' = c
  /\ UNCHANGED <<server, sync, page, own>>

\* submitTypeForm, removeType, a batch or an import, up to its await: its
\* closure keeps the query of the render it was clicked in.
Save ==
  /\ own.at = "none" /\ data < MaxChanges
  /\ \E modal \in BOOLEAN :
       own' = [NoSave EXCEPT !.at = "sent", !.modal = modal, !.query = page.query]
  /\ UNCHANGED <<server, sync, calls, warm, page, events>>

\* Mutant: the write reloads without invalidating the warmed data.
SavedKeepsWarm ==
  /\ own.at = "answered"
  /\ Load(page, own.query, warm, calls)
  /\ own' = NoSave
  /\ UNCHANGED <<server, sync, events>>

\* Invalidate, publish (the page ignores its own source) and reload the query
\* of the closure, which the toolbar may have left.
Saved ==
  /\ own.at = "answered"
  /\ Load(page, own.query, None, Dropped)
  /\ own' = NoSave
  /\ UNCHANGED <<server, sync, events>>

\* The write is refused, or it or its answer is lost: no reload.
SaveFails ==
  /\ own.at \in {"sent", "stored"} /\ Event
  /\ own' = NoSave
  /\ UNCHANGED <<server, sync, calls, warm, page>>

-----------------------------------------------------------------------------
(* useRefreshPolling *)

\* Every five seconds; a request may take ten.  What counts of a request is
\* the moment its version is read and the moment its answer is received.
Poll ==
  /\ Cardinality(polls) < MaxPolls
  /\ polls' = polls \cup {version}
  /\ UNCHANGED <<server, known, calls, warm, page, own, events>>

PollFails(value) ==
  /\ value \in polls /\ Event
  /\ polls' = polls \ {value}
  /\ UNCHANGED <<server, known, calls, warm, page, own>>

\* Mutant: version 0 is taken for no version, so the first change is missed.
PublishesTruthy(value) == known \notin {Unknown, 0} /\ value > known
ShouldPublish(value) == known # Unknown /\ value > known

\* The newer version is published to the page, which loads its query again.
PollReceived(value) ==
  /\ value \in polls
  /\ polls' = polls \ {value}
  /\ known' = value
  /\ IF ShouldPublish(value)
     THEN Load(page, page.query, warm, calls)
     ELSE UNCHANGED <<calls, warm, page>>
  /\ UNCHANGED <<server, own, events>>

PageStep == LoadDue \/ Saved \/ \E c \in Calls : CallSettles(c)
Polling == Poll \/ \E value \in Versions : PollReceived(value)

Next ==
  \/ ChangedElsewhere \/ Touch \/ TouchUnchanged \/ SaveStored \/ SaveAnswered
  \/ \E c \in Calls : ServerReads(c) \/ CallFails(c)
  \/ PageStep
  \/ \E q \in Queries : Search(q)
  \/ WarmExpires \/ Warmup \/ Save \/ SaveFails
  \/ Polling
  \/ \E value \in Versions : PollFails(value)

Spec == Init /\ [][Next]_vars

\* Requests are answered, callbacks run and the interval fires.
FairSpec ==
  /\ Spec
  /\ \A c \in Calls : WF_vars(ServerReads(c) \/ CallSettles(c))
  /\ WF_vars(Poll) /\ \A value \in Versions : WF_vars(PollReceived(value))
  /\ WF_vars(LoadDue)
  /\ WF_vars(SaveStored \/ SaveAnswered \/ Saved)

-----------------------------------------------------------------------------
(* Properties *)

\* A page at rest shows the rows of the query in its toolbar, whatever answers
\* of earlier queries, polls and writes arrived, and in whatever order
\* (DictPage.tsx: typeLoadRequestSeqRef), unless its newest load came from the
\* closure of a write that outlived the query (DictTypeTab.tsx: a deletion, a
\* batch or an import awaits with no modal over the toolbar, then reloads).
RowsOfQuery ==
  ~page.due /\ ~page.loading /\ ~page.failed /\ ~page.outdated =>
    page.rows.query = page.query

\* The loading indicator of the page ends, however often loads are superseded.
LoadingEnds == page.loading ~> ~page.loading

\* What the user wrote is shown once the write has been answered, although the
\* rows may have been warmed before it (submitTypeForm: invalidateCaches) and
\* the toolbar's query may have changed meanwhile.
OwnSaveShown ==
  \A d \in Changes :
    (own.at = "answered" /\ own.data = d) ~> (page.rows.data >= d \/ page.failed)

\* A change of someone else is shown by a page that lists a filtered query,
\* once the version it was counted under is newer than the polled one, although
\* the versions before and after it may stand for no change of the table.
FilteredCatchesUp ==
  \A d \in Changes :
    (page.query = "filtered" /\ counted[d] # 0 /\ known < counted[d]) ~>
      (page.rows.data >= d \/ page.failed \/ page.query = "default")
=============================================================================
