---------------------------- MODULE ListSyncProofs ----------------------------
(***************************************************************************)
(* The list page for any number of requests in flight, polls and changes:  *)
(* its types, and that the rows it shows at rest are those of its query.   *)
(***************************************************************************)
EXTENDS ListSync, TLAPS

QuerySet == {"default", "filtered"}
\* What is typed below a table that has seen n changes.
CallSet(n) == [at : {"none", "sent", "answered", "failed", "kept"},
               query : QuerySet, data : 0..n, joined : BOOLEAN]
RowSet(n) == [data : 0..n, query : Queries \cup {"none"}]
PageSet(n) == [query : Queries, due : BOOLEAN, current : Calls \cup {None},
               loading : BOOLEAN, failed : BOOLEAN, outdated : BOOLEAN, rows : RowSet(n)]
SaveSet(n) == [at : {"none", "sent", "stored", "answered"}, modal : BOOLEAN,
               query : QuerySet, data : 0..n]

\* The server counts a change it has stored, and counts it once.
CountsTyped ==
  /\ data \in 0..MaxChanges /\ version \in 0..MaxVersion
  /\ pending \subseteq 1..data
  /\ counted \in [Changes -> 0..version]
  /\ \A d \in Changes : counted[d] # 0 => d <= data /\ d \notin pending

SyncTyped ==
  /\ CountsTyped
  /\ polls \subseteq 0..version /\ known \in 0..version \cup {Unknown}
  /\ events \in 0..MaxEvents

ListTyped ==
  /\ calls \in [Calls -> CallSet(data)] /\ warm \in Calls \cup {None}
  /\ page \in PageSet(data) /\ own \in SaveSet(data)

LEMMA TypedIsType == SyncTyped /\ ListTyped <=> ListTypeOK
BY DEF CountsTyped, SyncTyped, ListTyped, ListTypeOK, QuerySet, CallSet, RowSet, PageSet, SaveSet

\* A call that listed a query of the toolbar; its answer can become the rows.
CallQueries == \A c \in Calls : calls[c].at # "none" => calls[c].query \in Queries

\* The warmed entry is a call of the unfiltered list.
WarmEntry == warm # None => calls[warm].at # "none" /\ calls[warm].query = "default"

\* The page awaits the call it takes for its newest, and once the effect has
\* run that call lists the query of the toolbar, unless a write's closure
\* asked for another.
CurrentFits ==
  page.current # None =>
    /\ calls[page.current].at \in {"sent", "answered", "failed"} /\ calls[page.current].joined
    /\ ~page.due /\ ~page.outdated => calls[page.current].query = page.query

\* The closure of a write holds a query the toolbar has had.
SaveFits == own.at # "none" => own.query \in Queries

ListInv ==
  SyncTyped /\ ListTyped /\ CallQueries /\ WarmEntry /\ CurrentFits /\ SaveFits /\ RowsOfQuery
-----------------------------------------------------------------------------
LEMMA Constants ==
  None \notin Calls /\ MaxChanges \in Nat /\ MaxVersion \in Nat /\ MaxEvents \in Nat
BY ListAssumption DEF None

LEMMA Counters ==
  ASSUME SyncTyped
  PROVE  data \in Nat /\ version \in Nat
BY Constants DEF SyncTyped, CountsTyped

LEMMA Numbers ==
  ASSUME NEW n \in Nat
  PROVE  /\ 0 \in 0..n
         /\ NoCall \in CallSet(n) /\ NoSave \in SaveSet(n)
BY ListAssumption DEF NoCall, NoSave, CallSet, SaveSet, QuerySet, None

LEMMA NewPageTyped == NewPage \in PageSet(0)
<1>1. (CHOOSE q \in Queries : TRUE) \in Queries
  BY ListAssumption
<1> QED BY <1>1 DEF NewPage, PageSet, RowSet, None

\* Rows, calls and saves of fewer changes are rows, calls and saves.
LEMMA Grows ==
  ASSUME NEW n \in Nat, NEW m \in Nat, n <= m
  PROVE  /\ CallSet(n) \subseteq CallSet(m) /\ PageSet(n) \subseteq PageSet(m)
         /\ SaveSet(n) \subseteq SaveSet(m)
<1>1. 0..n \subseteq 0..m
  OBVIOUS
<1>2. RowSet(n) \subseteq RowSet(m)
  BY <1>1 DEF RowSet
<1> QED BY <1>1, <1>2 DEF CallSet, PageSet, SaveSet

LEMMA SentTyped ==
  ASSUME NEW n \in Nat, NEW q \in QuerySet, NEW j \in BOOLEAN
  PROVE  /\ SentCall(q, j) \in CallSet(n)
         /\ SentCall(q, j).at = "sent" /\ SentCall(q, j).query = q /\ SentCall(q, j).joined = j
BY Numbers DEF SentCall, NoCall, CallSet, QuerySet

\* Dropping the entry leaves the calls somebody awaits.
LEMMA DroppedTyped ==
  ASSUME ListInv
  PROVE  /\ Dropped \in [Calls -> CallSet(data)]
         /\ \A c \in Calls : Dropped[c] = calls[c] \/ (calls[c].at = "kept" /\ Dropped[c].at = "none")
<1>1. data \in Nat
  BY Counters DEF ListInv
<1>2. NoCall \in CallSet(data) /\ NoCall.at = "none"
  BY <1>1, Numbers DEF NoCall
<1> QED BY <1>2 DEF ListInv, ListTyped, Dropped

LEMMA ShowsTyped ==
  ASSUME ListInv, NEW p \in PageSet(data), NEW c \in Calls, calls[c].query \in Queries
  PROVE  \A q \in Shows(p, c) :
           /\ q \in PageSet(data)
           /\ q.rows.query = calls[c].query /\ q.query = p.query
           /\ q.current = None /\ q.due \in {p.due, TRUE} /\ q.outdated = p.outdated
<1> SUFFICES ASSUME NEW q \in Shows(p, c)
             PROVE  /\ q \in PageSet(data)
                    /\ q.rows.query = calls[c].query /\ q.query = p.query
                    /\ q.current = None /\ q.due \in {p.due, TRUE} /\ q.outdated = p.outdated
  OBVIOUS
<1>1. RowsOf(c) \in RowSet(data) /\ RowsOf(c).query = calls[c].query
  BY DEF RowsOf, CallSet, RowSet, ListInv, ListTyped
<1>2. PICK due \in {p.due, TRUE} :
        q = [p EXCEPT !.rows = RowsOf(c), !.loading = FALSE, !.current = None, !.due = due]
  BY DEF Shows
<1>3. due \in BOOLEAN
  BY <1>2 DEF PageSet
<1> QED BY <1>1, <1>2, <1>3 DEF PageSet

-----------------------------------------------------------------------------
\* What a load establishes, wherever it comes from.
LEMMA LoadFits ==
  ASSUME ListInv, NEW p \in PageSet(data), NEW query \in Queries, NEW entry \in {warm, None},
         NEW pool \in [Calls -> CallSet(data)], entry # None => pool = calls,
         \A c \in Calls : pool[c].at # "none" => pool[c] = calls[c],
         Load(p, query, entry, pool)
  PROVE  /\ page' \in PageSet(data) /\ page'.query = p.query
         /\ calls' \in [Calls -> CallSet(data)] /\ warm' \in Calls \cup {None}
         /\ CallQueries' /\ WarmEntry' /\ CurrentFits' /\ RowsOfQuery'
<1> DEFINE started == [p EXCEPT !.loading = TRUE, !.failed = FALSE, !.outdated = query # p.query]
<1>1. /\ started \in PageSet(data) /\ started.query = p.query /\ started.due = p.due
      /\ started.loading = TRUE /\ started.outdated = (query # p.query) /\ p.query \in Queries
  BY DEF PageSet
<1>2. data \in Nat /\ None \notin Calls
  BY Constants, Counters DEF ListInv
<1> HIDE DEF started
<1>3. CASE query = "default" /\ entry # None
  <2>1. /\ entry \in Calls /\ pool = calls /\ warm' = entry /\ entry = warm
        /\ calls[entry].at # "none" /\ calls[entry].query = "default"
    BY <1>3 DEF ListInv, ListTyped, WarmEntry, Load
  <2>2. CASE pool[entry].at = "kept"
    <3>1. page' \in Shows(started, entry) /\ calls' = calls
      BY <1>3, <2>1, <2>2 DEF Load, started
    <3>2. calls[entry] \in CallSet(data) /\ calls[entry].query \in Queries
      BY <1>1, <1>3, <2>1 DEF ListInv, ListTyped
    <3>3. /\ page' \in PageSet(data) /\ page'.rows.query = calls[entry].query
          /\ page'.query = p.query /\ page'.current = None /\ page'.outdated = (query # p.query)
      <4>1. RowsOf(entry) \in RowSet(data) /\ RowsOf(entry).query = calls[entry].query
        BY <3>2 DEF RowsOf, CallSet, RowSet
      <4>2. PICK due \in {p.due, TRUE} :
              page' = [started EXCEPT !.rows = RowsOf(entry), !.loading = FALSE,
                                      !.current = None, !.due = due]
        BY <1>1, <3>1 DEF Shows
      <4>3. due \in BOOLEAN
        BY <4>2 DEF PageSet
      <4> QED BY <1>1, <4>1, <4>2, <4>3 DEF PageSet
    <3> QED BY <1>3, <2>1, <3>1, <3>3
            DEF ListInv, ListTyped, CallQueries, WarmEntry, CurrentFits, RowsOfQuery
  <2>3. CASE pool[entry].at # "kept"
    <3>1. page' = [started EXCEPT !.current = entry] /\ calls' = [calls EXCEPT ![entry].joined = TRUE]
      BY <1>3, <2>1, <2>3 DEF Load, started
    <3>2. /\ page' \in PageSet(data) /\ page'.query = p.query /\ page'.due = p.due
          /\ page'.current = entry /\ page'.loading = TRUE /\ page'.outdated = (query # p.query)
      BY <1>1, <2>1, <3>1 DEF PageSet
    <3>3. /\ calls' \in [Calls -> CallSet(data)]
          /\ \A c \in Calls : calls'[c].at = calls[c].at /\ calls'[c].query = calls[c].query
          /\ calls'[entry].joined
      <4>1. calls \in [Calls -> CallSet(data)]
        BY DEF ListInv, ListTyped
      <4>2. /\ [calls[entry] EXCEPT !.joined = TRUE] \in CallSet(data)
            /\ [calls[entry] EXCEPT !.joined = TRUE].at = calls[entry].at
            /\ [calls[entry] EXCEPT !.joined = TRUE].query = calls[entry].query
            /\ [calls[entry] EXCEPT !.joined = TRUE].joined
        BY <2>1, <4>1 DEF CallSet
      <4>3. calls' = [calls EXCEPT ![entry] = [calls[entry] EXCEPT !.joined = TRUE]]
        BY <3>1
      <4> QED BY <2>1, <4>1, <4>2, <4>3
    <3>4. calls[entry].at \in {"sent", "answered", "failed"}
      BY <2>1, <2>3 DEF ListInv, ListTyped, CallSet
    <3>5. RowsOfQuery' /\ CurrentFits'
      BY <1>3, <2>1, <3>2, <3>3, <3>4 DEF RowsOfQuery, CurrentFits
    <3>6. CallQueries' /\ WarmEntry'
      BY <2>1, <3>3 DEF ListInv, CallQueries, WarmEntry
    <3> QED BY <2>1, <3>2, <3>3, <3>5, <3>6
  <2> QED BY <2>2, <2>3
<1>4. CASE ~(query = "default" /\ entry # None)
  <2>1. PICK c \in Calls :
          /\ pool[c].at = "none"
          /\ calls' = [pool EXCEPT ![c] = SentCall(query, TRUE)]
          /\ page' = [started EXCEPT !.current = c]
          /\ warm' = IF query = "default" THEN c ELSE entry
    BY <1>4 DEF Load, NextFree, started
  <2>2. query \in QuerySet
    BY <1>1, ListAssumption DEF QuerySet
  <2>3. /\ calls' \in [Calls -> CallSet(data)] /\ calls'[c].at = "sent" /\ calls'[c].query = query
        /\ calls'[c].joined
        /\ \A d \in Calls \ {c} : calls'[d] = pool[d]
    BY <1>2, <2>1, <2>2, SentTyped
  <2>4. /\ page' \in PageSet(data) /\ page'.query = p.query /\ page'.due = p.due
        /\ page'.current = c /\ page'.loading = TRUE /\ page'.outdated = (query # p.query)
    BY <1>1, <2>1 DEF PageSet
  <2>5. RowsOfQuery' /\ CurrentFits'
    BY <2>3, <2>4 DEF RowsOfQuery, CurrentFits
  <2>6. CallQueries'
    BY <1>1, <2>3 DEF ListInv, CallQueries
  <2>7. WarmEntry' /\ warm' \in Calls \cup {None}
    BY <1>2, <2>1, <2>3 DEF ListInv, ListTyped, WarmEntry
  <2> QED BY <2>3, <2>4, <2>5, <2>6, <2>7
<1> QED BY <1>3, <1>4
-----------------------------------------------------------------------------
(* One lemma per kind of step.                                             *)

\* What a step of the server or of the polls leaves alone.
LEMMA PageLeft ==
  ASSUME ListInv, UNCHANGED <<calls, warm, page>>,
         own'.at # "none" => own.at # "none" /\ own'.query = own.query
  PROVE  CallQueries' /\ WarmEntry' /\ CurrentFits' /\ SaveFits' /\ RowsOfQuery'
BY DEF ListInv, CallQueries, WarmEntry, CurrentFits, SaveFits, RowsOfQuery

\* A stored change is pending, counted or neither, and was not counted before.
LEMMA StoresTyped ==
  ASSUME SyncTyped, NEW counts \in BOOLEAN, Stores(counts), UNCHANGED <<sync, events>>
  PROVE  SyncTyped' /\ data' = data + 1
<1>1. data \in Nat /\ data' = data + 1 /\ data < MaxChanges /\ UNCHANGED <<version, counted>>
  BY Counters DEF Stores
<1>2. data' \in 0..MaxChanges /\ 1..data \subseteq 1..data' /\ data + 1 \in 1..data'
  BY <1>1, Constants
<1>3. pending' \subseteq 1..data' /\ pending' \subseteq pending \cup {data + 1}
  BY <1>1, <1>2 DEF Stores, SyncTyped, CountsTyped
<1>4. ASSUME NEW d \in Changes, counted[d] # 0 PROVE d <= data' /\ d \notin pending'
  <2>1. d <= data /\ d \notin pending /\ d \in Nat
    BY <1>4 DEF SyncTyped, CountsTyped, Changes
  <2>2. d # data + 1 /\ d <= data'
    BY <1>1, <2>1
  <2> QED BY <1>3, <2>1, <2>2
<1>5. CountsTyped'
  BY <1>1, <1>2, <1>3, <1>4 DEF SyncTyped, CountsTyped
<1> QED BY <1>1, <1>5 DEF SyncTyped, sync, Unknown

\* The middleware counts a pending change, or a write that changed nothing.
LEMMA CountsKeepTypes ==
  ASSUME SyncTyped, NEW changes \in SUBSET pending, Counts(changes), events' \in 0..MaxEvents
  PROVE  SyncTyped'
<1>1. /\ version \in Nat /\ version' = version + 1 /\ version < MaxVersion
      /\ UNCHANGED <<data, polls, known>> /\ pending' = pending \ changes
      /\ counted' = [d \in Changes |-> IF d \in changes THEN version + 1 ELSE counted[d]]
  BY Counters DEF Counts, sync
<1>2. version' \in 0..MaxVersion /\ 0..version \subseteq 0..version' /\ version + 1 \in 0..version'
  BY <1>1, Constants
<1>3. counted' \in [Changes -> 0..version']
  BY <1>1, <1>2 DEF SyncTyped, CountsTyped
<1>4. \A d \in Changes : counted'[d] # 0 => d <= data' /\ d \notin pending'
  <2> SUFFICES ASSUME NEW d \in Changes, counted'[d] # 0
               PROVE  d <= data /\ d \notin pending \ changes
    BY <1>1
  <2>1. CASE d \in changes
    <3>1. d \in 1..data
      BY <2>1 DEF SyncTyped, CountsTyped
    <3> QED BY <2>1, <3>1, Counters
  <2>2. CASE d \notin changes
    <3>1. counted[d] # 0
      BY <1>1, <2>2
    <3> QED BY <3>1 DEF SyncTyped, CountsTyped
  <2> QED BY <2>1, <2>2
<1>5. CountsTyped'
  BY <1>1, <1>2, <1>3, <1>4 DEF SyncTyped, CountsTyped
<1>6. polls' \subseteq 0..version' /\ known' \in 0..version' \cup {Unknown}
  BY <1>1, <1>2 DEF SyncTyped
<1> QED BY <1>5, <1>6 DEF SyncTyped, Unknown

LEMMA ChangeFits ==
  ASSUME ListInv, ChangedElsewhere \/ Touch \/ TouchUnchanged \/ SaveStored \/ SaveAnswered
  PROVE  ListInv'
<1>1. data \in Nat /\ version \in Nat /\ SyncTyped
  BY Counters DEF ListInv
<1>2. CASE ChangedElsewhere \/ SaveStored
  <2>1. UNCHANGED <<sync, events, calls, warm, page>> /\ \E counts \in BOOLEAN : Stores(counts)
    BY <1>2 DEF ChangedElsewhere, SaveStored
  <2>2. SyncTyped' /\ data' = data + 1
    BY <1>1, <2>1, StoresTyped
  <2>3. own' \in SaveSet(data')
    <3>1. own \in SaveSet(data') /\ data + 1 \in 0..data'
      BY <1>1, <2>2, Grows DEF ListInv, ListTyped
    <3>2. own' = own \/ own' = [own EXCEPT !.at = "stored", !.data = data + 1]
      BY <1>2 DEF ChangedElsewhere, SaveStored
    <3> QED BY <3>1, <3>2 DEF SaveSet
  <2>4. ListTyped'
    <3>1. CallSet(data) \subseteq CallSet(data') /\ PageSet(data) \subseteq PageSet(data')
      BY <1>1, <2>2, Grows
    <3> QED BY <2>1, <2>3, <3>1 DEF ListInv, ListTyped
  <2>5. own'.at # "none" => own.at # "none" /\ own'.query = own.query
    BY <1>2 DEF ChangedElsewhere, SaveStored, ListInv, ListTyped, SaveSet
  <2> QED BY <2>1, <2>2, <2>4, <2>5, PageLeft DEF ListInv
<1>3. CASE Touch \/ TouchUnchanged
  <2>1. PICK changes \in SUBSET pending : Counts(changes)
    BY <1>3 DEF Touch, TouchUnchanged
  <2>2. UNCHANGED <<data, calls, warm, page, own>> /\ events' \in 0..MaxEvents
    <3>1. UNCHANGED <<data, calls, warm, page, own>>
      BY <2>1 DEF Counts
    <3>2. Event \/ UNCHANGED events
      BY <1>3 DEF Touch, TouchUnchanged
    <3> QED BY <1>1, <3>1, <3>2, Constants DEF Event, SyncTyped
  <2>3. SyncTyped'
    BY <1>1, <2>1, <2>2, CountsKeepTypes
  <2>4. ListTyped'
    BY <2>2 DEF ListInv, ListTyped
  <2> QED BY <2>2, <2>3, <2>4, PageLeft DEF ListInv
<1>4. CASE SaveAnswered
  <2>1. own' = [own EXCEPT !.at = "answered"] /\ own.at = "stored"
        /\ UNCHANGED <<server, sync, events, calls, warm, page>>
    BY <1>4 DEF SaveAnswered
  <2>2. own' \in SaveSet(data') /\ own'.query = own.query
    BY <2>1 DEF ListInv, ListTyped, SaveSet, server
  <2>3. SyncTyped' /\ ListTyped'
    BY <2>1, <2>2 DEF ListInv, SyncTyped, CountsTyped, ListTyped, server, sync
  <2> QED BY <2>1, <2>2, <2>3, PageLeft DEF ListInv
<1> QED BY <1>2, <1>3, <1>4

\* A call is read, fails or settles: its query and who awaits it stay.
LEMMA AnswerFits ==
  ASSUME ListInv, NEW c \in Calls, ServerReads(c) \/ CallFails(c)
  PROVE  ListInv'
<1>1. data \in Nat
  BY Counters DEF ListInv
<1>2. PICK call \in CallSet(data) :
        /\ calls' = [calls EXCEPT ![c] = call]
        /\ call.at \in {"answered", "failed"} /\ call.query = calls[c].query
        /\ call.joined = calls[c].joined
  <2>1. calls[c] \in CallSet(data) /\ data \in 0..data
    BY <1>1 DEF ListInv, ListTyped
  <2>2. CASE ServerReads(c)
    <3>1. [calls[c] EXCEPT !.at = "answered", !.data = data] \in CallSet(data)
      BY <2>1 DEF CallSet
    <3>2. calls' = [calls EXCEPT ![c] = [calls[c] EXCEPT !.at = "answered", !.data = data]]
      BY <2>2 DEF ServerReads
    <3> QED BY <2>1, <3>1, <3>2 DEF CallSet
  <2>3. CASE CallFails(c)
    <3>1. [calls[c] EXCEPT !.at = "failed"] \in CallSet(data)
      BY <2>1 DEF CallSet
    <3>2. calls' = [calls EXCEPT ![c] = [calls[c] EXCEPT !.at = "failed"]]
      BY <2>3 DEF CallFails
    <3> QED BY <2>1, <3>1, <3>2 DEF CallSet
  <2> QED BY <2>2, <2>3
<1>3. /\ UNCHANGED <<server, sync, warm, page, own>>
      /\ events' \in 0..MaxEvents /\ calls[c].at # "none"
  BY Constants DEF ServerReads, CallFails, Event, ListInv, SyncTyped
<1>4. SyncTyped' /\ ListTyped'
  BY <1>2, <1>3 DEF ListInv, SyncTyped, CountsTyped, ListTyped, server, sync
<1>5. \A d \in Calls : calls'[d] = IF d = c THEN call ELSE calls[d]
  BY <1>2 DEF ListInv, ListTyped
<1>6. CallQueries' /\ WarmEntry' /\ CurrentFits' /\ SaveFits' /\ RowsOfQuery'
  BY <1>2, <1>3, <1>5
     DEF ListInv, ListTyped, PageSet, CallQueries, WarmEntry, CurrentFits, SaveFits, RowsOfQuery
<1> QED BY <1>4, <1>6 DEF ListInv

LEMMA PollFits ==
  ASSUME ListInv, Poll \/ \E value \in Versions : PollFails(value)
  PROVE  ListInv'
<1>1. /\ UNCHANGED <<server, known, calls, warm, page, own>>
      /\ events' \in 0..MaxEvents
  BY Constants DEF Poll, PollFails, Event, ListInv, SyncTyped
<1>2. polls' \subseteq 0..version
  <2>1. version \in 0..version /\ polls \subseteq 0..version
    BY Counters DEF ListInv, SyncTyped
  <2> QED BY <2>1 DEF Poll, PollFails
<1>3. SyncTyped' /\ ListTyped'
  BY <1>1, <1>2 DEF ListInv, SyncTyped, CountsTyped, ListTyped, server
<1> QED BY <1>1, <1>3, PageLeft DEF ListInv

\* The user's steps and the entry's end: no load begins.
LEMMA ToolbarFits ==
  ASSUME ListInv, (\E q \in Queries : Search(q)) \/ Save \/ SaveFails \/ WarmExpires \/ Warmup
  PROVE  ListInv'
<1>1. /\ UNCHANGED <<server, sync>> /\ events' \in 0..MaxEvents
  <2>1. UNCHANGED <<server, sync>>
    BY DEF Search, Save, SaveFails, WarmExpires, Warmup
  <2>2. Event \/ UNCHANGED events
    BY DEF Search, Save, SaveFails, WarmExpires, Warmup
  <2> QED BY <2>1, <2>2, Constants DEF Event, ListInv, SyncTyped
<1>2. SyncTyped' /\ data \in Nat /\ data' = data
  BY <1>1, Counters DEF ListInv, SyncTyped, CountsTyped, server, sync
<1>3. ASSUME NEW q \in Queries, Search(q) PROVE ListInv'
  <2>1. page' = [page EXCEPT !.query = q, !.due = TRUE] /\ UNCHANGED <<calls, warm, own>>
    BY <1>3 DEF Search
  <2>2. page' \in PageSet(data) /\ page'.due = TRUE /\ page'.current = page.current
    BY <2>1 DEF ListInv, ListTyped, PageSet
  <2> QED BY <1>2, <2>1, <2>2
          DEF ListInv, ListTyped, CallQueries, WarmEntry, CurrentFits, SaveFits, RowsOfQuery
<1>4. CASE Save
  <2>1. PICK modal \in BOOLEAN :
          own' = [NoSave EXCEPT !.at = "sent", !.modal = modal, !.query = page.query]
    BY <1>4 DEF Save
  <2>4. UNCHANGED <<calls, warm, page>>
    BY <1>4 DEF Save
  <2>2. page.query \in QuerySet /\ page.query \in Queries
    BY ListAssumption DEF ListInv, ListTyped, PageSet, QuerySet
  <2>3. own' \in SaveSet(data) /\ own'.query = page.query
    BY <1>2, <2>1, <2>2, Numbers DEF SaveSet, NoSave
  <2> QED BY <1>2, <2>2, <2>3, <2>4
          DEF ListInv, ListTyped, CallQueries, WarmEntry, CurrentFits, SaveFits, RowsOfQuery
<1>5. CASE SaveFails
  <2>1. own' = NoSave /\ NoSave.at = "none" /\ UNCHANGED <<calls, warm, page>>
    BY <1>5 DEF SaveFails, NoSave
  <2>2. own' \in SaveSet(data)
    BY <1>2, <2>1, Numbers
  <2> QED BY <1>2, <2>1, <2>2
          DEF ListInv, ListTyped, CallQueries, WarmEntry, CurrentFits, SaveFits, RowsOfQuery
<1>6. CASE WarmExpires
  <2>1. warm' = None /\ calls' = Dropped /\ UNCHANGED <<page, own>>
    BY <1>6 DEF WarmExpires
  <2>2. ListTyped'
    BY <1>2, <2>1, DroppedTyped DEF ListInv, ListTyped
  <2>3. page.current # None => page.current \in Calls
    BY DEF ListInv, ListTyped, PageSet
  <2> QED BY <1>2, <2>1, <2>2, <2>3, DroppedTyped
          DEF ListInv, CallQueries, WarmEntry, CurrentFits, SaveFits, RowsOfQuery
<1>7. CASE Warmup
  <2>1. PICK c \in Calls : /\ calls[c].at = "none" /\ warm' = c
                           /\ calls' = [calls EXCEPT ![c] = SentCall("default", FALSE)]
    BY <1>7 DEF Warmup, NextFree
  <2>2. UNCHANGED <<page, own>> /\ "default" \in Queries /\ "default" \in QuerySet
    BY <1>7 DEF Warmup, QuerySet
  <2>3. /\ calls' \in [Calls -> CallSet(data)] /\ calls'[c].at = "sent" /\ calls'[c].query = "default"
        /\ \A d \in Calls \ {c} : calls'[d] = calls[d]
    BY <1>2, <2>1, <2>2, SentTyped DEF ListInv, ListTyped
  <2>4. ListTyped'
    BY <1>2, <2>1, <2>2, <2>3 DEF ListInv, ListTyped
  <2>5. CallQueries' /\ WarmEntry'
    BY <2>1, <2>2, <2>3 DEF ListInv, CallQueries, WarmEntry
  <2>6. CurrentFits' /\ SaveFits' /\ RowsOfQuery'
    <3>1. page.current # None => page.current \in Calls \ {c}
      BY <2>1 DEF ListInv, ListTyped, PageSet, CurrentFits
    <3> QED BY <2>2, <2>3, <3>1 DEF ListInv, CurrentFits, SaveFits, RowsOfQuery
  <2> QED BY <1>2, <2>4, <2>5, <2>6 DEF ListInv
<1> QED BY <1>3, <1>4, <1>5, <1>6, <1>7

\* The mounted page, a new query, a poll or a save loads.
LEMMA LoadStepFits ==
  ASSUME ListInv, LoadDue \/ Saved \/ \E value \in Versions : PollReceived(value)
  PROVE  ListInv'
<1>1. data \in Nat /\ NoSave \in SaveSet(data) /\ NoSave.at = "none" /\ page \in PageSet(data)
      /\ calls \in [Calls -> CallSet(data)] /\ page.query \in Queries
  BY Counters, Numbers DEF ListInv, ListTyped, NoSave, PageSet
<1>2. CASE LoadDue
  <2> DEFINE p == [page EXCEPT !.due = FALSE]
  <2>1. p \in PageSet(data)
    BY <1>1 DEF PageSet
  <2>2. Load(p, page.query, warm, calls) /\ UNCHANGED <<server, sync, own, events>>
    BY <1>2 DEF LoadDue
  <2> HIDE DEF p
  <2>3. /\ page' \in PageSet(data)
        /\ calls' \in [Calls -> CallSet(data)] /\ warm' \in Calls \cup {None}
        /\ CallQueries' /\ WarmEntry' /\ CurrentFits' /\ RowsOfQuery'
    BY <1>1, <2>1, <2>2, LoadFits
  <2> QED BY <2>2, <2>3 DEF ListInv, SyncTyped, CountsTyped, ListTyped, SaveFits, server, sync
<1>3. CASE Saved
  <2>1. own.at = "answered" /\ own' = NoSave /\ Load(page, own.query, None, Dropped)
        /\ UNCHANGED <<server, sync, events>>
    BY <1>3 DEF Saved
  <2>2. own.query \in Queries
    BY <2>1 DEF ListInv, SaveFits
  <2>3. /\ page' \in PageSet(data)
        /\ calls' \in [Calls -> CallSet(data)] /\ warm' \in Calls \cup {None}
        /\ CallQueries' /\ WarmEntry' /\ CurrentFits' /\ RowsOfQuery'
    <3>1. \A c \in Calls : Dropped[c].at # "none" => Dropped[c] = calls[c]
      BY DroppedTyped
    <3> QED BY <1>1, <2>1, <2>2, <3>1, DroppedTyped, LoadFits
  <2> QED BY <1>1, <2>1, <2>3
          DEF ListInv, SyncTyped, CountsTyped, ListTyped, SaveFits, server, sync
<1>4. ASSUME NEW value \in Versions, PollReceived(value) PROVE ListInv'
  <2>1. UNCHANGED <<server, own, events>> /\ known' = value
        /\ polls' = polls \ {value} /\ value \in polls
    BY <1>4 DEF PollReceived
  <2>2. SyncTyped' /\ data' = data
    BY <2>1 DEF ListInv, SyncTyped, CountsTyped, server, Unknown
  <2>3. CASE ShouldPublish(value)
    <3>1. Load(page, page.query, warm, calls)
      BY <1>4, <2>3 DEF PollReceived
    <3>2. /\ page' \in PageSet(data)
          /\ calls' \in [Calls -> CallSet(data)] /\ warm' \in Calls \cup {None}
          /\ CallQueries' /\ WarmEntry' /\ CurrentFits' /\ RowsOfQuery'
      BY <1>1, <3>1, LoadFits
    <3> QED BY <2>1, <2>2, <3>2 DEF ListInv, ListTyped, SaveFits
  <2>4. CASE ~ShouldPublish(value)
    <3>1. UNCHANGED <<calls, warm, page>>
      BY <1>4, <2>4 DEF PollReceived
    <3> QED BY <2>1, <2>2, <3>1, PageLeft DEF ListInv, ListTyped
  <2> QED BY <2>3, <2>4
<1> QED BY <1>2, <1>3, <1>4

LEMMA SettleFits ==
  ASSUME ListInv, NEW c \in Calls, CallSettles(c)
  PROVE  ListInv'
<1>1. /\ UNCHANGED <<server, sync, own, events>>
      /\ calls[c].at \in {"answered", "failed"}
  BY DEF CallSettles
<1>2. /\ data \in Nat /\ NoCall \in CallSet(data) /\ NoCall.at = "none"
      /\ calls \in [Calls -> CallSet(data)] /\ page \in PageSet(data)
      /\ calls[c].query \in Queries /\ c # None
  BY <1>1, Counters, Numbers, Constants DEF NoCall, ListInv, ListTyped, CallQueries
\* The call leaves, or is kept for the entry; the others stay or leave with it.
<1>3. /\ calls' \in [Calls -> CallSet(data)] /\ warm' \in {warm, None}
      /\ calls'[c].at # "none" => calls'[c].query = calls[c].query /\ warm' = c
      /\ warm' = c => calls'[c].at # "none"
      /\ \A d \in Calls \ {c} : \/ calls'[d] = calls[d]
                                \/ warm' = None /\ calls[d].at = "kept" /\ calls'[d].at = "none"
  <2>1. CASE calls[c].at = "answered"
    <3> DEFINE kept == [calls[c] EXCEPT !.at = "kept", !.joined = FALSE]
    <3>1. kept \in CallSet(data) /\ kept.at = "kept" /\ kept.query = calls[c].query
      BY <1>2 DEF CallSet
    <3>2. calls' = [calls EXCEPT ![c] = IF warm = c THEN kept ELSE NoCall] /\ warm' = warm
      BY <2>1 DEF CallSettles
    <3> HIDE DEF kept
    <3> QED BY <1>2, <3>1, <3>2
  <2>2. CASE calls[c].at = "failed" /\ calls[c].query = "default"
    <3>1. warm' = None /\ calls' = [Dropped EXCEPT ![c] = NoCall]
      BY <2>2 DEF CallSettles
    <3> QED BY <1>2, <3>1, DroppedTyped
  <2>3. CASE calls[c].at = "failed" /\ calls[c].query # "default"
    <3>1. warm' = warm /\ calls' = [calls EXCEPT ![c] = NoCall]
      BY <2>3 DEF CallSettles
    <3>2. warm # c
      BY <1>2, <2>3 DEF ListInv, WarmEntry
    <3> QED BY <1>2, <3>1, <3>2
  <2> QED BY <1>1, <2>1, <2>2, <2>3
<1>4. \/ page' = page /\ page.current # c
      \/ page' \in Shows(page, c) /\ page.current = c
      \/ page' = Fails(page) /\ page.current = c
  <2>1. IsCurrent(c) <=> page.current = c
    BY <1>2 DEF IsCurrent, ListInv, CurrentFits
  <2> QED BY <1>1, <2>1 DEF CallSettles
<1>5. \A q \in Shows(page, c) :
        /\ q \in PageSet(data)
        /\ q.rows.query = calls[c].query /\ q.query = page.query
        /\ q.current = None /\ q.due \in {page.due, TRUE} /\ q.outdated = page.outdated
  BY <1>2, ShowsTyped
<1>6. /\ Fails(page) \in PageSet(data) /\ Fails(page).failed = TRUE
      /\ Fails(page).current = None /\ Fails(page).due = page.due /\ Fails(page).query = page.query
      /\ Fails(page).outdated = page.outdated
  BY <1>2 DEF Fails, PageSet
<1>7. SyncTyped' /\ ListTyped'
  BY <1>1, <1>2, <1>3, <1>4, <1>5, <1>6 DEF ListInv, SyncTyped, CountsTyped, ListTyped, server, sync
<1>8. CallQueries' /\ WarmEntry'
  BY <1>2, <1>3 DEF ListInv, ListTyped, CallQueries, WarmEntry
<1>9. SaveFits'
  BY <1>1 DEF ListInv, SaveFits
<1>10. RowsOfQuery'
  BY <1>2, <1>4, <1>5, <1>6 DEF ListInv, CurrentFits, RowsOfQuery
<1>11. CurrentFits'
  <2>1. CASE page' = page /\ page.current # c
    <3>1. page.current # None =>
            page.current \in Calls \ {c} /\ calls'[page.current] = calls[page.current]
      BY <1>2, <1>3, <2>1 DEF ListInv, PageSet, CurrentFits
    <3> QED BY <2>1, <3>1 DEF ListInv, CurrentFits
  <2> QED BY <1>4, <1>5, <1>6, <2>1 DEF CurrentFits
<1> QED BY <1>7, <1>8, <1>9, <1>10, <1>11 DEF ListInv
-----------------------------------------------------------------------------
LEMMA ListInvHolds == Spec => []ListInv
<1>1. Init => ListInv
  <2> SUFFICES ASSUME Init PROVE ListInv
    OBVIOUS
  <2>1. SyncTyped
    <3>1. 0 \in 0..MaxChanges /\ 0 \in 0..MaxVersion /\ 0 \in 0..0 /\ 0 \in 0..MaxEvents
      BY Constants
    <3> QED BY <3>1 DEF Init, SyncTyped, CountsTyped
  <2>2. ListTyped
    BY Numbers, NewPageTyped DEF Init, ListTyped
  <2>3. NewPage.due = TRUE /\ NewPage.current = None /\ NoCall.at = "none" /\ NoSave.at = "none"
    BY DEF NewPage, NoCall, NoSave
  <2> QED BY <2>1, <2>2, <2>3
          DEF Init, ListInv, CallQueries, WarmEntry, CurrentFits, SaveFits, RowsOfQuery
<1>2. ListInv /\ [Next]_vars => ListInv'
  <2> SUFFICES ASSUME ListInv, [Next]_vars PROVE ListInv'
    OBVIOUS
  <2>1. CASE UNCHANGED vars
    BY <2>1, PageLeft DEF vars, server, sync, ListInv, SyncTyped, CountsTyped, ListTyped
  <2> QED BY <2>1, ChangeFits, AnswerFits, PollFits, ToolbarFits, LoadStepFits, SettleFits
          DEF Next, PageStep, Polling
<1> QED BY <1>1, <1>2, PTL DEF Spec

(* The list page and what it talks to stay within their types; an answer is  *)
(* never ahead of the table, a polled version never ahead of the server's,   *)
(* and the middleware counts a change only once it is stored.                *)
THEOREM ListTypes == Spec => []ListTypeOK
<1>1. ListInv => ListTypeOK
  BY TypedIsType DEF ListInv
<1> QED BY <1>1, ListInvHolds, PTL

(* DictPage.tsx: a page at rest shows the rows of the query in its toolbar,  *)
(* however many answers of other queries and polls are outstanding, unless   *)
(* its newest load came from a write that outlived the query.                *)
THEOREM RowsOfQueryHolds == Spec => []RowsOfQuery
<1>1. ListInv => RowsOfQuery
  BY DEF ListInv
<1> QED BY <1>1, ListInvHolds, PTL
=============================================================================
