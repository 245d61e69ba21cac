----------------------------- MODULE DownloaderV2 -----------------------------
(***************************************************************************)
(* The v2 downloader (v2/cmd/websocket-downloader/main.go) over any number *)
(* of runs: it takes the stored session token or logs in, asks for the     *)
(* pages of the timeline, saves each of them, all transactions together    *)
(* and each on its own, and then asks for and saves the details.           *)
(*                                                                         *)
(* It asks one subscription at a time; what the client does for it is      *)
(* WebSocketClient, of which only the outcomes are kept: an answer, nil    *)
(* from a channel that was closed, or an error (subscribe failed or the    *)
(* context is done).  An item is its position in the timeline.             *)
(***************************************************************************)
EXTENDS Naturals, FiniteSets, FiniteSetsExt

CONSTANTS N,          \* bound: items of the server's timeline, 1 the oldest
          Detailed,   \* the items the server has details for
          PageSize,   \* items on a page
          MaxItems,   \* --max-items, 0 for all
          MaxFaults   \* bound: crashes, failures and timeouts over all runs

Item == 1..N

ASSUME DownloaderAssumption ==
  /\ {MaxItems, MaxFaults} \subseteq Nat
  /\ {N, PageSize} \subseteq Nat \ {0}
  /\ Detailed \subseteq Item

\* The files of a run: the pages, all transactions, each transaction, each details.
Page == {"page"} \X Item
All == <<"all", 0>>
Details == {"details"} \X Item
Single == {"item"} \X Item
Name == Page \cup {All} \cup Details \cup Single

\* What a file holds: a whole response, known by its items, or none ("empty": nil was
\* written, or the write was cut short).
Content == [is : {"absent", "empty", "response"}, items : SUBSET Item]
Absent == [is |-> "absent", items |-> {}]
Empty == [is |-> "empty", items |-> {}]
Response(S) == [is |-> "response", items |-> S]

VARIABLES
  pc,              \* what the process does next; "down" when it is not running
  listed,          \* the timeline holds the items 1..listed so far
  token,           \* the session token in .auth: "none", or what the server thinks of it
  session,         \* the session token of the run
  raw, formatted,  \* the files: name.raw.json and name.json
  page, cursor,    \* the page that is fetched and where it starts; cursor 0: no more pages
  got,             \* allTransactions
  todo,            \* the transactions whose details are still to be fetched
  job, data,       \* the file that is being saved, and the response (Empty for nil)
  expired,         \* the context of the run is done
  exit,            \* how the last run ended
  faults,          \* crashes, failures and timeouts so far
  due              \* history: what was listed when the first page was answered

files == <<raw, formatted>>
server == <<listed, token>>
progress == <<page, cursor, got, todo>>
hist == <<exit, faults, due>>
vars == <<pc, server, session, files, progress, job, data, expired, hist>>

Top == N + 1       \* the empty cursor: the first page
NoMore == 0

Init == /\ pc = "down" /\ listed \in 0..N /\ token = "none" /\ session = "none"
        /\ raw = [n \in Name \ Single |-> Absent] /\ formatted = [n \in Name |-> Absent]
        /\ page = 1 /\ cursor = Top /\ got = {} /\ todo = {}
        /\ job = All /\ data = Empty
        /\ expired = FALSE /\ exit = "none" /\ faults = 0 /\ due = {}

Fault == faults < MaxFaults /\ faults' = faults + 1

\* The process ends; nothing but the files and the stored token survives it.
Exit(code) == /\ pc' = "down" /\ exit' = code /\ session' = "none"
              /\ page' = 1 /\ cursor' = Top /\ got' = {} /\ todo' = {}
              /\ job' = All /\ data' = Empty /\ expired' = FALSE

(***************************************************************************)
(* The surroundings.                                                       *)
(***************************************************************************)
Publish == /\ listed < N
           /\ listed' = listed + 1
           /\ UNCHANGED <<pc, token, session, files, progress, job, data, expired, hist>>

\* The server forgets the session.
ExpireSession == /\ "live" \in {token, session} /\ Fault
                 /\ token' = IF token = "live" THEN "stale" ELSE token
                 /\ session' = IF session = "live" THEN "stale" ELSE session
                 /\ UNCHANGED <<pc, listed, files, progress, job, data, expired, exit, due>>

\* The transactions of S have their own file, that of E has one without content.
WithSingles(S, E) ==
  [n \in Name |-> IF n \in Single /\ n[2] \in S THEN Response({n[2]})
                  ELSE IF n \in Single /\ n[2] \in E THEN Empty ELSE formatted[n]]

\* A write that does not come to its end leaves the file as it was or without content.
CutShort == CASE pc = "raw" ->
                   /\ raw' \in {raw, [raw EXCEPT ![job] = Empty]}
                   /\ UNCHANGED formatted
              [] pc = "format" ->
                   /\ formatted' \in {formatted, [formatted EXCEPT ![job] = Empty]}
                   /\ UNCHANGED raw
              [] pc = "items" ->
                   /\ \E S, E \in SUBSET data.items :
                        /\ Cardinality(E) <= 1
                        /\ formatted' = WithSingles(S \ E, E)
                   /\ UNCHANGED raw
              [] OTHER -> UNCHANGED files

\* .auth is truncated before it is written; a file that was cut holds no token.
TornToken == token' \in {token, "none", session}

Crash == /\ pc # "down" /\ Fault
         /\ CutShort
         /\ IF pc = "store" THEN TornToken ELSE UNCHANGED token
         /\ Exit("crashed")
         /\ UNCHANGED <<listed, due>>

\* The timeout for the whole operation.
Expire == /\ pc \notin {"down", "login", "code", "store", "connect"} /\ ~expired /\ Fault
          /\ expired' = TRUE
          /\ UNCHANGED <<pc, server, session, files, progress, job, data, exit, due>>

(***************************************************************************)
(* main: authenticate and connect.                                         *)
(***************************************************************************)
\* A stored token that is not empty is used as it is.
Start == /\ pc = "down"
         /\ pc' = IF token = "none" THEN "login" ELSE "connect"
         /\ session' = token /\ exit' = "none" /\ due' = {}
         /\ UNCHANGED <<server, files, progress, job, data, expired, faults>>

\* The server asks for a code; a login it answers without a process id succeeds too,
\* with the session token that was loaded, and that is empty.
Login == /\ pc = "login"
         /\ \/ pc' = "code" /\ UNCHANGED faults
            \/ pc' = "connect" /\ Fault
         /\ UNCHANGED <<server, session, files, progress, job, data, expired, exit, due>>

\* A reply without the cookie of the session leaves the token empty.
ProvideOTP == /\ pc = "code"
              /\ pc' = "store"
              /\ \/ session' = "live" /\ UNCHANGED faults
                 \/ session' = "none" /\ Fault
              /\ UNCHANGED <<server, files, progress, job, data, expired, exit, due>>

\* That storing the tokens fails is only logged.
Store == /\ pc = "store"
         /\ pc' = "connect"
         /\ \/ token' = session /\ UNCHANGED faults
            \/ TornToken /\ Fault
         /\ UNCHANGED <<listed, session, files, progress, job, data, expired, exit, due>>

Connect == /\ pc = "connect"
           /\ pc' = "page"
           /\ UNCHANGED <<server, session, files, progress, job, data, expired, hist>>

\* A login, a code or a connection that fails ends the run.
SetupFails == /\ pc \in {"login", "code", "connect"} /\ Fault
              /\ Exit("1")
              /\ UNCHANGED <<server, files, due>>

(***************************************************************************)
(* fetchAllTransactions: the pages.                                        *)
(***************************************************************************)
Answers == session = "live" /\ ~expired

\* nil: the server answered with an error, the reader could not reconnect, or it
\* saw that the context was done before the user did.
NoAnswer == \/ (session = "stale" \/ expired) /\ UNCHANGED faults
            \/ Fault

Older(c) == {i \in 1..listed : i < c}
PageAt(c) == {i \in Older(c) : Cardinality({j \in Older(c) : j > i}) < PageSize}

NextCursorEarly(c) ==  \* mutant: a last page of one item is not asked for
  IF Cardinality(Older(c) \ PageAt(c)) <= 1 THEN NoMore ELSE Min(PageAt(c))
NextCursor(c) == IF Older(c) = PageAt(c) THEN NoMore ELSE Min(PageAt(c))

GetPage == /\ pc = "page" /\ Answers
           /\ data' = Response(PageAt(cursor)) /\ cursor' = NextCursor(cursor)
           /\ job' = <<"page", page>> /\ pc' = "raw"
           /\ due' = IF page = 1 THEN 1..listed ELSE due
           /\ UNCHANGED <<server, session, files, page, got, todo, expired, exit, faults>>

GetPageNil == /\ pc = "page" /\ session # "none" /\ NoAnswer
              /\ data' = Empty /\ job' = <<"page", page>> /\ pc' = "raw"
              /\ UNCHANGED <<server, session, files, progress, expired, exit, due>>

\* subscribe refuses an empty token.
GetPageFails == /\ pc = "page"
                /\ IF session = "none" THEN UNCHANGED faults ELSE NoAnswer
                /\ Exit("1")
                /\ UNCHANGED <<server, files, due>>

(***************************************************************************)
(* saveTransactionsData and saveDetailsData: the raw response is written,  *)
(* parsed, and written again in a readable form.                           *)
(***************************************************************************)
\* An error of a save ends the run, and skips the transaction when it is in its details.
SaveErrorEnds == Exit("1")  \* mutant: it always ends the run
SaveError == IF job \in Details
               THEN /\ pc' = "details" /\ todo' = todo \ {job[2]}
                    /\ job' = All /\ data' = Empty
                    /\ UNCHANGED <<session, page, cursor, got, expired, exit>>
               ELSE Exit("1")

WriteRawUnparsed ==  \* mutant: the error of json.Unmarshal is ignored
  /\ pc = "raw"
  /\ raw' = [raw EXCEPT ![job] = data]
  /\ pc' = "format"
  /\ UNCHANGED <<server, session, formatted, progress, job, data, expired, hist>>
\* nil does not parse: the raw file is empty by then.
WriteRaw == /\ pc = "raw"
            /\ raw' = [raw EXCEPT ![job] = data]
            /\ IF data = Empty THEN SaveError
                               ELSE pc' = "format" /\ UNCHANGED <<session, progress, job, data, expired, exit>>
            /\ UNCHANGED <<server, formatted, faults, due>>

WriteFormatted == /\ pc = "format"
                  /\ formatted' = [formatted EXCEPT ![job] = data]
                  /\ IF job \in Details
                       THEN /\ pc' = "details" /\ todo' = todo \ {job[2]}
                            /\ job' = All /\ data' = Empty
                       ELSE pc' = "items" /\ UNCHANGED <<todo, job, data>>
                  /\ UNCHANGED <<server, session, raw, page, cursor, got, expired, hist>>

WriteFails == /\ pc \in {"raw", "format", "items"} /\ Fault
              /\ CutShort
              /\ SaveError
              /\ UNCHANGED <<server, due>>

\* maxItems limits the details, newest first.
Wanted(S) == IF MaxItems = 0 THEN S
             ELSE {i \in S : Cardinality({j \in S : j > i}) < MaxItems}

\* Mutant: pages are asked for until one is empty.
AfterPageUntilEmpty == LET all == got \cup data.items IN
  \/ /\ data.items # {}
     /\ got' = all /\ page' = page + 1 /\ pc' = "page"
     /\ job' = All /\ data' = Empty
     /\ UNCHANGED <<session, cursor, todo, expired, exit>>
  \/ /\ data.items = {} /\ Exit("1")
\* The next page, or all transactions together; that there are none is an error.
AfterPage == LET all == got \cup data.items IN
  \/ /\ cursor # NoMore
     /\ got' = all /\ page' = page + 1 /\ pc' = "page"
     /\ job' = All /\ data' = Empty
     /\ UNCHANGED <<session, cursor, todo, expired, exit>>
  \/ /\ cursor = NoMore /\ all # {}
     /\ got' = all /\ job' = All /\ data' = Response(all) /\ pc' = "raw"
     /\ UNCHANGED <<session, page, cursor, todo, expired, exit>>
  \/ /\ cursor = NoMore /\ all = {}
     /\ Exit("1")

AfterAll == /\ todo' = Wanted(got) /\ pc' = "details" /\ data' = Empty
            /\ UNCHANGED <<session, page, cursor, got, job, expired, exit>>

\* Each transaction of the response is saved on its own.
WriteItems == /\ pc = "items"
              /\ formatted' = WithSingles(data.items, {})
              /\ IF job = All THEN AfterAll ELSE AfterPage
              /\ UNCHANGED <<server, raw, faults, due>>

(***************************************************************************)
(* processTransactions: the details, newest first.  No error ends the run. *)
(***************************************************************************)
NextTodo == Max(todo)

GetDetails == /\ pc = "details" /\ todo # {} /\ Answers /\ NextTodo \in Detailed
              /\ data' = Response({NextTodo}) /\ job' = <<"details", NextTodo>> /\ pc' = "raw"
              /\ UNCHANGED <<server, session, files, progress, expired, hist>>

GetDetailsNil == /\ pc = "details" /\ todo # {}
                 /\ \/ NoAnswer
                    \/ NextTodo \notin Detailed /\ UNCHANGED faults
                 /\ data' = Empty /\ job' = <<"details", NextTodo>> /\ pc' = "raw"
                 /\ UNCHANGED <<server, session, files, progress, expired, exit, due>>

GetDetailsFails == /\ pc = "details" /\ todo # {} /\ NoAnswer
                   /\ todo' = todo \ {NextTodo}
                   /\ UNCHANGED <<pc, server, session, files, page, cursor, got, job, data, expired, exit, due>>

Finish == /\ pc = "details" /\ todo = {}
          /\ Exit("0")
          /\ UNCHANGED <<server, files, faults, due>>

Program == \/ Login \/ ProvideOTP \/ Store \/ Connect \/ SetupFails
           \/ GetPage \/ GetPageNil \/ GetPageFails
           \/ WriteRaw \/ WriteFormatted \/ WriteItems \/ WriteFails
           \/ GetDetails \/ GetDetailsNil \/ GetDetailsFails \/ Finish

Next == Publish \/ ExpireSession \/ Crash \/ Expire \/ Start \/ Program

Spec == Init /\ [][Next]_vars

\* The user runs the program again, and a running program goes on.
FairSpec == Spec /\ WF_vars(Start) /\ WF_vars(Program)

(***************************************************************************)
(* Properties.                                                             *)
(***************************************************************************)
\* Every variable has its type; the page number stays in range, no page is asked for
\* after the last one, and a response is only put into a file when there is one.
TypeOK ==
  /\ pc \in {"down", "login", "code", "store", "connect", "page", "raw", "format", "items", "details"}
  /\ listed \in 0..N /\ token \in {"none", "stale", "live"}
  /\ session \in {"none", "stale", "live"}
  /\ raw \in [Name \ Single -> Content] /\ formatted \in [Name -> Content]
  /\ page \in 1..(N + 1) /\ cursor \in 0..Top
  /\ got \subseteq Item /\ todo \subseteq got
  /\ job \in Name \ Single /\ data \in Content
  /\ pc = "page" => cursor # NoMore
  /\ pc \in {"format", "items"} => data.is = "response"
  /\ expired \in BOOLEAN /\ exit \in {"none", "crashed", "0", "1"}
  /\ faults \in 0..MaxFaults /\ due \subseteq Item

\* A run that exits with 0 has saved every transaction that was listed when it began,
\* on a page, among all transactions and on its own, although items come in between
\* the pages and whatever earlier runs left.
Saved(i) == /\ \E p \in Page : i \in formatted[p].items /\ i \in raw[p].items
            /\ i \in formatted[All].items /\ i \in raw[All].items
            /\ formatted[<<"item", i>>] = Response({i})
SuccessSavesAll == exit = "0" => \A i \in due : Saved(i)

\* Once faults stop, a transaction among the newest maxItems gets its details, unless
\* the stored token went stale.
EventuallyHasDetails ==
  \A i \in Detailed :
    (i \in Wanted(1..listed)) ~>
      (i \notin Wanted(1..listed) \/ formatted[<<"details", i>>] = Response({i})
                                  \/ token = "stale")

\* main.go:157-158: a stored token that fails makes the program log in again.  It never
\* does: each later run takes the stale token from the file.
Reauthenticates == (token = "stale") ~> (token # "stale")
=============================================================================
