# Verification of the Trade Republic portfolio downloader

TLA+ models of the program in this repository, the TLC configurations that check
them, and proofs TLAPS checks. Paths are relative to the root of the repository; `v1`
is the program under `cmd/` and `internal/`, `v2` the one under `v2/`.

## The system

v1 is a command-line program a user runs again and again. A run logs in, reads the
timeline and the activity log from Trade Republic over one WebSocket, appends new
transactions to `transactions.csv`, saves them in a database and downloads the PDF
documents. v2 is a rewrite under way: a concurrent WebSocket client and a downloader
that saves raw responses.

| Component | State it keeps | Operations | Interacts with |
|---|---|---|---|
| transaction pipeline (`portfolio/transaction/handler.go`, `processor.go`) | loop over items, counters | Handle, ProcessTransactionResponse, Process | reader, CSV, database, documents |
| CSV file (`filesystem/csv_*.go`) | `transactions.csv` | Read, Write | pipeline |
| database (`database/`) | one table, in memory or a file | Create | pipeline |
| document downloader (`portfolio/document/`) | PDF files by path | Download, Build, Resolve | both pipelines |
| activity pipeline (`portfolio/activity/`) | loop over entries, counters | Handle, Process | reader, documents |
| application (`cmd/portfoliodownloader`) | none | Run: transactions, then activity; two applications with `--write-responses` | both pipelines, session, response files |
| session (`api/auth`, `api/client.go`, `api/token.go`, `console/auth.go`) | two tokens in memory per client, two token files | NewClient, Login, ProvideOTP, refreshSession on a ticker | server, user, reader |
| WebSocket reader, list and details client (`api/websocket`, `api/wsclient.go`) | connection, subscription number | Read, connect, reconnect, List, Details | server, session |
| response files (`json_writer.go`, `reader/json.go`) | page counters, files of responses | Bytes, Read | reader, list and details client |
| values and types (`model_builder.go`, `util.go`, `factory.go`, `timeline/details`, `instrument`) | none | pure functions | pipeline |
| v2 WebSocket client (`websocketclient/client.go`) | connection, flag, number, mutex, channels | Connect, Close, Subscribe*, readMessages, unsubscribe, reconnect | server, downloader |
| v2 auth (`v2/internal/traderepublic/api/auth`, `api/client.go`) | token file `.auth` | Load, Login, ProvideOTP, Store | v2 downloader, server, user |
| v2 downloader (`v2/cmd/websocket-downloader/main.go`) | files of responses | authenticate, fetch pages, save, fetch details | v2 auth, v2 client |

What is hard here, and what each component must get right:

* **Crashes and failures between effects.** The pipeline writes a database record, a
  CSV file that may have to be created, a row and several documents, with nothing that
  ties them together. Right means: no transaction twice, no row without header, no row
  without record, documents created once and never damaged afterwards, and whatever a
  run left, later runs go on from there.
* **Errors of three kinds.** Some skip an item, some end the run, some are only
  logged. Right means: a run that reports success has accounted for every item.
* **Goroutines on one session.** The refresh goroutine and the main goroutine write
  the token without a lock; with `--write-responses` a second auth client, with a
  goroutine of its own, writes the same token files and takes ticks from the same
  channel. Right means: the reader ends, and a device that is known is not asked for
  a code.
* **Messages taken for answers by order only.** The v1 reader does not compare
  numbers. Right means: answers reach their requests, and no page is skipped.
* **A shared connection.** In v2 each subscription has a goroutine that reads,
  reconnects and shares a mutex with everyone. Right means: one reader at a time, each
  answer once, to its subscription, no nil connection, and an end after the timeout.

* **Files named by two sides.** A recording names a file after what it received, a
  replay after what it asks for, and files of earlier recordings stay. Right means: a
  whole recording replays as it was, and no mixture shows an item twice or under
  another name.
* **From texts to money.** What a response says is resolved to a type by a map of
  detectors in random order, read by a builder per type from numbers in three formats,
  and put into columns by a switch. Right means: one type per response, each amount on
  the right side, nothing made up, and only what cannot be read ends a run.
* **Files written over and over.** The v2 downloader writes each response three times
  in each run. Right means: exit code 0 means everything listed was saved, and a bad
  answer does not take a good file away.

`PROJECT.json` lists the hazards line by line, with the properties aimed at each.

## The modules

| Module | Models | Notes |
|---|---|---|
| `DocumentStore` | the files of `document.Downloader` | used by both pipelines |
| `TransactionPipeline` | v1 `App.Run`, transaction half | any number of runs |
| `Ledger` | what that pipeline promises | abstract; refined by `TransactionPipeline` |
| `TransactionPipeline_proofs`, `TransactionPipelineRuns_proofs` | | theorems: the ledger, and what a run achieves |
| `ActivityPipeline` | v1 `App.Run` with the activity half | the transaction half is its result |
| `ActivityPipeline_proofs` | | theorems |
| `SessionAuth` | v1 session | one or two clients with a goroutine each, and main |
| `TimelineReader` | v1 reader, list and details client | composes `SessionAuth` |
| `TimelineReader_proofs` | | theorems |
| `WebSocketClient` | v2 client with its user | goroutines, mutex, network |
| `Subscriptions` | what that client promises | abstract; refined by `WebSocketClient` |
| `WebSocketClient_proofs` | | theorems |
| `ResponseFiles` | v1 recording and replay of responses | any number of runs of both |
| `ResponseFiles_proofs` | | theorems |
| `DownloaderV2` | v2 `main.go` and auth: token, login, pages, details, files | any number of runs |
| `DownloaderV2_proofs` | | theorems |
| `TransactionModel` | v1 type resolvers, normaliser, number parser, builders, instrument, row factory | one response |
| `TransactionModel_proofs` | | theorems |
| `MCTransactionPipeline`, `MCActivityPipeline`, `MCResponseFiles`, `MCTransactionModel` | instances for TLC | |

The definitions after the comment `mutant` are not part of a specification: each is a
form of a definition with a plausible bug, which the properties are known to catch.

### TransactionPipeline

One action is one external effect (request, database save, opening the file, writing
the row, creating a document, copying its body) together with the computation up to
the next effect. `pc` names the next effect. `Crash` may come between any two, and
each effect has an action for its failure; `MaxFaults` bounds both together.

* An item is its position in the server's timeline, which grows at its head
  (`Publish`). What reading it concludes, `verdict`, depends on data the server holds
  and is the same in every run; it is chosen at first among all classes the code
  distinguishes.
* A transaction is identified by the id in its details, as in `processor.go:61`; two
  items may name the same one.
* `csv` is kept as existence, header line and rows. A row is written in one piece
  (the CSV writer buffers and flushes once); creating the file is a step of its own.
  That the CSV library returns an error for a file without header line is modelled
  from its use in `csv_reader.go:45`.
* The `default` branch of `factory.go`'s `Make` is not a step: no transaction the
  builders make reaches it.
* The file a document leaves holds "partial", "error page" or "complete". The HTTP
  status is not looked at by the code, so an error reply is saved like a document.

### ActivityPipeline

The same, for the activity log: no database and no CSV file, and so nothing that keeps
a document from being asked for again but the file itself. `RunTransactions` is the
result of the transaction half: success, an error its data leads to each time, or a
failure.

### SessionAuth and TimelineReader

A token is kept as what the server thinks of it: "none" (empty), "stale" or "live";
`ExpireSessions` and `ExpireRefresh` make live ones stale wherever they are. The
answer to a refresh is computed in one step and stored in another, so that the other
goroutine may come in between, and the file is truncated and written in two steps, as
`os.WriteFile` does. Reading a token while it is assigned is a data race: the model
lets it yield a token the server refuses. Two assignments at the same instant are
taken one after the other.

With `--write-responses` `main.go` builds two applications, `NewClient` builds a
second auth client from the same files, and the goroutine of the first goes on: three
goroutines, a memory per client (`session[c]`, `refresh[c]`), one pair of files. A
tick wakes whichever goroutine takes it from the channel. Each client keeps what it
was given last and overwrites what the other stored; since the server keeps accepting
both sessions, the reader still ends, and the files hold a refresh token again after
each login.

`TimelineReader` asks for the pages of the list and then for details. Subscription
numbers are left out, since `Read` never looks at the number of a message. The server
may send "C" before the data and after an unsubscription, data again (`Update`), an
"Authentication Error", another error state, or refuse the token. An error state in
answer to a details request of the transactions is kept by `%w` up to `handler.go:68`,
which counts the item as skipped and asks for the next over the same connection, with
nothing unsubscribed (`SkipRefused`); in the list and in the activity log it ends the
run (`ReadError`). Whether the details at hand are of the one or the other is left
open. Opening a connection is one step (only main uses it).

### WebSocketClient

Process 0 is the goroutine of `main.go`; process s reads for subscription s. Each
call that can block, each use of the mutex, and the unprotected read of `c.conn` is a
step. A connection is up, lost (reads and writes fail), silent (nothing comes and
nothing fails) or shut by the client. Two readers on a connection make reads fail,
which stands for what gorilla/websocket leaves undefined. The context may expire at
any time. The session token is not empty (`subscribe` returns an error without effect
otherwise). Payloads are left out.

### ResponseFiles

`mode` says what the run on hand does. A recording takes an answer (`Answer`, or
`OddAnswer`: an "Authentication Error" that counts as data, or the data of the read
before, sent again), writes it (`WriteFile`, named by `FileName` after the data) and
hands it to the list or details client. A replay reads the file that `Wanted` names
after the request. Both go through the lists `App.Run` handles, the pages of each by
cursor, put together in `items` as `List` does, and then the details of its items,
oldest first, without those that have none (`Skip`). A details request that is answered
with an error state leaves no file, and where the handler of the list is `Forgiving`
the run goes on with the next item (`SkipRefused`); else it ends (`RefusalEnds`). The
server refuses as often as it likes. Items that are `Blocked` cannot be processed and
end each run that reads them, a recording or a replay (`Return`). `files` holds a response, is
`Absent`, or `Torn` where a write was cut: `os.WriteFile` truncates first. The lists
grow between runs and between pages (`Publish`). `MaxPage` bounds the numbers a file
can have; `ResponseAssumption` makes it large enough for every run to stay below it.

What holds is not that any directory replays: pages of two recordings beside each
other leave out the items at the seam, which moved from one page to the next in
between (`ReplaySound` says that none comes twice), and an answer that is not to the
request is written under a name the replay does not ask for, so that it fails. So does
the replay of a recording that passed over a refused request: what the recording counted
as skipped is a missing file to the replay, which no handler ignores.
`CompleteRecordingReplays` is about recordings that ended well and met no answer to
another request, over any directory (the history variables `tape` and `strange` say
which those are): the replay returns the same, read by read, and misses a file only at a
request the recording passed over. There it may also find the details an older
recording left (`Replayed`). `EventuallyReplayed` has as premises that the server stops
refusing requests and that no blocked transaction is listed.

### DownloaderV2

Each write of a file is an action, each request with its answer another. A request
ends in an answer, in nil (the channel was closed without data) or in an error; these
are the outcomes `WebSocketClient` shows, and `NoAnswer` says when the last two come.
Files are kept by name, the raw and the formatted form apart, and hold a response,
known by its items, or nothing ("empty"). A write that fails or is cut by a crash
leaves the file as it was or without content (`CutShort`). `got` is a set, newest
first being the order of positions. Items may be published between two pages; the
cursor is the oldest position of the page. `.auth` holds the session token: `Start`
takes it as it is if it is not empty. Otherwise the user logs in: `Login` gives a
process id or none (then the run goes on with an empty token), `ProvideOTP` answers
with the cookie of the session or without, and `Store` writes what there is, or cuts
the file short (`TornToken`); that storing fails is only logged. Without a session the
first request fails (`ErrAuthRequired`). Logging in again is the next run's business.

### TransactionModel

One response goes through `ProcessTransactionResponse`: event type, normaliser, type,
builder, row. A text is what `ParseFloatFromResponse` makes of it, so a number,
"no number" (`ErrNoMatch`), "malformed" (`ParseFloat` fails), or the row is missing.
Numbers are written in three formats, `German` (1.799,97), `Pointed` (1799.97, savings
plans of one event type) and `English` (1,799.97, interest payouts), each reduced to
what the pattern of `ParseFloatFromResponse` sees of it: digits, points, a comma and
what follows. `BooksMoney` leaves out interest payouts of a thousand and more: of
"1,055.07" the code takes 1.055.
The instrument is a security of some kind, which its ISIN's prefix (coins, loans) and
its name's suffix (funds) show; a certificate has the icon and name of the index it
follows. `Given` is what the bank says of it: payload, icon and name, by event type.
The response is made from a `statement`, what the bank did, by `Stated`, and then up
to `MaxBroken` parts are taken away or broken. `Stated` follows the recorded
responses under `tests/fakes`: the total of a purchase holds the fee, that of a sale
is net of fee and tax. The order in which a builder reads its fields (`Fields`)
decides which error it returns, and with it whether the run ends or the item is
skipped: these are the classes `TransactionPipeline` starts from.

## The runs

| Run | Checks | Bounds |
|---|---|---|
| `pipeline` | 8 invariants, refinement of `Ledger`, recording in the end | 4 items, two of them the same transaction, one without details; 3 documents, two with one path; 2 faults |
| `document_gap` | violated: a clean run leaves all documents | as above, no shared path |
| `activity` | 3 invariants, files settle once, each document filed in the end | 3 entries, 3 documents, 2 faults |
| `timeline_reader` | 4 invariants, each run ends | 1 or 2 applications, 2 pages, 2 details requests, 1 tick, 1 expiry, 1 fault, 1 odd message (data again, or an authentication error) with one application, any request refused |
| `truncated_list` | violated: the whole list | 1 authentication error |
| `ws_client` | 4 invariants, refinement of `Subscriptions`, answers and end | 2 subscriptions one after the other, 3 connections, 1 reset, 1 silence, timeout |
| `ws_reconnect` | violated: every subscription answered | 1 subscription, 1 reset |
| `ws_timeout` | violated: the timeout ends the program | 1 silence |
| `downloader` | 2 invariants, details in the end | 3 items, 2 a page, one without details, 2 details a run, 3 faults |
| `stale_token` | violated: a refused token is replaced | as above, 1 fault |
| `response_files` | 3 invariants, replays that end well come again | 4 transactions on 2 pages, one without details and one that cannot be processed, 1 activity, 2 faults, 1 odd answer, any request refused |
| `transaction_model` | 6 invariants | every event and order type, 9 statements, 5 kinds of security, 2 broken parts |

Why the bounds are enough for the cases that matter: two faults allow a run that
dies, a second that fails on what the first left, and a third that is clean. Two
items of one transaction and one of another show duplicates within a run and across
runs, and order. Two documents on one path show that the second is taken for the
first. Two pages have a first, a last and a cursor between them; two details requests
allow one that is skipped before one that is answered. A second application adds a
goroutine that writes the token files, and an odd message only concerns the reader, so
that TLC has odd messages in runs of one application (`MaxOddApps`); the theorems have
them in all. One tick can fall
before, into and after a login. Two subscriptions one after the other show a reader
left over from the first while the second starts, and three connections are one more
than the faults of the network use up. Three items and two a page make one page or
two, as the timeline grows, and `MaxItems` = 2 leaves one without details; a third fault there lets a login fail
or a token be cut before the two that the files meet. Four items on two pages are a
first page that moves while the second does not, so that two recordings can be beside
each other; two faults are a recording that is cut and a repetition that is. The nine
statements have a gain and a loss, with and without fee and tax, and one is above a
thousand in all its amounts, where the formats differ;
two broken parts show which of two errors wins, that a
payment falls back on its title, and an instrument on its icon.

What the violated ones show, in the code's terms:

* `document_gap`: the row is written before the documents are downloaded, and
  `processor.go:60-64` returns for every transaction that has a row. What a crash or a
  failed download leaves out stays out.
* `truncated_list`: an error message of "Authentication Error" items only is taken
  for data (`reader.go:137-173`), and by `List` for a last page.
* `ws_reconnect`: nobody subscribes on the new connection (`client.go:298-304`). The
  user waits until its context is done.
* `ws_timeout`: the reply to the connect message is awaited without a deadline
  (`client.go:161`, `:440`), in `reconnect` with the mutex held that `Close` needs.
* `stale_token`: `authenticate` returns any stored token that is not empty
  (`main.go:152-160`), and nothing removes one the server refuses. The user has to
  delete the file.

What else the models say of the code, without a run of its own: a crash between
`csv_writer.go:36` and `:48` leaves an empty file, and reading it is an error for each
later run until the user deletes it (`EventuallyRecorded` leaves this out; the same
error is what keeps rows from being written below no header, `NoRowWithoutHeader`);
an error of the builder or the normaliser that is not ignorable ends the run
(`handler.go:89`), at the same item each time, and newer ones wait behind it
(`EventuallyRecorded` leaves them out; `NoSilentGap` shows that none is recorded past
it); `App.Run` comes to the activity log only when the transaction half succeeds
(`app.go:34`), which is a premise of `EventuallyFiled`; an interest payout of a
thousand and more is booked as one and a bit (`util.go:14`); a dividend has no payload
in its header, and its ISIN is that of the icon, which can be another security's, and
an instrument without a name is "Cash" (`instrument/model_builder.go:36-48`); two
documents with one path are one file to every later look (`document/model_builder.go:42`),
and `NoFaultNoGap` asks for a file at the path, not for one of each document; a refresh that fails
replaces a live session token by an empty one (`api/auth/client.go:110-115`); the
reader of one v2 subscription drops the answer of another (`client.go:316`), which
`main.go`, waiting for one at a time, does not meet; a nil answer empties a raw file
that held a response (`main.go:508`) although it leaves the formatted one alone; the
invested amount of a sale is short of the cost by the tax (`factory.go:41`;
`InvestedIsCost` states it so, and the column is not written to the CSV file).

Deadlock is checked where the user can always start the program again. `WebSocketClient`
is one run of a program that exits, and `TransactionModel` one response that is done
with: `CHECK_DEADLOCK FALSE` is set there.

## Fairness

* Pipelines: a running process goes on (`WF(Program)`), and the user runs the program
  again (`WF(Start)`), as a tool for new transactions is meant to be used. Nothing
  makes the server publish, a fault happen or fail to happen; faults are bounded, so
  that "once faults stop" is part of the premises.
* `TimelineReader`: main goes on, which includes that the user answers prompts; the
  ticker goroutine finishes what it began; the server answers a subscription it
  accepted, unless it refuses the request. The tick is not fair. The bounds on ticks and expiries stand for the two
  minutes between ticks: were a refresh to fall into each request, the reader would
  log in for ever.
* `ResponseFiles`: a started run goes on (`WF(Program)`), and the user records and
  replays again and again. Strong fairness of `StartRecord` and `StartReplay`, as each
  can start only when no run is on. Only this makes `EventuallyReplayed` true: a
  recording overwrites what a fault left, once the server refuses nothing.
* `DownloaderV2`: as the pipelines. `EventuallyHasDetails` excepts a stale stored
  token, which is what `stale_token` is about.
* `TransactionModel`: none; it has no liveness property.
* `WebSocketClient`: every goroutine that can take a step does; the server answers a
  subscription it serves, with strong fairness because the bound on unread messages
  can keep it from sending now and then. Nothing makes the network fail or the
  context expire.

## What is proved

`TransactionPipeline_proofs` proves, for every timeline, assignment of documents and
paths, set of verdicts and number of faults, and from the assumptions
`PathOfAssumption` and `PipelineAssumption` alone:

* `TypeCorrect`: `TypeOK`, with the loop indices in their lists;
* `NoDuplicates`, `HeaderFirst`, `RecordFirst`: the invariants `NoDuplicateRows`,
  `NoRowWithoutHeader` and `RowsBackedByDB`;
* `ImplementsLedger`: the refinement `LedgerSpec`.

None of the invariants is inductive alone. `PipelineInv` adds what each step of
`Process` knows when it is reached: from the read of the file to the write of the row
the transaction is not in it (`Discovered`), from then on it is (`Filed`); the file
can be read, and when the row is written it either has a header or is new
(`Readable`); while a body is copied the file is there, unfinished and of this
document (`Copying`); the record is saved when the file is opened (`Saved`). One
lemma per group of actions shows that it is preserved; the theorems follow. The
refinement uses the same invariant: the row that is appended is new because of
`Discovered`, the document file is created for a recorded transaction because of
`Filed`, and settled only while unfinished because of `Copying`.

`TransactionModel_proofs` proves all six invariants of `TransactionModel` for every set
of statements and every number of broken parts, from `ModelAssumption` alone (amounts
are natural numbers, and fee and tax do not exceed the money that moves). `ModelInv`
says where each piece of the state comes from: a text that was read is what the bank
stated (`Faithful`; only the title of an order is excepted, since it depends on the order
type, which is lost with the tables), the type was detected (`Resolved`), none of its
fields failed and the model is what the builder made of the texts (`Complete`), and the
row is what the factory made of the model (`Entered`), and the instrument is made of
what the bank gave, some of it missing (`GivenByBank`, `Instrumented`).
`WrittenIsRead` says that the parser gives each amount back to the cent that was
written in any of the formats, except in the English one from a thousand on; one lemma
per format is arithmetic on quotients and remainders. `BooksMoney` and
`InvestedIsCost` then follow by arithmetic from `TotalIsStated` (the model's total is
the money that moved, whichever field it came from) and `DebitedIsOut` (the types that
are debited are those whose events take money).

`TransactionPipelineRuns_proofs` goes on from `PipelineInv` to what a run achieves:

* `Chronology`: `RunIsChronological`; `Accounting`: `SuccessAccountsForAll`;
  `NothingLeftBehind`: `NoSilentGap`; `Gapless`: `NoFaultNoGap`.

`RunInv` relates the loop of `Handle` to the file. The counters hold exactly the items
with details behind the loop, the processed ones recorded and the skipped ones
ignorable (`Counting`); the outcome of an item says which it will be (`Concluding`);
the rows of this run are of items the loop has reached (`Behind`), so that the next row
is later than all of them, and all older items are recorded or skipped; and while nothing has failed the missing documents are those
ahead of the loop, the unfinished file the one being copied (`NoneMissing`,
`NoneUnfinished`).

`ActivityPipeline_proofs` proves all three invariants of `ActivityPipeline` and the
action property `FilesSettleOnce` (`TypeCorrect`, `Accounting`, `CleanRunFiles`,
`SettledFilesStay`). `ActivityInv` has the same parts: `InOrder`, `Counting`, `Filed` (a
clean run has the files of what is behind both loops) and `Copying` (the body goes into
the file just created, still partial), from which it follows that a finished file is
never written to.

`TimelineReader_proofs` proves all four invariants of `TimelineReader`, for any number
of applications, pages, details requests, ticks, expiries, faults and odd messages.

* `TypeCorrect`: `TypeOK`, with the places main and the ticker goroutines can be at
  (`Location`).
* `KnownDevice`: `NoCodeForKnownDevice`. `TokenKept` says why: whenever the refresh
  token on disk is accepted, main's own is, whichever goroutine wrote the file.
* `OwnAnswers`: `AnswersAreOwn`. Until the server says something unasked for, what is
  under way holds one answer at most, data or an error state, that of this request, and
  none before it is sent; after an error state the server serves nothing any more, so that
  a skipped request leaves nothing behind although it is not unsubscribed (`OneAnswer`).
* `EveryPage`: `NoPageSkipped`. With data sent again, what is under way is of this page
  and the one before, in this order (`PagesUnderWay`), so that what was read goes up by
  one page at most (`PagesRead`).

`WebSocketClient_proofs` proves, for every number of subscriptions, connections, unread
messages and network faults:

* `TypeCorrect`: `TypeOK`; `NothingLeftSubscribed`: `UnsubscribedAfterData`;
* `ImplementsSubscriptions`: the refinement `KeepsPromises` of `Subscriptions`, each
  action of the client an action of the abstract one or a stutter;
* `SingleReader` and `NeverNil`: `OneReader` and `NoNilConnection`, for a user who waits
  for one subscription at a time (`MaxOutstanding = 1`), as `main.go` does. With two at
  a time both are false, which TLC shows at once.

`ClientInv` says what the holder of the mutex knows of the connection (`Locking`), what a
reader has put into its channel by where it is (`Delivery`), and that the server serves
only on the connection in use (`Serving`). `OneAtATime` adds for the last two theorems
that, until the context is done, whoever reads is waited for, and so is the only one.

`DownloaderV2_proofs` proves all of `DownloaderV2` but liveness, for every timeline, page
size and number of faults.

* `SuccessSaves`: `SuccessSavesAll`; `TypeCorrect`: `TypeOK`. `SaveInv` says that what
  was listed at the first page is got or still below the cursor (`Covered`), that what
  is got is in the files (`Filed`), and that each page takes the cursor down, so that a
  run cannot count more pages than there are items (`Cursors`). Nil goes no further than
  the raw file, because it does not parse (`Parsed`). That the cursor, the
  oldest position of a page, exists needs a least element of a finite set of numbers; it
  comes from the library's well-founded order on numbers. `DownloaderAssumption` asks
  for a bound `N` of one item at least, since the files have the page of number 1.

`ResponseFiles_proofs` proves all three invariants of `ResponseFiles`, for every number
of lists, their lengths, the size of a page, and any number of recordings, replays,
faults and odd answers. There are three inductive invariants, each on top of the first.

* `FilesInv` (`TypeCorrect`): a file is named after the data in it (`Named`), and a
  page that is not the last is as far from the end of its list as its number says
  (`Numbering`), which is why no run, a replay of mixed files included, reads for ever
  or writes a number above `MaxPage` (`Paging`).
* `OrderInv` (`ReplaysAreSound`): pages of different recordings beside each other. Each
  page, through its number, tells how long the list was when its recording began
  (`LengthAt`); a file with a smaller number is of the same recording or a later one, so
  of a list at least as long (`Newer`), and what the next page brings is below the
  cursor (`Replay`). A recording in between keeps this, since the files up to where it
  is are its own and those after are older (`Fits`).
* `RecordingInv` (`ReplaysRecordings`): a recording's control states, from the first
  request on, as a sequence in which each follows from the one before and the response
  read (`Trail`), with every response in the file a replay asks for at that state
  (`Held`), but for refused requests. A replay is always at one of these states
  (`OnTape`), so that it finds each file but that of a refused request
  (`MissesRefused`), and ends where the recording did.

So each invariant and action property of a passing run, and both refinements, are
theorems; the inductive invariants, as far as TLC can evaluate them, were checked on the
instance of the run before they were proved. What TLC alone checks is liveness, `EventuallyRecorded`, `EventuallyFiled`,
`RunEnds`, `AnsweredIfSound`, `EndsAfterTimeout`, `EventuallyHasDetails` and
`EventuallyReplayed`, because fairness (`ENABLED`) is out of the prover's reach. The five
runs that expect a violation are counterexamples and have nothing to prove.

## Not modelled

* The generated REST clients, dependency injection, constant headers, the example
  generator and the v2 command that only prints: no behaviour of their own.
* Terminal input: what the user enters is right, or the call it is for fails.
* The wording of rows, messages and documents; a response is known by its items, a
  text by what the parser makes of it, a name by what it shows of the security.
* Two v2 subscriptions that wait at the same time: nothing in the program does that;
  `main.go` waits for each before the next.
* The SQL of the database and the library that writes CSV: taken from how they are
  used.

## Plan

Done first, because loss and duplication of the user's records matter most: the
pipeline with its ledger and proofs, then the activity half, the session with the
reader, the v2 client, the v2 downloader with a first proof, and the types and amounts
with proofs of all their invariants. Then what the inventory still named: recording
and replay, the number formats and instruments, two applications on one session, and
the v2 login.

Then the proofs: what a run of the pipeline achieves, the activity pipeline, the v2
client with its refinement, the reader with its session, the v2 downloader, and the
recorded responses. What is left:

1. Theorems about `SessionAuth` alone, for each client and not only main's.
2. Further refinements: of the pipeline with its activity half to one ledger of files,
   and of `DownloaderV2` to an abstract archive that only gains responses.
3. Action properties of the v2 client that its invariants imply: a connection given up
   is never used again.
