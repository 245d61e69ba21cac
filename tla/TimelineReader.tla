---------------------------- MODULE TimelineReader ----------------------------
(***************************************************************************)
(* How the v1 program reads the timeline: the WebSocket reader             *)
(* (internal/traderepublc/api/websocket/reader.go) under the list and      *)
(* details client (api/wsclient.go), with the session of SessionAuth.      *)
(*                                                                         *)
(* A run asks for the pages of the list, each with the cursor the page     *)
(* before it carried, and then for details.  A request and its answer are  *)
(* abstracted to a number: 1..Pages for the list, the rest for details.    *)
(* An error state in answer to a details request does not end the run of   *)
(* the transaction handler (portfolio/transaction/handler.go:68-72), which *)
(* counts the item as skipped and asks for the next one over the same      *)
(* connection; the activity handler ends there, as both do in the list.    *)
(* The subscription number of a message is left out, for the reader never  *)
(* looks at it.                                                            *)
(***************************************************************************)
EXTENDS SessionAuth, Sequences

CONSTANTS Pages,        \* pages of the list
          Details,      \* details requests after it
          MaxOdd,       \* bound: data sent again, and "Authentication Error" messages,
          MaxOddApps    \* which come in runs with at most so many applications

ASSUME ReaderAssumption == /\ Pages \in Nat \ {0}
                           /\ {Details, MaxOdd, MaxOddApps} \subseteq Nat

Requests == 1..Pages + Details
Data(r) == [kind |-> "A", of |-> r]
Continue == [kind |-> "C", of |-> 0]
Unauthorized == [kind |-> "Unauthorized", of |-> 0]
AuthError == [kind |-> "Authentication Error", of |-> 0]
Refusal(r) == [kind |-> "other error", of |-> r]
Message == (UNION {{Data(r), Refusal(r)} : r \in Requests})
             \cup {Continue, Unauthorized, AuthError}

VARIABLES
  request,      \* the request Read is called with
  inbox,        \* what the server sent and the reader has not read
  serving,      \* the requests of the subscriptions the server serves
  answered,     \* those of them it sent data for
  results,      \* what Read returned in this run: [asked, got], the request and the one whose
                \* data or error state came for it, 0 for an "Authentication Error"
  odd,          \* history: the server said something unasked for in this run
  refused,      \* history: an "Authentication Error" came in this run
  odds          \* counted for the bound

readerVars == <<request, inbox, serving, answered, results, odd, refused, odds>>
vars == <<authVars, readerVars>>
server == <<odd, refused, odds>>

Init == /\ AuthInit
        /\ request = 1 /\ inbox = <<>> /\ serving = {} /\ answered = {}
        /\ results = <<>> /\ odd = FALSE /\ refused = FALSE /\ odds = 0

\* The program starts.
Begin == /\ Start
         /\ request' = 1 /\ inbox' = <<>> /\ serving' = {} /\ answered' = {}
         /\ results' = <<>> /\ odd' = FALSE /\ refused' = FALSE
         /\ UNCHANGED odds

(***************************************************************************)
(* Reader.                                                                 *)
(***************************************************************************)
\* connect, or reconnect after a login: what was under way on the old connection
\* is gone.  Each application connects its reader; only the last one runs.
Connect == /\ pc[Main] \in {"connect", "reconnect"}
           /\ inbox' = <<>> /\ serving' = {} /\ answered' = {}
           /\ Goto(Main, IF app < apps THEN "new" ELSE "sub")
           /\ UNCHANGED <<after, memory, tokenFiles, answers, counts, request, results, server>>

\* Read sends the request with the session token; the server serves it or not.
Subscribe == /\ pc[Main] = "sub"
             /\ \E token \in SessionRead(Main) :
                  IF token = "live"
                    THEN serving' = serving \cup {request} /\ UNCHANGED inbox
                    ELSE inbox' = Append(inbox, Unauthorized) /\ UNCHANGED serving
             /\ Goto(Main, "recv")
             /\ UNCHANGED <<after, memory, tokenFiles, answers, counts, request, answered, results,
                            server>>

Arrived(kinds) == /\ pc[Main] = "recv" /\ inbox # <<>>
                  /\ Head(inbox).kind \in kinds

\* The next request, or the end of the run.
Proceed == IF request' \in Requests THEN Goto(Main, "sub") /\ UNCHANGED <<after, memory, answers>>
                                    ELSE Exit("done")

ReadContinueAsData == /\ Arrived({"C"})  \* mutant: the continue state is taken for data
                      /\ inbox' = Tail(inbox)
                      /\ results' = Append(results, [asked |-> request, got |-> 0])
                      /\ request' = request + 1
                      /\ Proceed
                      /\ UNCHANGED <<tokenFiles, counts, serving, answered, server>>
ReadContinue == /\ Arrived({"C"})
                /\ inbox' = Tail(inbox)
                /\ UNCHANGED <<authVars, request, serving, answered, results, server>>

\* The session is over: log in, reconnect and read again.
ReadUnauthorized == /\ Arrived({"Unauthorized"})
                    /\ inbox' = Tail(inbox)
                    /\ Goto(Main, "login")
                    /\ UNCHANGED <<after, memory, tokenFiles, answers, counts,
                                   request, serving, answered, results, server>>

\* An error state ends the run, in the list and in the details of the activity log.
ReadError == /\ Arrived({"other error"})
             /\ Exit("failed")
             /\ UNCHANGED <<tokenFiles, counts, readerVars>>

\* In the details of the transactions it is counted as skipped; nothing is unsubscribed.
SkipRefused == /\ Arrived({"other error"}) /\ request > Pages
               /\ inbox' = Tail(inbox)
               /\ results' = Append(results, [asked |-> request, got |-> Head(inbox).of])
               /\ request' = request + 1
               /\ Proceed
               /\ UNCHANGED <<tokenFiles, counts, serving, answered, server>>

\* Read unsubscribes, which the server may confirm; the message goes to the response
\* writer and is returned.
Unsubscribe == /\ serving' = serving \ {request} /\ answered' = answered \ {request}
               /\ \/ inbox' = Tail(inbox)
                  \/ request \in serving /\ inbox' = Append(Tail(inbox), Continue)

\* List goes on with the cursor of the page it got, and ends where there is none: at
\* the last page, and when what it got is an error message.  Details takes what it got.
SkipLastPage(got) == IF request > Pages THEN request + 1  \* mutant: the last cursor is ignored
                     ELSE IF got \in 1..Pages - 2 THEN got + 1 ELSE Pages + 1
NextRequest(got) == IF request > Pages THEN request + 1
                    ELSE IF got \in 1..Pages - 1 THEN got + 1 ELSE Pages + 1

\* Data, and the error every item of which is an "Authentication Error": the loop over
\* the items ends and the message is taken for data.
Return == /\ Arrived({"A", "Authentication Error"})
          /\ Unsubscribe
          /\ LET got == Head(inbox).of IN
               /\ results' = Append(results, [asked |-> request, got |-> got])
               /\ request' = NextRequest(got)
          /\ Proceed
          /\ UNCHANGED <<tokenFiles, counts, server>>

\* The connection fails, or the response writer does.
ReadFails == /\ pc[Main] \in {"connect", "reconnect", "sub", "recv"}
             /\ Fault
             /\ Exit("failed")
             /\ UNCHANGED <<tokenFiles, readerVars>>

MainStep == \/ MainAuthStep /\ UNCHANGED readerVars
            \/ Connect \/ Subscribe \/ ReadContinue \/ ReadUnauthorized \/ ReadError \/ SkipRefused
            \/ Return \/ ReadFails

(***************************************************************************)
(* The server.                                                             *)
(***************************************************************************)
Say(m) == inbox' = Append(inbox, m) /\ UNCHANGED <<authVars, request, results>>

Answer == /\ Running
          /\ \E r \in serving \ answered : Say(Data(r)) /\ answered' = answered \cup {r}
          /\ UNCHANGED <<serving, server>>

SayContinue == /\ Running /\ serving # {} /\ inbox = <<>>
               /\ Say(Continue)
               /\ UNCHANGED <<serving, answered, server>>

\* Something nobody asked for, as far as the bounds allow.
Unasked == /\ apps <= MaxOddApps
           /\ odds < MaxOdd /\ odds' = odds + 1
           /\ odd' = TRUE

\* Data for a subscription is sent again, as for a live one it may be.
Update == /\ Running
          /\ Unasked
          /\ \E r \in answered : Say(Data(r))
          /\ UNCHANGED <<serving, answered, refused>>

RefuseAuth == /\ Running
              /\ Unasked
              /\ refused' = TRUE
              /\ \E r \in serving \ answered : Say(AuthError) /\ serving' = serving \ {r}
              /\ UNCHANGED answered

\* A request is answered with an error state: any of them, as often as it is asked.
RefuseOther == /\ Running
               /\ \E r \in serving \ answered : Say(Refusal(r)) /\ serving' = serving \ {r}
               /\ UNCHANGED <<answered, server>>

ServerStep == Answer \/ SayContinue \/ Update \/ RefuseAuth \/ RefuseOther

Next == \/ Begin \/ MainStep \/ ServerStep
        \/ (TickerStep \/ Crash \/ Expire) /\ UNCHANGED readerVars

Spec == Init /\ [][Next]_vars

(***************************************************************************)
(* All goroutines go on when they can, the user answers the prompts, and  *)
(* the server answers a subscription it accepted.                          *)
(***************************************************************************)
FairSpec == /\ Spec
            /\ WF_vars(MainStep) /\ WF_vars(Answer)
            /\ \A c \in Clients : WF_vars(WriteStep(c) /\ UNCHANGED readerVars)

(***************************************************************************)
(* Properties.                                                             *)
(***************************************************************************)
\* Every variable has its type; the reader is never left with a request the list
\* and the details do not have while it works.
TypeOK == /\ AuthTypeOK
          /\ pc[Main] \in (AuthLocations \cup {"sub", "recv"}) \ {"idle"}
          /\ \A c \in Clients : pc[c] \in {"off", "idle", "set", "truncate", "flush"}
          /\ request \in 1..Pages + Details + 1
          /\ pc[Main] \in {"sub", "recv"} => request \in Requests
          /\ inbox \in Seq(Message)
          /\ serving \subseteq Requests /\ answered \subseteq serving
          /\ results \in Seq([asked : Requests, got : Requests \cup {0}])
          /\ odd \in BOOLEAN /\ refused \in BOOLEAN
          /\ odds \in 0..MaxOdd

\* Although the reader takes whatever message comes next for its answer, each request
\* gets its own, be it data or an error state, and none is asked twice or passed over, as
\* long as the server says nothing unasked for: neither a confirmation still under way,
\* nor a login in between, nor a skipped request that is not unsubscribed, gets in the
\* way (reader.go:115-173, handler.go:68-72).
AnswersAreOwn == ~odd => \A n \in 1..Len(results) : results[n] = [asked |-> n, got |-> n]

\* A run that ends well has read the list first, every page of it and in order; data
\* sent again makes it read a page twice but never skip one, because the cursor for
\* the next page is taken from the page that came (wsclient.go:47-61).
NoPageSkipped ==
  pc[Main] = "done" /\ ~refused =>
    \E last \in 1..Len(results) :
      /\ \A n \in 1..Len(results) : results[n].asked <= Pages <=> n <= last
      /\ results[1].got = 1 /\ results[last].got = Pages
      /\ \A n \in 1..last - 1 : results[n + 1].got \in {results[n].got, results[n].got + 1}

\* Whoever entered a code once is not asked for one again, by this run or a later
\* one, while the server accepts the refresh token on disk (auth/client.go:50-52).
NoCodeForKnownDevice == pc[Main] = "otp" => refreshFile # "live"

\* Every run ends: tokens expire, or a refresh overwrites the token of a login, only so
\* often, and after each time the reader gets a live session and reads on; a refused
\* request ends the run or is skipped.
RunEnds == Running ~> ~Running

\* README.md:63: all transactions.  A run ends well with pages missing when an
\* "Authentication Error" was taken for the last page.
WholeList ==
  pc[Main] = "done" => \A p \in 1..Pages : \E n \in 1..Len(results) : results[n].got = p
=============================================================================
