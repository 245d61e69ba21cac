----------------------------- MODULE ResponseFiles -----------------------------
(***************************************************************************)
(* The recorded responses: the directory "responses", which a run with     *)
(* --write-responses writes (filesystem/json_writer.go, called by          *)
(* Reader.Read before it returns data) and a run of the developer's        *)
(* program with --local reads instead of the server (reader/json.go).      *)
(*                                                                         *)
(* The writer names a file after the DATA: the id it carries, or the next  *)
(* page number of its directory.  The reader names it after the REQUEST:   *)
(* the id asked for, or the next page number.  Files stay where they are   *)
(* from one run to the next, so a recording goes over an older one, file   *)
(* by file.  A timeline is a stack of items <<list, n>>, the newest with   *)
(* the largest n; a page is a sequence of items, newest first, and the     *)
(* cursor of the next page, the n its first item will have.                *)
(*                                                                         *)
(* A details request that is answered with an error state leaves no file   *)
(* (websocket/reader.go:151 comes before the writer), and the transaction  *)
(* handler goes on with the next item (handler.go:68-72): the recording    *)
(* ends well all the same.                                                 *)
(***************************************************************************)
EXTENDS Integers, Sequences, SequencesExt

CONSTANTS Timelines,    \* the lists, in the order App.Run handles them
          Longest,      \* bound: the items a list can come to have
          PageSize,     \* items on a page
          Bare,         \* items without details
          Forgiving,    \* the lists whose handler passes over a refused details request
          Blocked,      \* items with details that cannot be processed, in any run
          MaxPage,      \* bound: the pages of a directory
          MaxFaults,    \* bound: failures and kills
          MaxOdd        \* bound: answers that are not to the request

DetailsDir == "timelineDetailV2"
Lists == ToSet(Timelines)
Item == UNION {{l} \X (1..Longest[l]) : l \in Lists}

ASSUME ResponseAssumption ==
  /\ Timelines \in Seq(Lists) /\ Timelines # <<>> /\ IsInjective(Timelines)
  /\ DetailsDir \notin Lists
  /\ PageSize \in Nat \ {0} /\ {MaxFaults, MaxOdd, MaxPage} \subseteq Nat
  \* A recording writes no more pages of a list than it has items, and one per odd answer.
  /\ \A l \in Lists : Longest[l] \in Nat \ {0} /\ Longest[l] + MaxOdd + 1 <= MaxPage
  /\ Bare \subseteq Item /\ Blocked \subseteq Item /\ Forgiving \subseteq Lists

Dirs == Lists \cup {DetailsDir}
NoId == <<>>
NoCursor == 0
\* Responses: a page, an item's details, and an error message, which is neither.
Page(items, after) == [id |-> NoId, items |-> items, after |-> after]
DetailsOf(i) == [id |-> i, items |-> <<>>, after |-> NoCursor]
AuthError == Page(<<>>, NoCursor)
None == [id |-> "none"]
Absent == [id |-> "absent"]
Torn == [id |-> "torn"]     \* truncated, and not or only partly written again
Refused == [id |-> "refused"]   \* an error state, in place of a response
NoTape == <<"none">>
\* The names of files: a page number, or an id.
Names == {<<k>> : k \in 1..MaxPage} \cup Item

VARIABLES
  listed,       \* listed[l]: the items of list l so far
  files,        \* the directory "responses"
  mode,         \* "record" or "replay": what the run that is on, or was last, does
  exit,         \* "running", or how the last run ended
  list,         \* index of the list the run handles
  after,        \* the cursor of the page to ask for
  items,        \* what List put together so far
  todo,         \* the items the handler has yet to handle; <<NoId>> while List asks for pages
  cursors,      \* page numbers: JSONWriter.cursors, in a replay JSONReader.cursors
  answer,       \* the response the writer has in hand, or None
  before,       \* the response of the read before
  result,       \* what the reads of this run came to: [dir, asked, got]
  tape,         \* history: what the last recording returned, where it ended well
  strange,      \* history: this recording was given a response another name asked for
  resent,       \* history: some recording was sent data a second time
  faults, odds  \* counted for the bounds

run == <<mode, exit, list, after, items, todo, cursors, answer, before, result>>
history == <<tape, strange, resent>>
vars == <<listed, files, run, history, faults, odds>>

Current == Timelines[list]
ListPhase == todo # <<>> /\ Head(todo) = NoId
Dir == IF ListPhase THEN Current ELSE DetailsDir
Asked == Head(todo)     \* the id of the request, NoId for a page

Init == /\ listed = [l \in Lists |-> 1]
        /\ files = [d \in Dirs |-> [n \in Names |-> Absent]]
        /\ mode = "record" /\ exit = "never ran" /\ list = 1 /\ after = NoCursor
        /\ items = <<>> /\ todo = <<>> /\ cursors = [d \in Dirs |-> 1] /\ answer = None /\ before = None
        /\ result = <<>> /\ tape = NoTape /\ strange = FALSE /\ resent = FALSE
        /\ faults = 0 /\ odds = 0

\* An item comes to be listed; between runs and between the pages of one.
Publish == \E l \in Lists :
             /\ listed[l] < Longest[l]
             /\ listed' = [listed EXCEPT ![l] = @ + 1]
             /\ UNCHANGED <<files, run, history, faults, odds>>

Begin(m) == /\ exit # "running"
            /\ mode' = m /\ exit' = "running" /\ list' = 1 /\ after' = NoCursor
            /\ items' = <<>> /\ todo' = <<NoId>> /\ cursors' = [d \in Dirs |-> 1]
            /\ answer' = None /\ before' = None /\ result' = <<>>
            /\ UNCHANGED <<listed, files, resent, faults, odds>>

StartRecord == Begin("record") /\ tape' = NoTape /\ strange' = FALSE
StartReplay == Begin("replay") /\ UNCHANGED <<tape, strange>>

(***************************************************************************)
(* List and details clients, and the handlers above them.                  *)
(***************************************************************************)
Newest(from, n) == [k \in 1..n |-> <<Current, from - k + 1>>]
ServedPage == LET from == IF after = NoCursor THEN listed[Current] ELSE after
                  n == IF from < PageSize THEN from ELSE PageSize IN
              Page(Newest(from, n), from - n)
Served == IF ListPhase THEN ServedPage ELSE DetailsOf(Asked)

\* Mutant: List ends at an empty page, not at an empty cursor.
FollowToEmpty(got) == IF got.items = <<>>
                        THEN todo' = Reverse(items') /\ after' = NoCursor
                        ELSE after' = got.after /\ UNCHANGED todo
Follow(got) == IF got.after = NoCursor
                 THEN todo' = Reverse(items') /\ after' = NoCursor
                 ELSE after' = got.after /\ UNCHANGED todo

\* Read returns data: List adds the page to its items and follows the cursor, or is done
\* and the handler goes through the list it reversed, oldest item first.  Details that
\* cannot be processed end the run.
Return(got) == /\ result' = Append(result, [dir |-> Dir, asked |-> Asked, got |-> got])
               /\ before' = got /\ answer' = None
               /\ IF ListPhase THEN items' = items \o got.items /\ Follow(got)
                  ELSE todo' = Tail(todo) /\ UNCHANGED <<after, items>>
               /\ exit' = IF got.id \in Blocked THEN "failed" ELSE exit
               /\ UNCHANGED <<mode, list>>

\* An item without details is passed over, nothing is read for it.
WithoutDetails == todo # <<>> /\ Head(todo) \in Bare
Skip == /\ exit = "running" /\ WithoutDetails
        /\ todo' = Tail(todo)
        /\ UNCHANGED <<listed, files, mode, exit, list, after, items, cursors, answer, before,
                       result, history, faults, odds>>

NextList == /\ exit = "running" /\ todo = <<>> /\ list < Len(Timelines)
            /\ list' = list + 1 /\ todo' = <<NoId>> /\ after' = NoCursor /\ items' = <<>>
            /\ UNCHANGED <<listed, files, mode, exit, cursors, answer, before, result,
                           history, faults, odds>>

Ended(how) == /\ exit' = how
              /\ UNCHANGED <<listed, mode, list, after, items, todo, cursors, answer, before,
                             result, resent>>

Finish == /\ exit = "running" /\ todo = <<>> /\ list = Len(Timelines)
          /\ Ended("done")
          /\ tape' = IF mode = "record" /\ ~strange THEN result ELSE tape
          /\ UNCHANGED <<files, strange, faults, odds>>

(***************************************************************************)
(* A recording: the answer comes, the writer writes it, Read returns it.   *)
(***************************************************************************)
Asking == exit = "running" /\ todo # <<>> /\ ~WithoutDetails
Receives(got) == /\ mode = "record" /\ Asking /\ answer = None
                 /\ answer' = got
                 /\ UNCHANGED <<listed, files, mode, exit, list, after, items, todo, cursors,
                                before, result, tape, faults>>

Answer == Receives(Served) /\ UNCHANGED <<strange, resent, odds>>

\* "Authentication Error" is returned as data, and the reader takes any data for the
\* answer: that of the read before, which the server sends again, is one.
OddAnswer == /\ odds < MaxOdd
             /\ \E got \in {AuthError} \cup ({before} \ {None}) :
                  /\ Receives(got)
                  /\ strange' = (strange \/ got.id # Asked)
                  /\ resent' = (resent \/ got = before)
             /\ odds' = odds + 1

\* The server refuses a request, as often as it likes.
RefusedDetails == ~ListPhase /\ Current \in Forgiving
Refuses == mode = "record" /\ Asking /\ answer = None /\ UNCHANGED <<files, tape, strange, faults, odds>>

\* No file; the item counts as skipped.
SkipRefused == /\ Refuses /\ RefusedDetails
               /\ result' = Append(result, [dir |-> Dir, asked |-> Asked, got |-> Refused])
               /\ todo' = Tail(todo)
               /\ UNCHANGED <<listed, mode, exit, list, after, items, cursors, answer, before, resent>>

\* A page, or details of a list whose handler gives up.
RefusalEnds == Refuses /\ ~RefusedDetails /\ Ended("failed")

\* Bytes and GenerateFilename: the id of the data, or the next page number.
PageName(got) == <<cursors[Dir]>>  \* mutant: details are numbered as pages are
FileName(got) == IF got.id # NoId THEN got.id ELSE <<cursors[Dir]>>
Numbered(got) == IF got.id # NoId THEN cursors ELSE [cursors EXCEPT ![Dir] = @ + 1]

\* Mutant: a file that exists is left as it is.
PutNew(content) == files' = [files EXCEPT ![Dir][FileName(answer)] =
                                            IF @ = Absent THEN content ELSE @]
Put(content) == files' = [files EXCEPT ![Dir][FileName(answer)] = content]

WriteFile == /\ exit = "running" /\ answer # None
             /\ Put(answer) /\ cursors' = Numbered(answer)
             /\ Return(answer)
             /\ UNCHANGED <<listed, history, faults, odds>>

(***************************************************************************)
(* A replay: the file of the request is read.                              *)
(***************************************************************************)
Wanted == IF ListPhase THEN <<cursors[Dir]>> ELSE Asked
Found == files[Dir][Wanted]
NotAdvanced == cursors  \* mutant: the page number stays
Advanced == IF ListPhase THEN [cursors EXCEPT ![Dir] = @ + 1] ELSE cursors

Replaying == mode = "replay" /\ Asking

ReadFile == /\ Replaying /\ Found \notin {Absent, Torn}
            /\ cursors' = Advanced
            /\ Return(Found)
            /\ UNCHANGED <<listed, files, history, faults, odds>>

\* No such file, or one that is not JSON: Read or request fails, and the run with it.
ReadFails == /\ Replaying /\ Found \in {Absent, Torn}
             /\ Ended("read failed")
             /\ UNCHANGED <<files, tape, strange, faults, odds>>

(***************************************************************************)
(* Failures.  os.WriteFile truncates before it writes.                     *)
(***************************************************************************)
Fault == exit = "running" /\ faults < MaxFaults /\ faults' = faults + 1 /\ UNCHANGED odds

WriteStops(how) == /\ Fault /\ answer # None
                   /\ UNCHANGED files \/ Put(Torn)
                   /\ Ended(how) /\ UNCHANGED <<tape, strange>>
WriteFails == WriteStops("failed")
CrashInWrite == WriteStops("crashed")

\* A kill, a lost connection, or another file that cannot be written ends the run.
RunEnds == /\ Fault /\ answer = None
           /\ UNCHANGED files /\ UNCHANGED <<tape, strange>>
           /\ \E how \in {"failed", "crashed"} : Ended(how)

Program == \/ Answer \/ WriteFile \/ ReadFile \/ ReadFails \/ Skip \/ NextList \/ Finish
Next == \/ Publish \/ StartRecord \/ StartReplay \/ Program
        \/ OddAnswer \/ SkipRefused \/ RefusalEnds \/ WriteFails \/ CrashInWrite \/ RunEnds

Spec == Init /\ [][Next]_vars
\* The user records and replays again and again, and a started run goes on.
FairSpec == Spec /\ WF_vars(Program) /\ SF_vars(StartRecord) /\ SF_vars(StartReplay)

(***************************************************************************)
(* Properties.                                                             *)
(***************************************************************************)
\* The types; a directory holds data under the names the writer can give it, and no
\* run reads more pages than the list has.
TypeOK == /\ \A l \in Lists : listed[l] \in 1..Longest[l]
          /\ mode \in {"record", "replay"}
          /\ exit \in {"never ran", "running", "done", "read failed", "failed", "crashed"}
          /\ list \in 1..Len(Timelines)
          /\ ToSet(items) \subseteq Item /\ ToSet(todo) \subseteq Item \cup {NoId}
          /\ \A d \in Dirs : cursors[d] \in 1..MaxPage + 1
          /\ \A d \in Dirs : \A n \in Names :
               files[d][n] \notin {Absent, Torn} =>
                 files[d][n].id = IF n \in Item THEN n ELSE NoId

\* What a replay may return where the recording had this: a request that was refused then
\* finds the details an older recording left, if any.
Replayed(read) == [read EXCEPT !.got = IF @ = Refused THEN DetailsOf(read.asked) ELSE @]

\* After a recording that ended well, over whatever runs before left in the directory, and
\* with every response under the name its request asks for, a replay returns what that
\* recording returned, read by read; it misses a file only where the recording passed over
\* a refused request (json_writer.go, json.go, handler.go:68-72).
CompleteRecordingReplays ==
  mode = "replay" /\ tape # NoTape =>
    /\ Len(result) <= Len(tape)
    /\ \A k \in 1..Len(result) : result[k] = Replayed(tape[k])
    /\ exit = "read failed" => Len(result) < Len(tape) /\ tape[Len(result) + 1].got = Refused
    /\ exit = "done" => Len(result) = Len(tape)

\* Whatever runs the files are left from, a replay takes details only for the item they
\* are of, and lists each item at most once, newest first, unless a recording was sent
\* a page twice: pages of two recordings leave a gap, never an item twice.
ReplaySound ==
  mode = "replay" =>
    /\ \A k \in DOMAIN result : result[k].asked # NoId => result[k].got.id = result[k].asked
    /\ ~resent => \A j, k \in DOMAIN items : j < k => items[j][2] > items[k][2]

\* Where failures and odd answers end, the directory recovers from what they left: replays
\* that end well come again and again, provided that the server stops refusing requests and
\* no transaction that cannot be processed is listed.
Processable == \A i \in Blocked : listed[i[1]] < i[2]
EventuallyReplayed ==
  <>[][~(SkipRefused \/ RefusalEnds)]_vars /\ []Processable =>
    []<>(mode = "replay" /\ exit = "done")
================================================================================
