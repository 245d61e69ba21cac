-------------------------- MODULE ResponseFiles_proofs --------------------------
(***************************************************************************)
(* Proofs about the recorded responses.                                    *)
(*                                                                         *)
(* FilesInv says what the directory holds, and bounds the pages of a run.  *)
(* RecordingInv follows a recording control state by control state, and a  *)
(* replay of it along the same states.  OrderInv compares the pages that   *)
(* different recordings left beside each other.                            *)
(***************************************************************************)
EXTENDS ResponseFiles, TLAPS

(***************************************************************************)
(* The inductive invariant: the directory, and the pages of a run.         *)
(***************************************************************************)
Responses == {DetailsOf(i) : i \in Item} \cup [id : {NoId}, items : Seq(Item), after : Nat]
Reads == [dir : Dirs, asked : Item \cup {NoId}, got : Responses \cup {Refused}]

Typing == /\ listed \in [Lists -> Nat] /\ \A l \in Lists : listed[l] \in 1..Longest[l]
          /\ files \in [Dirs -> [Names -> Responses \cup {Absent, Torn}]]
          /\ mode \in {"record", "replay"}
          /\ exit \in {"never ran", "running", "done", "read failed", "failed", "crashed"}
          /\ list \in 1..Len(Timelines) /\ after \in Nat /\ items \in Seq(Item)
          /\ todo \in Seq(Item) \cup {<<NoId>>}
          /\ cursors \in [Dirs -> 1..MaxPage + 1]
          /\ {answer, before} \subseteq Responses \cup {None}
          /\ result \in Seq(Reads) /\ odds \in 0..MaxOdd
          /\ {strange, resent} \subseteq BOOLEAN

\* A file is named after the data in it, and a page that is not the last is as far from
\* the end of its list as its number says.
IdOf(n) == IF n \in Item THEN n ELSE NoId
Named == \A d \in Dirs : \A n \in Names : files[d][n] \in Responses => files[d][n].id = IdOf(n)
Numbering == \A l \in Lists : \A c \in 1..MaxPage :
               files[l][<<c>>] \in Responses /\ files[l][<<c>>].after # NoCursor =>
                 files[l][<<c>>].after + c <= Longest[l] + MaxOdd

\* A list starts with its first page, and each page brings its end nearer, but for the odd
\* answers of this run or, in a replay, of any.
Odds == IF mode = "record" THEN odds ELSE MaxOdd
Paging == exit = "running" =>
  /\ \A k \in 1..Len(Timelines) : k > list => cursors[Timelines[k]] = 1
  /\ ListPhase /\ after = NoCursor => cursors[Current] = 1 /\ items = <<>>
  /\ ListPhase /\ after # NoCursor =>
       cursors[Current] > 1 /\ after + cursors[Current] <= Longest[Current] + Odds + 1
  /\ ~ListPhase => after = NoCursor
  /\ mode = "record" => after <= Longest[Current] /\ cursors[DetailsDir] <= odds + 1

\* The answer of a recording, and the response of the read before, fit the page asked for.
Fitting(got) ==
  /\ got.after # NoCursor => /\ ListPhase /\ got.after <= Longest[Current]
                            /\ got.after + cursors[Current] <= Longest[Current] + odds
  /\ ~ListPhase /\ got.id = NoId => cursors[DetailsDir] <= odds
  /\ ~strange => got.id = Asked
Answering ==
  exit = "running" =>
    /\ mode = "replay" => answer = None
    /\ mode = "record" /\ before # None /\ before.after # NoCursor => before.after = after
    /\ answer # None => todo # <<>> /\ ~WithoutDetails /\ Fitting(answer)

\* A replay has the details of each item it asked for.
OwnDetails == mode = "replay" =>
  \A k \in 1..Len(result) : result[k].asked # NoId => result[k].got.id = result[k].asked

FilesInv == Typing /\ Named /\ Numbering /\ Paging /\ Answering /\ OwnDetails

(***************************************************************************)
(* The inductive invariant: a recording, and its replay.                   *)
(***************************************************************************)
\* The control of a run: what decides on its next read.
Controls == [list : 1..Len(Timelines), todo : Seq(Item) \cup {<<NoId>>}, after : Nat,
             items : Seq(Item), cursors : [Dirs -> Nat \ {0}], reads : Nat]
Control == [list |-> list, todo |-> todo, after |-> after, items |-> items,
            cursors |-> cursors, reads |-> Len(result)]
Start == [list |-> 1, todo |-> <<NoId>>, after |-> NoCursor, items |-> <<>>,
          cursors |-> [d \in Dirs |-> 1], reads |-> 0]

AsksPage(c) == c.todo # <<>> /\ Head(c.todo) = NoId
PassesOver(c) == c.todo # <<>> /\ Head(c.todo) \in Bare
Asks(c) == c.todo # <<>> /\ ~PassesOver(c)
DirOf(c) == IF AsksPage(c) THEN Timelines[c.list] ELSE DetailsDir
NameOf(c) == IF AsksPage(c) THEN <<c.cursors[DirOf(c)]>> ELSE Head(c.todo)

AfterPage(c, got) ==
  [list |-> c.list, after |-> got.after, items |-> c.items \o got.items, reads |-> c.reads + 1,
   todo |-> IF got.after = NoCursor THEN Reverse(c.items \o got.items) ELSE c.todo,
   cursors |-> [c.cursors EXCEPT ![DirOf(c)] = @ + 1]]
AfterDetails(c) ==
  [list |-> c.list, after |-> c.after, items |-> c.items, reads |-> c.reads + 1,
   todo |-> Tail(c.todo), cursors |-> c.cursors]
AfterRead(c, got) == IF AsksPage(c) THEN AfterPage(c, got) ELSE AfterDetails(c)
AfterItem(c) ==
  [list |-> c.list, after |-> c.after, items |-> c.items, reads |-> c.reads,
   todo |-> Tail(c.todo), cursors |-> c.cursors]
AfterList(c) ==
  [list |-> c.list + 1, after |-> NoCursor, items |-> <<>>, reads |-> c.reads,
   todo |-> <<NoId>>, cursors |-> c.cursors]

\* Control state d comes after c in the run that read these responses.
Goes(c, d, read) ==
  \/ /\ Asks(c) /\ c.reads + 1 <= Len(read)
     /\ read[c.reads + 1].dir = DirOf(c) /\ read[c.reads + 1].asked = Head(c.todo)
     /\ AsksPage(c) => read[c.reads + 1].got # Refused
     /\ d = AfterRead(c, read[c.reads + 1].got)
  \/ PassesOver(c) /\ d = AfterItem(c)
  \/ c.todo = <<>> /\ c.list < Len(Timelines) /\ d = AfterList(c)
Ends(c) == c.todo = <<>> /\ c.list = Len(Timelines)

\* The control states of a run, and that its files are all there, but where it passed over
\* a refused request.
Trail(S, read) == /\ S # <<>> /\ S[1] = Start
                  /\ \A j \in 1..Len(S) : S[j].reads <= Len(read)
                  /\ \A j \in 1..Len(S) - 1 : Goes(S[j], S[j + 1], read)
Held(S, read) == \A j \in 1..Len(S) - 1 :
                   Asks(S[j]) /\ read[S[j].reads + 1].got # Refused =>
                     files[DirOf(S[j])][NameOf(S[j])] = read[S[j].reads + 1].got
Passed(S) == \A j \in 1..Len(S) - 1 :
               AsksPage(S[j]) => S[j].cursors[DirOf(S[j])] < cursors[DirOf(S[j])]

\* What a recording returned so far is in its files, under the names a replay asks for.
RecordedBy(S) == /\ Trail(S, result) /\ S[Len(S)] = Control
                 /\ Held(S, result) /\ Passed(S)
Recorded == mode = "record" /\ exit = "running" /\ ~strange => \E S \in Seq(Controls) : RecordedBy(S)

\* A replay is at one of the control states its recording went through.
OnTape(S) == \E j \in 1..Len(S) : /\ Control = S[j]
                                  /\ \A k \in 1..Len(result) : result[k] = Replayed(tape[k])
TapedBy(S) == /\ Trail(S, tape) /\ S[Len(S)].reads = Len(tape) /\ Ends(S[Len(S)])
              /\ Held(S, tape)
              /\ mode = "replay" => OnTape(S)
Taped == tape # NoTape => /\ tape \in Seq(Reads)
                          /\ \E S \in Seq(Controls) : TapedBy(S)
\* Once a recording is on the tape, only replays run, and they miss no file but that of a
\* request it passed over.
MissesRefused == Len(result) + 1 \in 1..Len(tape) /\ tape[Len(result) + 1].got = Refused
Playing == tape # NoTape =>
             /\ mode = "replay" \/ exit = "done"
             /\ mode = "replay" => /\ exit = "read failed" => MissesRefused
                                   /\ exit = "done" => Len(result) = Len(tape)

RecordingInv == Recorded /\ Taped /\ Playing

(***************************************************************************)
(* The inductive invariant: pages of different recordings.                 *)
(***************************************************************************)
\* The length its list had when a page with this number was the first of its recording,
\* and the form of a page: items in a row, down to its cursor.
LengthAt(p, c) == p.after + Len(p.items) + (c - 1) * PageSize
InARow(l, p) == /\ p.after # NoCursor => Len(p.items) = PageSize
                /\ \A k \in 1..Len(p.items) :
                     p.items[k] = <<l, p.after + Len(p.items) - k + 1>>
IsPage(l, c) == files[l][<<c>>] \in Responses /\ files[l][<<c>>].items # <<>>
FileLength(l, c) == LengthAt(files[l][<<c>>], c)

Rows == \A l \in Lists : \A c \in 1..MaxPage :
          /\ files[l][<<c>>] \in Responses => InARow(l, files[l][<<c>>])
          /\ IsPage(l, c) => FileLength(l, c) <= listed[l]
\* A page with a smaller number is of the same recording or of a later one.
Newer == \A l \in Lists : \A b, c \in 1..MaxPage :
           b < c /\ IsPage(l, b) /\ IsPage(l, c) => FileLength(l, c) <= FileLength(l, b)

\* The files before this page are this recording's or newer, those after it are older.
Fits(l, c, length) ==
  /\ length <= listed[l]
  /\ \A b \in 1..MaxPage : IsPage(l, b) =>
       IF b < c THEN length <= FileLength(l, b) ELSE FileLength(l, b) <= length
CursorFits == after # NoCursor =>
                Fits(Current, cursors[Current], after + (cursors[Current] - 1) * PageSize)
PageFits == answer # None =>
              /\ answer.id = NoId /\ InARow(Current, answer)
              /\ answer.items # <<>> =>
                   Fits(Current, cursors[Current], LengthAt(answer, cursors[Current]))
Recording == mode = "record" /\ exit = "running" /\ ListPhase => CursorFits /\ PageFits

\* What a replay listed goes down, to its cursor, which is that of the page before.
Descends == \A j, k \in 1..Len(items) : j < k => items[j][2] > items[k][2]
Replay == mode = "replay" =>
  /\ Descends
  /\ exit = "running" /\ ListPhase /\ after # NoCursor =>
       /\ \A j \in 1..Len(items) : items[j][2] > after
       /\ LET p == files[Current][<<cursors[Current] - 1>>] IN p \in Responses /\ p.after = after

OrderInv == ~resent => Rows /\ Newer /\ Recording /\ Replay

(***************************************************************************)
(* The constants, and the data.                                            *)
(***************************************************************************)
LEMMA Constants ==
  /\ Timelines \in Seq(Lists) /\ Len(Timelines) \in Nat \ {0}
  /\ \A k \in 1..Len(Timelines) : Timelines[k] \in Lists
  /\ \A j, k \in 1..Len(Timelines) : Timelines[j] = Timelines[k] => j = k
  /\ DetailsDir \notin Lists /\ DetailsDir \in Dirs /\ Lists \subseteq Dirs
  /\ PageSize \in Nat /\ PageSize > 0 /\ MaxFaults \in Nat /\ MaxOdd \in Nat /\ MaxPage \in Nat
  /\ \A l \in Lists : Longest[l] \in Nat /\ Longest[l] > 0 /\ Longest[l] + MaxOdd + 1 <= MaxPage
  /\ Bare \subseteq Item
  /\ MaxPage > MaxOdd /\ MaxPage > 0
<1>1. /\ Timelines \in Seq(Lists) /\ Timelines # <<>> /\ IsInjective(Timelines)
      /\ DetailsDir \notin Lists
      /\ PageSize \in Nat \ {0} /\ {MaxFaults, MaxOdd, MaxPage} \subseteq Nat
      /\ \A l \in Lists : Longest[l] \in Nat \ {0} /\ Longest[l] + MaxOdd + 1 <= MaxPage
      /\ Bare \subseteq Item
  BY ResponseAssumption DEF ResponseAssumption
<1>2. Len(Timelines) \in Nat \ {0} /\ \A k \in 1..Len(Timelines) : Timelines[k] \in Lists
  BY <1>1
<1>3. \A j, k \in 1..Len(Timelines) : Timelines[j] = Timelines[k] => j = k
  BY <1>1 DEF IsInjective
<1>4. MaxPage > MaxOdd /\ MaxPage > 0
  BY <1>1, <1>2
<1> QED
  BY <1>1, <1>2, <1>3, <1>4 DEF Dirs

LEMMA Identities ==
  /\ NoId \notin Item /\ Item \subseteq Names
  /\ \A k : <<k>> \notin Item
  /\ \A k \in 1..MaxPage : <<k>> \in Names
  /\ \A n \in Names : n \notin Item => \E k \in 1..MaxPage : n = <<k>>
<1>1. \A i \in Item : \E l \in Lists : \E k \in 1..Longest[l] : i = <<l, k>>
  BY DEF Item
<1>2. \A i \in Item : Len(i) = 2
  BY <1>1
<1>3. NoId \notin Item
  BY <1>2 DEF NoId
<1>4. \A k : <<k>> \notin Item
  BY <1>2
<1> QED
  BY <1>3, <1>4 DEF Names

LEMMA ResponseParts ==
  /\ \A i \in Item : DetailsOf(i) \in Responses
  /\ \A q \in Seq(Item), a \in Nat : Page(q, a) \in Responses
  /\ Absent \notin Responses /\ Torn \notin Responses /\ None \notin Responses
  /\ Refused \notin Responses
  /\ \A r \in Responses :
       /\ r.id \in Item \cup {NoId} /\ r.items \in Seq(Item) /\ r.after \in Nat
       /\ r.id # NoId => r.id \in Item /\ r = DetailsOf(r.id)
                         /\ r.items = <<>> /\ r.after = NoCursor
<1>1. \A i \in Item : DetailsOf(i) \in Responses
  BY DEF Responses
<1>2. \A q \in Seq(Item), a \in Nat : Page(q, a) \in Responses
  BY DEF Responses, Page
<1>3. ASSUME NEW r \in Responses
      PROVE  /\ r.id \in Item \cup {NoId} /\ r.items \in Seq(Item) /\ r.after \in Nat
             /\ r.id # NoId => r.id \in Item /\ r = DetailsOf(r.id)
                              /\ r.items = <<>> /\ r.after = NoCursor
  <2>1. CASE \E i \in Item : r = DetailsOf(i)
    BY <2>1 DEF DetailsOf, NoCursor
  <2>2. CASE r \in [id : {NoId}, items : Seq(Item), after : Nat]
    BY <2>2
  <2> QED
    BY <1>3, <2>1, <2>2 DEF Responses
<1>4. /\ Absent \notin Responses /\ Torn \notin Responses /\ None \notin Responses
      /\ Refused \notin Responses
  <2>1. \A r \in Responses : "items" \in DOMAIN r
    BY DEF Responses, DetailsOf
  <2>2. /\ "items" \notin DOMAIN Absent /\ "items" \notin DOMAIN Torn
        /\ "items" \notin DOMAIN None /\ "items" \notin DOMAIN Refused
    BY DEF Absent, Torn, None, Refused
  <2> QED
    BY <2>1, <2>2
<1> QED
  BY <1>1, <1>2, <1>3, <1>4

(***************************************************************************)
(* A step, as its parts.                                                   *)
(***************************************************************************)
LEMMA Phases ==
  ASSUME Typing
  PROVE  /\ ListPhase <=> todo = <<NoId>>
         /\ Current \in Lists /\ Dir \in Dirs
         /\ ListPhase => todo # <<>> /\ Asked = NoId /\ Dir = Current /\ ~WithoutDetails
         /\ ~ListPhase => todo \in Seq(Item) /\ Dir = DetailsDir
         /\ ~ListPhase /\ todo # <<>> => /\ Asked \in Item /\ Asked # NoId
                                        /\ Tail(todo) \in Seq(Item)
<1>1. Len(<<NoId>>) = 1 /\ Head(<<NoId>>) = NoId /\ <<NoId>> # <<>>
  OBVIOUS
<1>2. ListPhase <=> todo = <<NoId>>
  <2>1. ASSUME todo \in Seq(Item), todo # <<>>
        PROVE  Head(todo) \in Item
    BY <2>1
  <2> QED
    BY <1>1, <2>1, Identities DEF Typing, ListPhase
<1>3. Current \in Lists /\ Dir \in Dirs
  BY Constants DEF Typing, Current, Dir
<1>4. ASSUME ListPhase
      PROVE  todo # <<>> /\ Asked = NoId /\ Dir = Current /\ ~WithoutDetails
  BY <1>1, <1>2, <1>4, Identities, Constants DEF Asked, Dir, WithoutDetails
<1>5. ASSUME ~ListPhase
      PROVE  todo \in Seq(Item) /\ Dir = DetailsDir
  BY <1>2, <1>5 DEF Dir, Typing
<1>6. ASSUME ~ListPhase, todo # <<>>
      PROVE  Asked \in Item /\ Asked # NoId /\ Tail(todo) \in Seq(Item)
  BY <1>5, <1>6, Identities DEF Asked
<1> QED
  BY <1>2, <1>3, <1>4, <1>5, <1>6

LEMMA Ranges ==
  ASSUME Typing
  PROVE  /\ after \in Nat /\ (after # NoCursor => after > 0)
         /\ odds \in Nat /\ odds <= MaxOdd
         /\ \A d \in Dirs : cursors[d] \in Nat /\ cursors[d] > 0 /\ cursors[d] <= MaxPage + 1
         /\ \A l \in Lists : /\ listed[l] \in Nat /\ listed[l] > 0 /\ listed[l] <= Longest[l]
                             /\ Longest[l] \in Nat
         /\ cursors[Current] \in Nat /\ cursors[Current] > 0 /\ Longest[Current] \in Nat
         /\ cursors[DetailsDir] \in Nat
         /\ items \in Seq(Item) /\ result \in Seq(Reads)
         /\ Len(items) \in Nat /\ Len(result) \in Nat
<1>1. after \in Nat
  BY DEF Typing
<1>2. odds \in 0..MaxOdd
  BY DEF Typing
<1>3. \A d \in Dirs : cursors[d] \in 1..MaxPage + 1
  BY DEF Typing
<1>4. \A l \in Lists : listed[l] \in 1..Longest[l] /\ Longest[l] \in Nat
  BY Constants DEF Typing
<1>5. Current \in Lists /\ Current \in Dirs /\ DetailsDir \in Dirs
  BY Phases, Constants
<1>6. items \in Seq(Item) /\ result \in Seq(Reads)
  BY DEF Typing
<1> QED
  BY <1>1, <1>2, <1>3, <1>4, <1>5, <1>6, Constants DEF NoCursor

LEMMA PutFacts ==
  ASSUME Typing, NEW content \in Responses \cup {Absent, Torn}, Put(content),
         FileName(answer) \in Names
  PROVE  /\ files' \in [Dirs -> [Names -> Responses \cup {Absent, Torn}]]
         /\ files'[Dir][FileName(answer)] = content
         /\ \A d \in Dirs : \A n \in Names :
              d # Dir \/ n # FileName(answer) => files'[d][n] = files[d][n]
<1> DEFINE f == FileName(answer)
           C == Responses \cup {Absent, Torn}
           D == Dir
<1>1. D \in Dirs /\ f \in Names /\ files \in [Dirs -> [Names -> C]]
  BY Phases DEF Typing
<1>2. files' = [files EXCEPT ![D] = [files[D] EXCEPT ![f] = content]]
  BY DEF Put
<1> HIDE DEF f, C, D
<1>3. content \in C
  BY DEF C
<1>4. [files[D] EXCEPT ![f] = content] \in [Names -> C]
  BY <1>1, <1>3
<1>5. files' \in [Dirs -> [Names -> C]]
  BY <1>1, <1>2, <1>4
<1>6. files'[D][f] = content
  BY <1>1, <1>2
<1>7. ASSUME NEW d \in Dirs, NEW n \in Names, d # D \/ n # f
      PROVE  files'[d][n] = files[d][n]
  BY <1>1, <1>2, <1>7
<1> QED
  BY <1>5, <1>6, <1>7 DEF f, C, D

LEMMA ReverseType ==
  ASSUME NEW q \in Seq(Item)
  PROVE  /\ Reverse(q) \in Seq(Item)
         /\ Len(Reverse(q)) = Len(q)
<1>1. \A i \in 1..Len(q) : Len(q) - i + 1 \in 1..Len(q) /\ q[Len(q) - i + 1] \in Item
  OBVIOUS
<1> QED
  BY <1>1 DEF Reverse

\* What a read leaves behind.
LEMMA Returned ==
  ASSUME Typing, todo # <<>>, NEW got \in Responses, Return(got)
  PROVE  /\ items' \in Seq(Item) /\ after' \in Nat
         /\ todo' \in Seq(Item) \cup {<<NoId>>}
         /\ result' \in Seq(Reads) /\ Len(result') = Len(result) + 1
         /\ result'[Len(result) + 1] = [dir |-> Dir, asked |-> Asked, got |-> got]
         /\ \A k \in 1..Len(result) : result'[k] = result[k]
         /\ before' = got /\ answer' = None /\ mode' = mode /\ list' = list
         /\ exit' \in {exit, "failed"}
         /\ ListPhase => items' = items \o got.items /\ after' = got.after
         /\ ListPhase /\ got.after = NoCursor => todo' = Reverse(items')
         /\ ListPhase /\ got.after # NoCursor => todo' = todo
         /\ ~ListPhase => items' = items /\ after' = after /\ todo' = Tail(todo)
<1>1. /\ before' = got /\ answer' = None /\ mode' = mode /\ list' = list
      /\ exit' \in {exit, "failed"}
  BY DEF Return
<1>2. result' = Append(result, [dir |-> Dir, asked |-> Asked, got |-> got])
  BY DEF Return
<1>3. [dir |-> Dir, asked |-> Asked, got |-> got] \in Reads
  BY Phases DEF Reads
<1>4. /\ result' \in Seq(Reads) /\ Len(result') = Len(result) + 1
      /\ result'[Len(result) + 1] = [dir |-> Dir, asked |-> Asked, got |-> got]
      /\ \A k \in 1..Len(result) : result'[k] = result[k]
  <2> DEFINE r == [dir |-> Dir, asked |-> Asked, got |-> got]
  <2>1. result' = Append(result, r) /\ r \in Reads /\ result \in Seq(Reads)
    BY <1>2, <1>3 DEF Typing
  <2> HIDE DEF r
  <2>2. /\ result' \in Seq(Reads) /\ Len(result') = Len(result) + 1
        /\ result'[Len(result) + 1] = r
        /\ \A k \in 1..Len(result) : result'[k] = result[k]
    BY <2>1
  <2> QED
    BY <2>2 DEF r
<1>5. got.items \in Seq(Item) /\ got.after \in Nat
  BY ResponseParts
<1>6. CASE ListPhase
  <2>1. items' = items \o got.items /\ Follow(got)
    BY <1>6 DEF Return
  <2>2. items' \in Seq(Item)
    <3>1. items \in Seq(Item)
      BY DEF Typing
    <3>2. \A p, q \in Seq(Item) : p \o q \in Seq(Item)
      OBVIOUS
    <3> QED
      BY <2>1, <1>5, <3>1, <3>2
  <2>3. Reverse(items') \in Seq(Item)
    BY <2>2, ReverseType
  <2>4. CASE got.after = NoCursor
    BY <2>1, <2>2, <2>3, <2>4, <1>1, <1>4, <1>5, <1>6 DEF Follow
  <2>5. CASE got.after # NoCursor
    BY <2>1, <2>2, <2>5, <1>1, <1>4, <1>5, <1>6 DEF Follow, Typing
  <2> QED
    BY <2>4, <2>5
<1>7. CASE ~ListPhase
  <2>1. todo' = Tail(todo) /\ after' = after /\ items' = items
    BY <1>7 DEF Return
  <2>2. todo' \in Seq(Item)
    BY <2>1, <1>7, Phases
  <2> QED
    BY <2>1, <2>2, <1>1, <1>4, <1>7 DEF Typing
<1> QED
  BY <1>6, <1>7

\* What the server answers.
From == IF after = NoCursor THEN listed[Current] ELSE after

LEMMA ServedFacts ==
  ASSUME Typing, Paging, mode = "record", exit = "running", todo # <<>>
  PROVE  /\ Served \in Responses /\ Served.id = Asked
         /\ ~ListPhase => Served.after = NoCursor
         /\ ListPhase => /\ From \in Nat /\ From > 0 /\ From <= Longest[Current]
                         /\ Len(Served.items) \in Nat /\ Len(Served.items) > 0
                         /\ Served.after \in Nat
                         /\ Served.after + Len(Served.items) = From
                         /\ InARow(Current, Served)
<1>1. CASE ~ListPhase
  <2>1. Served = DetailsOf(Asked) /\ Asked \in Item
    BY <1>1, Phases DEF Served
  <2>2. Served.id = Asked /\ Served.after = NoCursor
    BY <2>1 DEF DetailsOf
  <2> QED
    BY <1>1, <2>1, <2>2, ResponseParts
<1>2. CASE ListPhase
  <2> DEFINE n == IF From < PageSize THEN From ELSE PageSize
  <2>1. Current \in Lists /\ Asked = NoId
    BY <1>2, Phases
  <2>2. From \in Nat /\ From > 0 /\ From <= Longest[Current]
    <3>1. listed[Current] \in 1..Longest[Current] /\ Longest[Current] \in Nat /\ after \in Nat
      BY <2>1, Constants DEF Typing
    <3>2. after <= Longest[Current]
      BY DEF Paging
    <3> QED
      BY <3>1, <3>2 DEF From, NoCursor
  <2>3. n \in Nat /\ n > 0 /\ n <= From /\ From - n \in Nat /\ (From - n # 0 => n = PageSize)
    BY <2>2, Constants
  <2>4. Served = Page(Newest(From, n), From - n)
    BY <1>2 DEF Served, ServedPage, From
  <2> HIDE DEF n
  <2>5. ASSUME NEW k \in 1..n
        PROVE  <<Current, From - k + 1>> \in Item
    <3>1. From - k + 1 \in 1..Longest[Current]
      BY <2>1, <2>2, <2>3, Constants
    <3> QED
      BY <3>1, <2>1 DEF Item
  <2>6. Newest(From, n) \in Seq(Item) /\ Len(Newest(From, n)) = n
    BY <2>3, <2>5 DEF Newest
  <2>7. \A k \in 1..n : Newest(From, n)[k] = <<Current, From - k + 1>>
    BY DEF Newest
  <2>8. Served.items = Newest(From, n) /\ Served.after = From - n /\ Served.id = NoId
    BY <2>4 DEF Page
  <2>9. Served \in Responses
    BY <2>3, <2>4, <2>6, ResponseParts
  <2>10. Len(Served.items) = n /\ Served.after + n = From /\ Served.after \in Nat
    BY <2>2, <2>3, <2>6, <2>8
  <2>11. InARow(Current, Served)
    <3>1. Served.after # NoCursor => Len(Served.items) = PageSize
      BY <2>3, <2>8, <2>10 DEF NoCursor
    <3>2. \A k \in 1..Len(Served.items) :
            Served.items[k] = <<Current, Served.after + Len(Served.items) - k + 1>>
      BY <2>7, <2>8, <2>10
    <3> QED
      BY <3>1, <3>2 DEF InARow
  <2> QED
    BY <1>2, <2>1, <2>2, <2>3, <2>8, <2>9, <2>10, <2>11
<1> QED
  BY <1>1, <1>2

\* The steps that change only what is counted, or how a run stands.
LEMMA Steps ==
  ASSUME [Next]_vars
  PROVE  \/ Publish
         \/ StartRecord
         \/ StartReplay
         \/ Answer
         \/ OddAnswer
         \/ WriteFile
         \/ ReadFile
         \/ ReadFails
         \/ Skip
         \/ NextList
         \/ Finish
         \/ \E how \in {"failed", "crashed"} : WriteStops(how)
         \/ RunEnds
         \/ SkipRefused
         \/ RefusalEnds
         \/ UNCHANGED vars
BY Zenon DEF Next, Program, WriteFails, CrashInWrite

\* The handler goes on with the next item, with nothing read for this one or its request
\* refused.
LEMMA Passing ==
  ASSUME Typing, Skip \/ SkipRefused
  PROVE  /\ exit = "running" /\ ~ListPhase /\ todo # <<>> /\ todo' = Tail(todo)
         /\ todo' \in Seq(Item) /\ ~ListPhase' /\ Current' = Current
         /\ UNCHANGED <<listed, files, mode, exit, list, after, items, cursors, answer, before,
                        history, odds>>
         /\ Skip => WithoutDetails /\ result' = result
         /\ SkipRefused =>
              /\ mode = "record" /\ answer = None /\ ~WithoutDetails
              /\ result' \in Seq(Reads) /\ Len(result') = Len(result) + 1 /\ Len(result) \in Nat
              /\ result'[Len(result) + 1] = [dir |-> Dir, asked |-> Asked, got |-> Refused]
              /\ \A k \in 1..Len(result) : result'[k] = result[k]
<1>1. /\ exit = "running" /\ ~ListPhase /\ todo # <<>> /\ todo' = Tail(todo)
      /\ UNCHANGED <<listed, files, mode, exit, list, after, items, cursors, answer, before,
                     history, odds>>
      /\ Skip => WithoutDetails /\ result' = result
  BY Phases DEF Skip, SkipRefused, Refuses, RefusedDetails, Asking, WithoutDetails, history
<1>2. todo' \in Seq(Item)
  BY <1>1, Phases
<1>3. ~ListPhase' /\ Current' = Current
  BY <1>1, <1>2, Identities DEF ListPhase, Current
<1>4. ASSUME SkipRefused
      PROVE  /\ mode = "record" /\ answer = None /\ ~WithoutDetails
             /\ result' \in Seq(Reads) /\ Len(result') = Len(result) + 1 /\ Len(result) \in Nat
             /\ result'[Len(result) + 1] = [dir |-> Dir, asked |-> Asked, got |-> Refused]
             /\ \A k \in 1..Len(result) : result'[k] = result[k]
  <2>1. PICK r : r = [dir |-> Dir, asked |-> Asked, got |-> Refused]
    OBVIOUS
  <2>2. /\ mode = "record" /\ answer = None /\ ~WithoutDetails
        /\ result' = Append(result, r)
    BY <1>4, <2>1 DEF SkipRefused, Refuses, Asking
  <2>3. r \in Reads /\ result \in Seq(Reads)
    BY <1>1, <2>1, Phases DEF Reads, Typing
  <2>4. /\ result' \in Seq(Reads) /\ Len(result') = Len(result) + 1 /\ Len(result) \in Nat
        /\ result'[Len(result) + 1] = r
        /\ \A k \in 1..Len(result) : result'[k] = result[k]
    BY <2>2, <2>3
  <2> QED
    BY <2>1, <2>2, <2>4
<1> QED
  BY <1>1, <1>2, <1>3, <1>4

(***************************************************************************)
(* FilesInv holds.                                                         *)
(***************************************************************************)
\* An answer has a name, and one that the directory may hold it under.
LEMMA Writing ==
  ASSUME FilesInv, exit = "running", answer # None
  PROVE  /\ mode = "record" /\ answer \in Responses /\ todo # <<>> /\ ~WithoutDetails
         /\ FileName(answer) \in Names /\ IdOf(FileName(answer)) = answer.id
         /\ answer.id = NoId => /\ cursors[Dir] \in 1..MaxPage
                                /\ FileName(answer) = <<cursors[Dir]>>
         /\ answer.id # NoId => FileName(answer) = answer.id
         /\ Fitting(answer)
<1>1. mode = "record" /\ answer \in Responses /\ todo # <<>> /\ ~WithoutDetails /\ Fitting(answer)
  BY DEF FilesInv, Typing, Answering
<1>2. CASE answer.id # NoId
  <2>1. answer.id \in Item /\ FileName(answer) = answer.id
    BY <1>1, <1>2, ResponseParts DEF FileName
  <2> QED
    BY <1>1, <1>2, <2>1, Identities DEF IdOf
<1>3. CASE answer.id = NoId
  <2>1. FileName(answer) = <<cursors[Dir]>>
    BY <1>3 DEF FileName
  <2>2. Current \in Lists /\ Dir \in Dirs /\ cursors[Dir] \in 1..MaxPage + 1 /\ odds \in 0..MaxOdd
    BY Phases DEF FilesInv, Typing
  <2>3. cursors[Dir] <= MaxPage
    <3>1. CASE ~ListPhase
      <4>1. Dir = DetailsDir /\ cursors[DetailsDir] <= odds
        BY <1>1, <1>3, <3>1, Phases DEF FilesInv, Fitting
      <4> QED
        BY <4>1, <2>2, Constants
    <3>2. CASE ListPhase
      <4>1. Dir = Current
        BY <3>2, Phases DEF FilesInv
      <4>2. CASE after = NoCursor
        <5>1. cursors[Current] = 1
          BY <3>2, <4>2 DEF FilesInv, Paging
        <5> QED
          BY <4>1, <5>1, Constants
      <4>3. CASE after # NoCursor
        <5>1. after + cursors[Current] <= Longest[Current] + odds + 1
          BY <1>1, <3>2, <4>3 DEF FilesInv, Paging, Odds
        <5>2. after \in Nat /\ after > 0
          BY <4>3, Ranges DEF FilesInv
        <5> QED
          BY <4>1, <5>1, <5>2, <2>2, Constants
      <4> QED
        BY <4>2, <4>3
    <3> QED
      BY <3>1, <3>2
  <2>4. cursors[Dir] \in 1..MaxPage
    BY <2>2, <2>3, Constants
  <2>5. FileName(answer) \in Names /\ FileName(answer) \notin Item
    BY <2>1, <2>4, Identities
  <2> QED
    BY <1>1, <1>3, <2>1, <2>4, <2>5 DEF IdOf
<1> QED
  BY <1>2, <1>3

\* The page a replay asks for is one a directory can have.
LEMMA Reading ==
  ASSUME FilesInv, Replaying
  PROVE  /\ Wanted \in Names /\ mode = "replay" /\ exit = "running" /\ todo # <<>>
         /\ Dir \in Dirs /\ ~WithoutDetails
         /\ Found \in Responses \cup {Absent, Torn}
         /\ ListPhase => Wanted = <<cursors[Current]>> /\ cursors[Current] \in 1..MaxPage
         /\ ~ListPhase => Wanted = Asked /\ Asked \in Item
<1>1. mode = "replay" /\ exit = "running" /\ todo # <<>> /\ Current \in Lists /\ Dir \in Dirs
      /\ ~WithoutDetails
  BY Phases DEF Replaying, Asking, FilesInv
<1>2. CASE ~ListPhase
  <2>1. Wanted = Asked /\ Asked \in Item
    BY <1>1, <1>2, Phases DEF Wanted, FilesInv
  <2>2. Wanted \in Names
    BY <2>1, Identities
  <2> QED
    BY <1>1, <1>2, <2>1, <2>2 DEF Found, FilesInv, Typing
<1>3. CASE ListPhase
  <2>1. Dir = Current /\ Wanted = <<cursors[Current]>>
    BY <1>3, Phases DEF Wanted, FilesInv
  <2>2. cursors[Current] \in 1..MaxPage + 1
    BY <1>1, Constants DEF FilesInv, Typing
  <2>3. cursors[Current] <= MaxPage
    <3>1. CASE after = NoCursor
      <4>1. cursors[Current] = 1
        BY <1>1, <1>3, <3>1 DEF FilesInv, Paging
      <4> QED
        BY <4>1, Constants
    <3>2. CASE after # NoCursor
      <4>1. after + cursors[Current] <= Longest[Current] + MaxOdd + 1
        BY <1>1, <1>3, <3>2 DEF FilesInv, Paging, Odds
      <4>2. after \in Nat /\ after > 0
        BY <3>2, Ranges DEF FilesInv
      <4> QED
        BY <1>1, <2>2, <4>1, <4>2, Constants
    <3> QED
      BY <3>1, <3>2
  <2>4. cursors[Current] \in 1..MaxPage
    BY <2>2, <2>3, Constants
  <2>5. Wanted \in Names
    BY <2>1, <2>4, Identities
  <2> QED
    BY <1>1, <1>3, <2>1, <2>4, <2>5 DEF Found, FilesInv, Typing
<1> QED
  BY <1>2, <1>3

\* What the server or an odd answer is, in terms of the page asked for.
LEMMA AnswerFits ==
  ASSUME FilesInv, Answer
  PROVE  answer' \in Responses /\ Fitting(answer)'
<1>1. /\ mode = "record" /\ exit = "running" /\ todo # <<>> /\ ~WithoutDetails
      /\ answer' = Served
      /\ UNCHANGED <<list, after, todo, cursors, strange, odds>>
  BY DEF Answer, Receives, Asking
<1>2. Served \in Responses /\ Served.id = Asked
  BY <1>1, ServedFacts DEF FilesInv
<1>3. (ListPhase <=> ListPhase') /\ Current' = Current /\ Asked' = Asked
  BY <1>1 DEF ListPhase, Current, Asked
<1>4. ASSUME Served.after # NoCursor
      PROVE  /\ ListPhase /\ Served.after <= Longest[Current]
             /\ Served.after + cursors[Current] <= Longest[Current] + odds
  <2>1. ListPhase /\ Current \in Lists
    BY <1>1, <1>4, ServedFacts, Phases DEF FilesInv
  <2>2. /\ From \in Nat /\ From <= Longest[Current] /\ Served.after \in Nat
        /\ Len(Served.items) \in Nat /\ Len(Served.items) > 0
        /\ Served.after + Len(Served.items) = From
    BY <1>1, <2>1, ServedFacts DEF FilesInv
  <2>3. cursors[Current] \in Nat /\ odds \in Nat /\ Longest[Current] \in Nat
    BY <2>1, Ranges DEF FilesInv
  <2>4. From + cursors[Current] <= Longest[Current] + odds + 1
    <3>1. CASE after = NoCursor
      <4>1. cursors[Current] = 1
        BY <1>1, <2>1, <3>1 DEF FilesInv, Paging
      <4> QED
        BY <2>2, <2>3, <4>1
    <3>2. CASE after # NoCursor
      BY <1>1, <2>1, <3>2 DEF FilesInv, Paging, Odds, From
    <3> QED
      BY <3>1, <3>2
  <2>5. PICK a, n, f, c, m : /\ a = Served.after /\ n = Len(Served.items) /\ f = From
                             /\ c = cursors[Current] /\ m = Longest[Current]
    OBVIOUS
  <2>6. /\ {a, n, f, c, m, odds} \subseteq Nat
        /\ f <= m /\ n > 0 /\ a + n = f /\ f + c <= m + odds + 1
    BY <2>2, <2>3, <2>4, <2>5
  <2>7. a <= m /\ a + c <= m + odds
    BY <2>6
  <2> QED
    BY <2>1, <2>5, <2>7
<1>5. ~ListPhase => Served.id # NoId
  BY <1>1, <1>2, Phases DEF FilesInv
<1> QED
  BY <1>1, <1>2, <1>3, <1>4, <1>5 DEF Fitting

LEMMA OddAnswerFits ==
  ASSUME FilesInv, OddAnswer
  PROVE  /\ answer' \in Responses /\ Fitting(answer)'
         /\ resent' \/ answer' = AuthError
         /\ resent => resent'
<1>1. /\ mode = "record" /\ exit = "running" /\ todo # <<>> /\ ~WithoutDetails
      /\ answer' \in {AuthError} \cup ({before} \ {None})
      /\ strange' = (strange \/ answer'.id # Asked)
      /\ resent' = (resent \/ answer' = before)
      /\ odds' = odds + 1
      /\ UNCHANGED <<list, after, todo, cursors>>
  BY DEF OddAnswer, Receives, Asking
<1>2. (ListPhase <=> ListPhase') /\ Current' = Current /\ Asked' = Asked
  BY <1>1 DEF ListPhase, Current, Asked
<1>3. AuthError \in Responses /\ AuthError.after = NoCursor
  <2>1. <<>> \in Seq(Item) /\ NoCursor \in Nat
    BY DEF NoCursor
  <2>2. AuthError \in Responses
    BY <2>1, ResponseParts DEF AuthError
  <2> QED
    BY <2>2 DEF AuthError, Page
<1>4. answer' \in Responses
  BY <1>1, <1>3 DEF FilesInv, Typing
<1>5. odds \in Nat /\ odds + 1 \in Nat /\ cursors[DetailsDir] <= odds + 1
  BY <1>1 DEF FilesInv, Typing, Paging
<1>6. ASSUME answer'.after # NoCursor
      PROVE  /\ ListPhase /\ answer'.after <= Longest[Current]
             /\ answer'.after + cursors[Current] <= Longest[Current] + (odds + 1)
  <2>1. before # None /\ answer' = before /\ before.after = after /\ after # NoCursor
    BY <1>1, <1>3, <1>6 DEF FilesInv, Answering
  <2>2. ListPhase /\ after <= Longest[Current]
        /\ after + cursors[Current] <= Longest[Current] + odds + 1
    BY <1>1, <2>1 DEF FilesInv, Paging, Odds
  <2>3. Current \in Lists /\ cursors[Current] \in Nat /\ odds \in Nat /\ Longest[Current] \in Nat
    BY Phases, Ranges DEF FilesInv
  <2> QED
    BY <2>1, <2>2, <2>3
<1>7. ~strange' => answer'.id = Asked
  BY <1>1
<1>8. (resent' \/ answer' = AuthError) /\ (resent => resent')
  BY <1>1
<1> QED
  BY <1>1, <1>2, <1>4, <1>5, <1>6, <1>7, <1>8 DEF Fitting

LEMMA CursorStep ==
  ASSUME Typing, NEW d \in Dirs, cursors[d] \in 1..MaxPage,
         cursors' = [cursors EXCEPT ![d] = @ + 1]
  PROVE  /\ cursors' \in [Dirs -> 1..MaxPage + 1]
         /\ cursors'[d] = cursors[d] + 1
         /\ \A e \in Dirs : e # d => cursors'[e] = cursors[e]
<1>1. cursors \in [Dirs -> 1..MaxPage + 1] /\ MaxPage \in Nat
  BY Constants DEF Typing
<1>2. cursors[d] + 1 \in 1..MaxPage + 1
  BY <1>1
<1> QED
  BY <1>1, <1>2

\* What writing an answer, or reading a file, changes.
LEMMA WriteFileFacts ==
  ASSUME FilesInv, WriteFile
  PROVE  /\ answer \in Responses /\ Return(answer) /\ Put(answer)
         /\ mode = "record" /\ mode' = "record" /\ exit = "running"
         /\ exit' \in {"running", "failed"}
         /\ todo # <<>> /\ ~WithoutDetails
         /\ cursors' \in [Dirs -> 1..MaxPage + 1]
         /\ answer.id # NoId => cursors' = cursors
         /\ answer.id = NoId => /\ cursors' = [cursors EXCEPT ![Dir] = @ + 1]
                                /\ cursors'[Dir] = cursors[Dir] + 1
                                /\ \A e \in Dirs : e # Dir => cursors'[e] = cursors[e]
         /\ UNCHANGED <<listed, history, faults, odds>>
<1>1. /\ exit = "running" /\ answer # None /\ Put(answer) /\ Return(answer)
      /\ cursors' = Numbered(answer) /\ UNCHANGED <<listed, history, faults, odds>>
  BY DEF WriteFile
<1>2. answer \in Responses /\ mode = "record" /\ todo # <<>> /\ ~WithoutDetails
      /\ (answer.id = NoId => cursors[Dir] \in 1..MaxPage)
  BY <1>1, Writing
<1>3. mode' = mode /\ exit' \in {exit, "failed"}
  BY <1>1 DEF Return
<1>4. CASE answer.id # NoId
  BY <1>1, <1>2, <1>3, <1>4 DEF Numbered, FilesInv, Typing
<1>5. CASE answer.id = NoId
  <2>1. cursors' = [cursors EXCEPT ![Dir] = @ + 1] /\ Dir \in Dirs
    BY <1>1, <1>5, Phases DEF Numbered, FilesInv
  <2>2. /\ cursors' \in [Dirs -> 1..MaxPage + 1]
        /\ cursors'[Dir] = cursors[Dir] + 1
        /\ \A e \in Dirs : e # Dir => cursors'[e] = cursors[e]
    BY <1>2, <1>5, <2>1, CursorStep DEF FilesInv
  <2> QED
    BY <1>1, <1>2, <1>3, <1>5, <2>1, <2>2
<1> QED
  BY <1>4, <1>5

LEMMA ReadFileFacts ==
  ASSUME FilesInv, ReadFile
  PROVE  /\ Found \in Responses /\ Return(Found)
         /\ mode = "replay" /\ mode' = "replay" /\ exit = "running"
         /\ exit' \in {"running", "failed"}
         /\ todo # <<>> /\ ~WithoutDetails
         /\ cursors' \in [Dirs -> 1..MaxPage + 1]
         /\ ~ListPhase => cursors' = cursors
         /\ ListPhase => /\ cursors' = [cursors EXCEPT ![Dir] = @ + 1]
                         /\ cursors'[Dir] = cursors[Dir] + 1
                         /\ \A e \in Dirs : e # Dir => cursors'[e] = cursors[e]
         /\ UNCHANGED <<listed, files, history, faults, odds>>
<1>1. /\ Replaying /\ Found \notin {Absent, Torn} /\ Return(Found)
      /\ cursors' = Advanced /\ UNCHANGED <<listed, files, history, faults, odds>>
  BY DEF ReadFile
<1>2. /\ Found \in Responses /\ mode = "replay" /\ exit = "running" /\ todo # <<>>
      /\ ~WithoutDetails
      /\ (ListPhase => cursors[Current] \in 1..MaxPage)
  BY <1>1, Reading
<1>3. mode' = mode /\ exit' \in {exit, "failed"}
  BY <1>1 DEF Return
<1>4. CASE ~ListPhase
  BY <1>1, <1>2, <1>3, <1>4 DEF Advanced, FilesInv, Typing
<1>5. CASE ListPhase
  <2>1. cursors' = [cursors EXCEPT ![Dir] = @ + 1] /\ Dir \in Dirs /\ Dir = Current
    BY <1>1, <1>5, Phases DEF Advanced, FilesInv
  <2>2. /\ cursors' \in [Dirs -> 1..MaxPage + 1]
        /\ cursors'[Dir] = cursors[Dir] + 1
        /\ \A e \in Dirs : e # Dir => cursors'[e] = cursors[e]
    BY <1>2, <1>5, <2>1, CursorStep DEF FilesInv
  <2> QED
    BY <1>1, <1>2, <1>3, <1>5, <2>1, <2>2
<1> QED
  BY <1>4, <1>5

\* A write that stops leaves the file as it was, or torn.
LEMMA WriteStopsFacts ==
  ASSUME FilesInv, NEW how \in {"failed", "crashed"}, WriteStops(how)
  PROVE  /\ exit' = how /\ exit = "running" /\ mode = "record"
         /\ files' \in [Dirs -> [Names -> Responses \cup {Absent, Torn}]]
         /\ \A d \in Dirs : \A n \in Names :
              files'[d][n] = files[d][n] \/ files'[d][n] \notin Responses
         /\ UNCHANGED <<listed, mode, list, after, items, todo, cursors, answer, before, result,
                        resent, tape, strange, odds>>
<1>1. /\ exit = "running" /\ answer # None /\ exit' = how
      /\ UNCHANGED files \/ Put(Torn)
      /\ UNCHANGED <<listed, mode, list, after, items, todo, cursors, answer, before, result,
                     resent, tape, strange, odds>>
  BY DEF WriteStops, Fault, Ended
<1>2. mode = "record" /\ FileName(answer) \in Names
  BY <1>1, Writing
<1>3. CASE UNCHANGED files
  BY <1>1, <1>2, <1>3 DEF FilesInv, Typing
<1>4. CASE Put(Torn)
  <2>1. /\ files' \in [Dirs -> [Names -> Responses \cup {Absent, Torn}]]
        /\ files'[Dir][FileName(answer)] = Torn
        /\ \A d \in Dirs : \A n \in Names :
              d # Dir \/ n # FileName(answer) => files'[d][n] = files[d][n]
    BY <1>2, <1>4, PutFacts DEF FilesInv
  <2>2. \A d \in Dirs : \A n \in Names :
              files'[d][n] = files[d][n] \/ files'[d][n] \notin Responses
    BY <2>1, ResponseParts
  <2> QED
    BY <1>1, <1>2, <2>1, <2>2
<1> QED
  BY <1>1, <1>3, <1>4

LEMMA TypingStep ==
  ASSUME FilesInv, [Next]_vars
  PROVE  Typing'
<1> USE DEF FilesInv
<1>1. ASSUME Publish PROVE Typing'
  <2>1. PICK l \in Lists : listed[l] < Longest[l] /\ listed' = [listed EXCEPT ![l] = @ + 1]
                           /\ UNCHANGED <<files, run, history, faults, odds>>
    BY <1>1 DEF Publish
  <2>2. listed' \in [Lists -> Nat] /\ \A m \in Lists : listed'[m] \in 1..Longest[m]
    <3>1. /\ listed \in [Lists -> Nat]
          /\ \A m \in Lists : listed[m] \in 1..Longest[m] /\ Longest[m] \in Nat
      BY Constants DEF Typing
    <3>2. listed[l] + 1 \in Nat /\ listed[l] + 1 \in 1..Longest[l]
      BY <2>1, <3>1
    <3> QED
      BY <2>1, <3>1, <3>2
  <2> QED
    BY <2>1, <2>2 DEF Typing, run, history
<1>2. ASSUME NEW m \in {"record", "replay"}, Begin(m), strange' \in BOOLEAN PROVE Typing'
  <2>1. 1 \in 1..Len(Timelines) /\ 1 \in 1..MaxPage + 1
    BY Constants
  <2>2. [d \in Dirs |-> 1] \in [Dirs -> 1..MaxPage + 1]
    BY <2>1
  <2>3. /\ mode' = m /\ exit' = "running" /\ list' = 1 /\ after' = NoCursor
        /\ items' = <<>> /\ todo' = <<NoId>> /\ cursors' = [d \in Dirs |-> 1]
        /\ answer' = None /\ before' = None /\ result' = <<>>
        /\ UNCHANGED <<listed, files, resent, faults, odds>>
    BY <1>2 DEF Begin
  <2>4. <<>> \in Seq(Item) /\ <<>> \in Seq(Reads) /\ NoCursor \in Nat
    BY DEF NoCursor
  <2> QED
    BY <1>2, <2>1, <2>2, <2>3, <2>4 DEF Typing
<1>3. ASSUME Answer PROVE Typing'
  BY <1>3, AnswerFits DEF Answer, Receives, Typing
<1>4. ASSUME OddAnswer PROVE Typing'
  <2>1. answer' \in Responses
    BY <1>4, OddAnswerFits
  <2>2. /\ odds < MaxOdd /\ odds' = odds + 1 /\ strange' \in BOOLEAN /\ resent' \in BOOLEAN
        /\ UNCHANGED <<listed, files, mode, exit, list, after, items, todo, cursors,
                       before, result, tape, faults>>
    BY <1>4 DEF OddAnswer, Receives, Typing
  <2>3. odds' \in 0..MaxOdd
    <3>1. odds \in Nat /\ MaxOdd \in Nat
      BY Constants, Ranges
    <3> QED
      BY <2>2, <3>1
  <2> QED
    BY <2>1, <2>2, <2>3 DEF Typing
<1>5. ASSUME WriteFile PROVE Typing'
  <2>1. FileName(answer) \in Names
    BY <1>5, Writing DEF WriteFile
  <2> QED
    BY <1>5, <2>1, WriteFileFacts, Returned, PutFacts DEF Typing, history
<1>6. ASSUME ReadFile PROVE Typing'
  BY <1>6, ReadFileFacts, Returned DEF Typing, history
<1>7. ASSUME ReadFails PROVE Typing'
  BY <1>7 DEF ReadFails, Ended, Typing
<1>8. ASSUME Skip \/ SkipRefused PROVE Typing'
  <2>1. result' \in Seq(Reads)
    BY <1>8, Passing DEF Typing
  <2> QED
    BY <1>8, <2>1, Passing DEF Typing, history
<1>9. ASSUME NextList PROVE Typing'
  <2>1. list + 1 \in 1..Len(Timelines)
    BY <1>9, Constants DEF NextList, Typing
  <2> QED
    BY <1>9, <2>1 DEF NextList, Typing, NoCursor, history
<1>10. ASSUME Finish PROVE Typing'
  BY <1>10 DEF Finish, Ended, Typing
<1>11. ASSUME NEW how \in {"failed", "crashed"}, WriteStops(how) PROVE Typing'
  BY <1>11, WriteStopsFacts DEF Typing
<1>12. ASSUME RunEnds \/ RefusalEnds PROVE Typing'
  BY <1>12 DEF RunEnds, RefusalEnds, Refuses, Fault, Ended, Typing
<1>13. ASSUME UNCHANGED vars PROVE Typing'
  BY <1>13 DEF vars, run, history, Typing
<1>14. ASSUME StartRecord \/ StartReplay PROVE Typing'
  BY <1>2, <1>14 DEF StartRecord, StartReplay, Typing
<1> QED
  BY <1>1, <1>3, <1>4, <1>5, <1>6, <1>7, <1>8, <1>9, <1>10, <1>11, <1>12, <1>13, <1>14, Steps

LEMMA FilesFrame ==
  ASSUME [Next]_vars
  PROVE  \/ files' = files
         \/ WriteFile
         \/ \E how \in {"failed", "crashed"} : WriteStops(how)
BY Steps DEF Publish, StartRecord, StartReplay, Begin, Answer, OddAnswer, Receives, ReadFile,
   ReadFails, Skip, NextList, Finish, RunEnds, SkipRefused, RefusalEnds,
   Refuses, Ended, Fault, vars

LEMMA NamedStep ==
  ASSUME FilesInv, [Next]_vars
  PROVE  Named'
<1>1. Named
  BY DEF FilesInv
<1>2. CASE files' = files
  BY <1>1, <1>2 DEF Named
<1>3. CASE WriteFile
  <2>1. /\ IdOf(FileName(answer)) = answer.id
        /\ files'[Dir][FileName(answer)] = answer
        /\ \A d \in Dirs : \A n \in Names :
              d # Dir \/ n # FileName(answer) => files'[d][n] = files[d][n]
    <3>1. answer \in Responses /\ Put(answer) /\ FileName(answer) \in Names
          /\ IdOf(FileName(answer)) = answer.id
      BY <1>3, WriteFileFacts, Writing DEF WriteFile
    <3> QED
      BY <3>1, PutFacts DEF FilesInv
  <2>2. ASSUME NEW d \in Dirs, NEW n \in Names, files'[d][n] \in Responses
        PROVE  files'[d][n].id = IdOf(n)
    BY <1>1, <2>1, <2>2 DEF Named
  <2> QED
    BY <2>2 DEF Named
<1>4. ASSUME NEW how \in {"failed", "crashed"}, WriteStops(how)
      PROVE  Named'
  <2>1. \A d \in Dirs : \A n \in Names :
              files'[d][n] = files[d][n] \/ files'[d][n] \notin Responses
    BY <1>4, WriteStopsFacts
  <2>2. ASSUME NEW d \in Dirs, NEW n \in Names, files'[d][n] \in Responses
        PROVE  files'[d][n].id = IdOf(n)
    BY <1>1, <2>1, <2>2 DEF Named
  <2> QED
    BY <2>2 DEF Named
<1> QED
  BY <1>2, <1>3, <1>4, FilesFrame

LEMMA NumberingStep ==
  ASSUME FilesInv, [Next]_vars
  PROVE  Numbering'
<1>1. Numbering
  BY DEF FilesInv
<1>2. CASE files' = files
  BY <1>1, <1>2 DEF Numbering
<1>3. CASE WriteFile
  <2>1. answer \in Responses /\ Put(answer) /\ FileName(answer) \in Names /\ Fitting(answer)
        /\ (answer.id = NoId => FileName(answer) = <<cursors[Dir]>>)
        /\ (answer.id # NoId => FileName(answer) \in Item)
    BY <1>3, WriteFileFacts, Writing, ResponseParts DEF WriteFile
  <2>2. /\ files'[Dir][FileName(answer)] = answer
        /\ \A d \in Dirs : \A n \in Names :
              d # Dir \/ n # FileName(answer) => files'[d][n] = files[d][n]
    BY <2>1, PutFacts DEF FilesInv
  <2>3. ASSUME NEW l \in Lists, NEW c \in 1..MaxPage,
               files'[l][<<c>>] \in Responses, files'[l][<<c>>].after # NoCursor
        PROVE  files'[l][<<c>>].after + c <= Longest[l] + MaxOdd
    <3>1. <<c>> \in Names /\ <<c>> \notin Item /\ l \in Dirs
      BY Identities, Constants
    <3>2. CASE l = Dir /\ <<c>> = FileName(answer)
      <4>1. answer.id = NoId /\ <<c>> = <<cursors[Dir]>>
        BY <2>1, <3>1, <3>2
      <4>2. c = cursors[Dir]
        BY <4>1
      <4>3. files'[l][<<c>>] = answer /\ answer.after # NoCursor /\ answer.after \in Nat
        BY <2>1, <2>2, <2>3, <3>2, ResponseParts
      <4>4. ListPhase /\ answer.after + cursors[Current] <= Longest[Current] + odds
        BY <2>1, <4>3 DEF Fitting
      <4>5. Dir = Current
        BY <4>4, Phases DEF FilesInv
      <4>6. odds \in Nat /\ odds <= MaxOdd /\ Longest[l] \in Nat /\ MaxOdd \in Nat
        BY Ranges, Constants DEF FilesInv
      <4>7. answer.after + c <= Longest[l] + odds
        BY <3>2, <4>2, <4>4, <4>5
      <4> QED
        BY <4>3, <4>6, <4>7
    <3>3. CASE ~(l = Dir /\ <<c>> = FileName(answer))
      <4>1. files'[l][<<c>>] = files[l][<<c>>]
        BY <2>2, <3>1, <3>3
      <4> QED
        BY <1>1, <2>3, <4>1 DEF Numbering
    <3> QED
      BY <3>2, <3>3
  <2> QED
    BY <2>3 DEF Numbering
<1>4. ASSUME NEW how \in {"failed", "crashed"}, WriteStops(how)
      PROVE  Numbering'
  <2>1. \A d \in Dirs : \A n \in Names :
              files'[d][n] = files[d][n] \/ files'[d][n] \notin Responses
    BY <1>4, WriteStopsFacts
  <2>2. ASSUME NEW l \in Lists, NEW c \in 1..MaxPage, files'[l][<<c>>] \in Responses
        PROVE  files'[l][<<c>>] = files[l][<<c>>]
    BY <2>1, <2>2, Identities, Constants
  <2> QED
    BY <1>1, <2>2 DEF Numbering
<1> QED
  BY <1>2, <1>3, <1>4, FilesFrame

\* What a page read says of the pages still to read.
LEMMA PageTurns ==
  ASSUME FilesInv, ListPhase, exit = "running", todo # <<>>, NEW got \in Responses, Return(got),
         got.after # NoCursor
  PROVE  ListPhase' /\ todo' = todo /\ Current' = Current /\ after' = got.after
<1>1. todo' = todo /\ after' = got.after /\ list' = list
  BY Returned DEF FilesInv
<1> QED
  BY <1>1 DEF ListPhase, Current

LEMMA ListEnds ==
  ASSUME FilesInv, todo # <<>>, NEW got \in Responses, Return(got),
         ListPhase => got.after = NoCursor
  PROVE  ~ListPhase' /\ (ListPhase \/ after = NoCursor => after' = NoCursor)
<1>1. todo' \in Seq(Item)
  <2>1. CASE ListPhase
    BY <2>1, Returned, ReverseType DEF FilesInv
  <2>2. CASE ~ListPhase
    BY <2>2, Returned, Phases DEF FilesInv
  <2> QED
    BY <2>1, <2>2
<1>2. ~ListPhase'
  BY <1>1, Identities DEF ListPhase
<1>3. ListPhase \/ after = NoCursor => after' = NoCursor
  BY Returned DEF FilesInv
<1> QED
  BY <1>2, <1>3

\* The parts of Paging a step disturbs, from what it does to the page numbers.
LEMMA PagingRead ==
  ASSUME FilesInv, exit = "running", todo # <<>>, NEW got \in Responses, Return(got),
         mode' = mode, odds' = odds,
         \A e \in Dirs : e # Dir => cursors'[e] = cursors[e],
         cursors'[Dir] \in {cursors[Dir], cursors[Dir] + 1},
         got.after # NoCursor => /\ ListPhase /\ cursors'[Dir] = cursors[Dir] + 1
                                 /\ got.after + cursors[Current] <= Longest[Current] + Odds
                                 /\ mode = "record" => got.after <= Longest[Current],
         mode = "record" /\ ~ListPhase => cursors'[DetailsDir] <= odds + 1
  PROVE  Paging'
<1>1. /\ Current \in Lists /\ Dir \in Dirs /\ (ListPhase => Dir = Current)
      /\ (~ListPhase => Dir = DetailsDir) /\ DetailsDir # Current
  BY Phases, Constants DEF FilesInv
<1>2. list' = list /\ Current' = Current /\ Odds' = Odds
  BY Returned DEF FilesInv, Current, Odds
<1>3. ASSUME NEW k \in 1..Len(Timelines), k > list'
      PROVE  cursors'[Timelines[k]] = 1
  <2>1. k > list /\ k # list /\ list \in 1..Len(Timelines)
    BY <1>2, <1>3 DEF FilesInv, Typing
  <2>2. cursors[Timelines[k]] = 1
    BY <2>1 DEF FilesInv, Paging
  <2>3. Timelines[k] # Current /\ Timelines[k] \in Lists
    BY <2>1, Constants DEF Current
  <2>4. Timelines[k] # Dir /\ Timelines[k] \in Dirs
    BY <1>1, <2>3, Constants
  <2> QED
    BY <2>2, <2>4
<1>4. mode' = "record" => cursors'[DetailsDir] <= odds' + 1
  <2>1. CASE ListPhase
    <3>1. cursors'[DetailsDir] = cursors[DetailsDir]
      BY <1>1, <2>1, Constants
    <3> QED
      BY <3>1 DEF FilesInv, Paging
  <2>2. CASE ~ListPhase
    BY <2>2
  <2> QED
    BY <2>1, <2>2
<1>5. CASE got.after # NoCursor
  <2>1. ListPhase /\ ListPhase' /\ after' = got.after
    BY <1>5, PageTurns
  <2>2. cursors'[Current] = cursors[Current] + 1 /\ cursors[Current] \in Nat /\ cursors[Current] > 0
        /\ got.after \in Nat /\ Longest[Current] \in Nat /\ odds \in Nat /\ MaxOdd \in Nat
    BY <1>1, <1>5, <2>1, Ranges, ResponseParts, Constants DEF FilesInv
  <2>3. Odds \in Nat
    BY <2>2 DEF Odds
  <2>4. cursors'[Current] > 1 /\ got.after + cursors'[Current] <= Longest[Current] + Odds + 1
    BY <1>5, <2>2, <2>3
  <2> QED
    BY <1>2, <1>3, <1>4, <1>5, <2>1, <2>4 DEF Paging
<1>6. CASE got.after = NoCursor
  <2>1. ~ListPhase' /\ after' = NoCursor
    BY <1>6, ListEnds DEF FilesInv, Paging
  <2>2. after' <= Longest[Current]
    BY <1>1, <2>1, Constants DEF NoCursor
  <2> QED
    BY <1>2, <1>3, <1>4, <2>1, <2>2 DEF Paging
<1> QED
  BY <1>5, <1>6

LEMMA PagingStep ==
  ASSUME FilesInv, [Next]_vars
  PROVE  Paging'
<1>1. CASE /\ UNCHANGED <<mode, exit, list, after, items, todo, cursors>>
           /\ odds' \in Nat /\ odds' >= odds
  <2>1. /\ Current' = Current /\ (ListPhase' <=> ListPhase)
        /\ Odds \in Nat /\ Odds' \in Nat /\ Odds <= Odds' /\ odds \in Nat
    BY <1>1, Ranges, Constants DEF FilesInv, Current, ListPhase, Odds
  <2>2. /\ Current \in Lists /\ after \in Nat /\ cursors[Current] \in Nat
        /\ Longest[Current] \in Nat /\ cursors[DetailsDir] \in Nat
    BY Ranges, Phases DEF FilesInv
  <2>3. SUFFICES ASSUME exit' = "running" PROVE Paging'
    BY DEF Paging
  <2>4. exit = "running" /\ Paging
    BY <1>1, <2>3 DEF FilesInv
  <2>5. ListPhase /\ after # NoCursor => after + cursors[Current] <= Longest[Current] + Odds' + 1
    BY <2>1, <2>2, <2>4 DEF Paging
  <2>6. mode = "record" => cursors[DetailsDir] <= odds' + 1
    BY <1>1, <2>1, <2>2, <2>4 DEF Paging
  <2> QED
    BY <1>1, <2>1, <2>4, <2>5, <2>6 DEF Paging
<1>2. CASE exit' # "running"
  BY <1>2 DEF Paging
<1>3. ASSUME NEW m \in {"record", "replay"}, Begin(m) PROVE Paging'
  <2>1. /\ list' = 1 /\ after' = NoCursor /\ items' = <<>> /\ todo' = <<NoId>>
        /\ cursors' = [d \in Dirs |-> 1] /\ odds' = odds
    BY <1>3 DEF Begin
  <2>2. ListPhase' /\ Current' \in Lists /\ Longest[Current'] \in Nat
    BY <2>1, Constants DEF ListPhase, Current
  <2>3. cursors'[Current'] = 1 /\ cursors'[DetailsDir] = 1
        /\ \A k \in 1..Len(Timelines) : cursors'[Timelines[k]] = 1
    BY <2>1, <2>2, Constants
  <2>4. odds' \in Nat
    BY <2>1, Ranges DEF FilesInv
  <2> QED
    BY <2>1, <2>2, <2>3, <2>4 DEF Paging, NoCursor
<1>4. ASSUME WriteFile PROVE Paging'
  <2>1. /\ answer \in Responses /\ Return(answer) /\ todo # <<>> /\ exit = "running"
        /\ mode = "record" /\ mode' = mode /\ odds' = odds /\ Fitting(answer)
        /\ (answer.id # NoId => cursors' = cursors)
        /\ (answer.id = NoId => /\ cursors'[Dir] = cursors[Dir] + 1
                                /\ \A e \in Dirs : e # Dir => cursors'[e] = cursors[e])
    BY <1>4, WriteFileFacts, Writing DEF WriteFile
  <2>2. answer.after # NoCursor => /\ ListPhase /\ cursors'[Dir] = cursors[Dir] + 1
                                   /\ answer.after + cursors[Current] <= Longest[Current] + Odds
                                   /\ answer.after <= Longest[Current]
    BY <2>1, ResponseParts DEF Fitting, Odds
  <2>3. ~ListPhase => cursors'[DetailsDir] <= odds + 1
    <3>1. CASE ~ListPhase /\ answer.id = NoId
      <4>1. Dir = DetailsDir /\ cursors[DetailsDir] <= odds
        BY <2>1, <3>1, Phases DEF FilesInv, Fitting
      <4> QED
        BY <2>1, <3>1, <4>1, Ranges DEF FilesInv
    <3>2. CASE answer.id # NoId
      BY <2>1, <3>2 DEF FilesInv, Paging
    <3> QED
      BY <3>1, <3>2
  <2>4. /\ \A e \in Dirs : e # Dir => cursors'[e] = cursors[e]
        /\ cursors'[Dir] \in {cursors[Dir], cursors[Dir] + 1}
    BY <2>1
  <2> QED
    BY <2>1, <2>2, <2>3, <2>4, PagingRead
<1>5. ASSUME ReadFile PROVE Paging'
  <2>1. /\ Found \in Responses /\ Return(Found) /\ todo # <<>> /\ exit = "running"
        /\ mode = "replay" /\ mode' = mode /\ odds' = odds
        /\ (~ListPhase => cursors' = cursors)
        /\ (ListPhase => /\ cursors'[Dir] = cursors[Dir] + 1
                         /\ \A e \in Dirs : e # Dir => cursors'[e] = cursors[e])
    BY <1>5, ReadFileFacts
  <2>2. ASSUME Found.after # NoCursor
        PROVE  /\ ListPhase
               /\ Found.after + cursors[Current] <= Longest[Current] + Odds
    <3>1. CASE ListPhase
      <4>1. Found = files[Current][<<cursors[Current]>>] /\ cursors[Current] \in 1..MaxPage
            /\ Current \in Lists
        BY <1>5, <3>1, Reading, Phases DEF ReadFile, Found, FilesInv
      <4>2. Found.after + cursors[Current] <= Longest[Current] + MaxOdd
        BY <2>1, <2>2, <4>1 DEF FilesInv, Numbering
      <4> QED
        BY <2>1, <3>1, <4>2 DEF Odds
    <3>2. CASE ~ListPhase
      <4>1. Found = files[DetailsDir][Asked] /\ Asked \in Item /\ Asked # NoId
        BY <1>5, <2>1, <3>2, Reading, Phases DEF ReadFile, Found, FilesInv
      <4>2. Found.id = Asked
        BY <2>1, <4>1, Identities, Constants DEF FilesInv, Named, IdOf
      <4> QED
        BY <2>1, <2>2, <4>1, <4>2, ResponseParts
    <3> QED
      BY <3>1, <3>2
  <2>3. /\ \A e \in Dirs : e # Dir => cursors'[e] = cursors[e]
        /\ cursors'[Dir] \in {cursors[Dir], cursors[Dir] + 1}
        /\ (Found.after # NoCursor => cursors'[Dir] = cursors[Dir] + 1)
    BY <2>1, <2>2
  <2>4. mode # "record"
    BY <2>1
  <2> QED
    BY <2>1, <2>2, <2>3, <2>4, PagingRead
<1>6. ASSUME Skip \/ SkipRefused PROVE Paging'
  <2>1. /\ exit = "running" /\ ~ListPhase /\ ~ListPhase' /\ Current' = Current
        /\ UNCHANGED <<mode, exit, list, after, items, cursors, odds>>
    BY <1>6, Passing DEF FilesInv
  <2> QED
    BY <2>1 DEF FilesInv, Paging
<1>7. ASSUME NextList PROVE Paging'
  <2>1. /\ exit = "running" /\ list < Len(Timelines) /\ list' = list + 1 /\ todo' = <<NoId>>
        /\ after' = NoCursor /\ items' = <<>> /\ UNCHANGED <<mode, exit, cursors, odds>>
    BY <1>7 DEF NextList
  <2>2. list \in 1..Len(Timelines) /\ list + 1 \in 1..Len(Timelines)
    BY <2>1, Constants DEF FilesInv, Typing
  <2>3. /\ \A k \in 1..Len(Timelines) : k > list => cursors[Timelines[k]] = 1
        /\ mode = "record" => cursors[DetailsDir] <= odds + 1
    BY <2>1 DEF FilesInv, Paging
  <2>4. ListPhase' /\ cursors'[Current'] = 1 /\ Longest[Current'] \in Nat
    BY <2>1, <2>2, <2>3, Constants DEF ListPhase, Current
  <2>5. \A k \in 1..Len(Timelines) : k > list' => cursors'[Timelines[k]] = 1
    BY <2>1, <2>2, <2>3
  <2> QED
    BY <2>1, <2>3, <2>4, <2>5 DEF Paging, NoCursor
<1>8. ASSUME Publish \/ Answer \/ OddAnswer \/ UNCHANGED vars
      PROVE  /\ UNCHANGED <<mode, exit, list, after, items, todo, cursors>>
             /\ odds' \in Nat /\ odds' >= odds
  <2>1. UNCHANGED <<mode, exit, list, after, items, todo, cursors>>
    BY <1>8 DEF Publish, Answer, OddAnswer, Receives, vars, run
  <2>2. odds' \in {odds, odds + 1} /\ odds \in Nat
    BY <1>8, Ranges DEF Publish, Answer, OddAnswer, Receives, vars, FilesInv
  <2> QED
    BY <2>1, <2>2
<1>9. ASSUME \/ ReadFails \/ Finish \/ RunEnds \/ RefusalEnds
             \/ \E how \in {"failed", "crashed"} : WriteStops(how)
      PROVE  exit' # "running"
  BY <1>9 DEF ReadFails, Finish, RunEnds, RefusalEnds, WriteStops, Ended
<1> QED
  BY <1>1, <1>2, <1>3, <1>4, <1>5, <1>6, <1>7, <1>8, <1>9, Steps DEF StartRecord, StartReplay

LEMMA AnsweringStep ==
  ASSUME FilesInv, [Next]_vars
  PROVE  Answering'
<1>1. Answering
  BY DEF FilesInv
<1>2. ASSUME Publish \/ UNCHANGED vars PROVE Answering'
  <2>1. UNCHANGED <<mode, exit, list, after, todo, cursors, answer, before, strange, odds>>
    BY <1>2 DEF Publish, vars, run, history
  <2> QED
    BY <1>1, <2>1
       DEF Answering, Fitting, ListPhase, Current, Asked, WithoutDetails
<1>3. CASE exit' # "running"
  BY <1>3 DEF Answering
<1>4. ASSUME NEW m \in {"record", "replay"}, Begin(m) PROVE Answering'
  BY <1>4 DEF Begin, Answering
<1>5. ASSUME Answer \/ OddAnswer PROVE Answering'
  <2>1. /\ mode = "record" /\ mode' = mode /\ exit' = exit /\ exit = "running"
        /\ todo # <<>> /\ ~WithoutDetails
        /\ UNCHANGED <<todo, after, before>>
    BY <1>5 DEF Answer, OddAnswer, Receives, Asking
  <2>2. ~WithoutDetails' /\ todo' # <<>>
    BY <2>1 DEF WithoutDetails
  <2>3. Fitting(answer)'
    BY <1>5, AnswerFits, OddAnswerFits
  <2> QED
    BY <1>1, <2>1, <2>2, <2>3 DEF Answering
<1>6. ASSUME WriteFile PROVE Answering'
  <2>1. /\ answer \in Responses /\ Return(answer) /\ todo # <<>> /\ exit = "running"
        /\ mode' = "record" /\ Fitting(answer)
    BY <1>6, WriteFileFacts, Writing DEF WriteFile
  <2>2. before' = answer /\ answer' = None
    BY <2>1, Returned DEF FilesInv
  <2>3. answer.after # NoCursor => after' = answer.after
    BY <2>1, PageTurns DEF Fitting
  <2> QED
    BY <2>1, <2>2, <2>3 DEF Answering
<1>7. ASSUME ReadFile PROVE Answering'
  <2>1. answer' = None /\ mode' = "replay"
    BY <1>7, ReadFileFacts, Returned DEF FilesInv
  <2> QED
    BY <2>1 DEF Answering
<1>8. ASSUME Skip \/ SkipRefused PROVE Answering'
  <2>1. /\ exit = "running" /\ UNCHANGED <<mode, exit, after, answer, before>>
        /\ WithoutDetails \/ answer = None
    BY <1>8, Passing DEF FilesInv
  <2>2. answer = None
    BY <1>1, <2>1 DEF Answering
  <2> QED
    BY <1>1, <2>1, <2>2 DEF Answering
<1>9. ASSUME NextList PROVE Answering'
  <2>1. todo = <<>> /\ exit = "running" /\ UNCHANGED <<mode, exit, answer, before>>
    BY <1>9 DEF NextList
  <2>2. answer = None /\ ~ListPhase
    BY <1>1, <2>1 DEF Answering, ListPhase
  <2>3. mode = "record" /\ before # None => before.after = NoCursor
    BY <1>1, <2>1, <2>2 DEF Answering, FilesInv, Paging
  <2> QED
    BY <1>1, <2>1, <2>2, <2>3 DEF Answering
<1>10. ASSUME \/ ReadFails \/ Finish \/ RunEnds \/ RefusalEnds
              \/ \E how \in {"failed", "crashed"} : WriteStops(how)
       PROVE  exit' # "running"
  BY <1>10 DEF ReadFails, Finish, RunEnds, RefusalEnds, WriteStops, Ended
<1> QED
  BY <1>2, <1>3, <1>4, <1>5, <1>6, <1>7, <1>8, <1>9, <1>10, Steps DEF StartRecord, StartReplay

LEMMA OwnDetailsStep ==
  ASSUME FilesInv, [Next]_vars
  PROVE  OwnDetails'
<1>1. OwnDetails
  BY DEF FilesInv
<1>2. CASE UNCHANGED <<mode, result>>
  BY <1>1, <1>2 DEF OwnDetails
<1>3. ASSUME NEW m \in {"record", "replay"}, Begin(m) PROVE OwnDetails'
  <2>1. result' = <<>>
    BY <1>3 DEF Begin
  <2> QED
    BY <2>1 DEF OwnDetails
<1>4. ASSUME WriteFile \/ SkipRefused PROVE OwnDetails'
  BY <1>4, WriteFileFacts, Passing DEF OwnDetails, FilesInv
<1>5. ASSUME ReadFile PROVE OwnDetails'
  <2>1. /\ Found \in Responses /\ Return(Found) /\ todo # <<>> /\ mode = "replay"
    BY <1>5, ReadFileFacts
  <2>2. /\ Len(result') = Len(result) + 1 /\ Len(result) \in Nat
        /\ result'[Len(result) + 1] = [dir |-> Dir, asked |-> Asked, got |-> Found]
        /\ \A k \in 1..Len(result) : result'[k] = result[k]
    BY <2>1, Returned, Ranges DEF FilesInv
  <2>3. Asked # NoId => Found.id = Asked
    <3>1. ASSUME Asked # NoId PROVE Found.id = Asked
      <4>1. ~ListPhase
        BY <3>1, Phases DEF FilesInv
      <4>2. Found = files[DetailsDir][Asked] /\ Asked \in Item
        BY <1>5, <2>1, <4>1, Reading, Phases DEF ReadFile, Found, FilesInv
      <4> QED
        BY <2>1, <4>2, Identities, Constants DEF FilesInv, Named, IdOf
    <3> QED
      BY <3>1
  <2>4. ASSUME NEW k \in 1..Len(result'), result'[k].asked # NoId
        PROVE  result'[k].got.id = result'[k].asked
    <3>1. CASE k = Len(result) + 1
      <4>1. result'[k] = [dir |-> Dir, asked |-> Asked, got |-> Found]
        BY <2>2, <3>1
      <4> QED
        BY <2>3, <2>4, <4>1
    <3>2. CASE k \in 1..Len(result)
      BY <1>1, <2>1, <2>2, <2>4, <3>2 DEF OwnDetails
    <3> QED
      BY <2>2, <3>1, <3>2
  <2> QED
    BY <2>4 DEF OwnDetails
<1>6. ASSUME \/ Publish \/ Answer \/ OddAnswer \/ ReadFails \/ Skip \/ NextList \/ Finish
             \/ RunEnds \/ RefusalEnds \/ \E how \in {"failed", "crashed"} : WriteStops(how)
             \/ UNCHANGED vars
      PROVE  UNCHANGED <<mode, result>>
  BY <1>6 DEF Publish, Answer, OddAnswer, Receives, ReadFails, Skip, NextList, Finish, RunEnds, RefusalEnds,
     WriteStops, Ended, vars, run
<1> QED
  BY <1>2, <1>3, <1>4, <1>5, <1>6, Steps DEF StartRecord, StartReplay

LEMMA FilesInit == Init => FilesInv
<1> SUFFICES ASSUME Init PROVE FilesInv
  OBVIOUS
<1>1. /\ listed = [l \in Lists |-> 1] /\ files = [d \in Dirs |-> [n \in Names |-> Absent]]
      /\ mode = "record" /\ exit = "never ran" /\ list = 1 /\ after = NoCursor
      /\ items = <<>> /\ todo = <<>> /\ cursors = [d \in Dirs |-> 1]
      /\ answer = None /\ before = None /\ result = <<>>
      /\ strange = FALSE /\ resent = FALSE /\ odds = 0
  BY DEF Init
<1>2. \A d \in Dirs : \A n \in Names : files[d][n] = Absent
  BY <1>1
<1>3. listed \in [Lists -> Nat] /\ \A l \in Lists : listed[l] \in 1..Longest[l]
  <2>1. \A l \in Lists : 1 \in 1..Longest[l]
    BY Constants
  <2> QED
    BY <1>1, <2>1
<1>4. files \in [Dirs -> [Names -> Responses \cup {Absent, Torn}]]
  BY <1>1
<1>5. cursors \in [Dirs -> 1..MaxPage + 1] /\ list \in 1..Len(Timelines) /\ odds \in 0..MaxOdd
  <2>1. 1 \in 1..MaxPage + 1 /\ 1 \in 1..Len(Timelines) /\ 0 \in 0..MaxOdd
    BY Constants
  <2> QED
    BY <1>1, <2>1
<1>6. items \in Seq(Item) /\ todo \in Seq(Item) /\ result \in Seq(Reads) /\ after \in Nat
  <2>1. <<>> \in Seq(Item) /\ <<>> \in Seq(Reads) /\ NoCursor \in Nat
    BY DEF NoCursor
  <2> QED
    BY <1>1, <2>1
<1>7. Typing
  BY <1>1, <1>3, <1>4, <1>5, <1>6 DEF Typing
<1>8. Named /\ Numbering
  <2>1. \A d \in Dirs : \A n \in Names : files[d][n] \notin Responses
    BY <1>2, ResponseParts
  <2>2. \A l \in Lists : \A c \in 1..MaxPage : files[l][<<c>>] \notin Responses
    BY <2>1, Identities, Constants
  <2> QED
    BY <2>1, <2>2 DEF Named, Numbering
<1>9. Paging /\ Answering /\ OwnDetails
  BY <1>1 DEF Paging, Answering, OwnDetails
<1> QED
  BY <1>7, <1>8, <1>9 DEF FilesInv

LEMMA FilesInvariant == Spec => []FilesInv
<1>1. FilesInv /\ [Next]_vars => FilesInv'
  BY TypingStep, NamedStep, NumberingStep, PagingStep, AnsweringStep, OwnDetailsStep DEF FilesInv
<1> QED
  BY <1>1, FilesInit, PTL DEF Spec

\* The types; a directory holds data under the names the writer can give it, and no run
\* reads more pages than the list has.
THEOREM TypeCorrect == Spec => []TypeOK
<1>1. FilesInv => TypeOK
  <2> SUFFICES ASSUME FilesInv PROVE TypeOK
    OBVIOUS
  <2>1. ToSet(items) \subseteq Item /\ ToSet(todo) \subseteq Item \cup {NoId}
    <3>1. items \in Seq(Item) /\ todo \in Seq(Item) \cup {<<NoId>>}
      BY DEF FilesInv, Typing
    <3>2. \A k \in DOMAIN todo : todo[k] \in Item \cup {NoId}
      <4>1. CASE todo \in Seq(Item)
        BY <4>1
      <4>2. CASE todo = <<NoId>>
        BY <4>2
      <4> QED
        BY <3>1, <4>1, <4>2
    <3>3. \A k \in DOMAIN items : items[k] \in Item
      BY <3>1
    <3> QED
      BY <3>2, <3>3 DEF ToSet
  <2>2. ASSUME NEW d \in Dirs, NEW n \in Names, files[d][n] \notin {Absent, Torn}
        PROVE  files[d][n].id = IF n \in Item THEN n ELSE NoId
    <3>1. files[d][n] \in Responses
      BY <2>2 DEF FilesInv, Typing
    <3> QED
      BY <3>1 DEF FilesInv, Named, IdOf
  <2>3. \A d \in Dirs : cursors[d] \in 1..MaxPage + 1
    BY DEF FilesInv, Typing
  <2> QED
    BY <2>1, <2>2, <2>3 DEF TypeOK, FilesInv, Typing
<1> QED
  BY <1>1, FilesInvariant, PTL

(***************************************************************************)
(* OrderInv holds.                                                         *)
(***************************************************************************)
LEMMA Multiples ==
  ASSUME NEW c \in Int
  PROVE  (c - 1) * PageSize \in Int /\ c * PageSize = (c - 1) * PageSize + PageSize
BY Constants

LEMMA ConcatAt ==
  ASSUME NEW p \in Seq(Item), NEW q \in Seq(Item)
  PROVE  /\ p \o q \in Seq(Item) /\ Len(p \o q) = Len(p) + Len(q)
         /\ \A k \in 1..Len(p) : (p \o q)[k] = p[k]
         /\ \A k \in 1..Len(p \o q) : k > Len(p) => k - Len(p) \in 1..Len(q)
                                                    /\ (p \o q)[k] = q[k - Len(p)]
OBVIOUS

LEMMA LengthType ==
  ASSUME Typing
  PROVE  /\ \A r \in Responses : \A c \in Nat : LengthAt(r, c) \in Int
         /\ \A l \in Lists : \A c \in 1..MaxPage : /\ IsPage(l, c) => FileLength(l, c) \in Int
                                                  /\ files[l][<<c>>] \in Responses \cup {Absent, Torn}
<1>1. ASSUME NEW r \in Responses, NEW c \in Nat
      PROVE  LengthAt(r, c) \in Int
  <2>1. r.after \in Nat /\ Len(r.items) \in Nat
    BY ResponseParts
  <2>2. (c - 1) * PageSize \in Int
    <3>1. c \in Int
      OBVIOUS
    <3> QED
      BY <3>1, Multiples, Zenon
  <2> QED
    BY <2>1, <2>2 DEF LengthAt
<1>2. ASSUME NEW l \in Lists, NEW c \in 1..MaxPage
      PROVE  /\ IsPage(l, c) => FileLength(l, c) \in Int
             /\ files[l][<<c>>] \in Responses \cup {Absent, Torn}
  <2>1. l \in Dirs /\ <<c>> \in Names /\ c \in Nat
    BY Constants, Identities
  <2> QED
    BY <1>1, <2>1 DEF Typing, IsPage, FileLength
<1> QED
  BY <1>1, <1>2

\* The one page a write changes.
LEMMA PageWritten ==
  ASSUME FilesInv, WriteFile
  PROVE  /\ \A l \in Lists : \A c \in 1..MaxPage :
              files'[l][<<c>>] # files[l][<<c>>] =>
                /\ ListPhase /\ l = Current /\ c = cursors[Current]
                /\ files'[l][<<c>>] = answer /\ answer.id = NoId
         /\ ListPhase /\ answer.id = NoId =>
              /\ cursors[Current] \in 1..MaxPage
              /\ files'[Current][<<cursors[Current]>>] = answer
<1>1. answer \in Responses /\ Put(answer) /\ FileName(answer) \in Names
      /\ (answer.id = NoId => /\ FileName(answer) = <<cursors[Dir]>>
                              /\ cursors[Dir] \in 1..MaxPage)
      /\ (answer.id # NoId => FileName(answer) \in Item)
  BY WriteFileFacts, Writing, ResponseParts DEF WriteFile
<1>2. /\ files'[Dir][FileName(answer)] = answer
      /\ \A d \in Dirs : \A n \in Names :
            d # Dir \/ n # FileName(answer) => files'[d][n] = files[d][n]
  BY <1>1, PutFacts DEF FilesInv
<1>3. ASSUME NEW l \in Lists, NEW c \in 1..MaxPage, files'[l][<<c>>] # files[l][<<c>>]
      PROVE  /\ ListPhase /\ l = Current /\ c = cursors[Current]
             /\ files'[l][<<c>>] = answer /\ answer.id = NoId
  <2>1. <<c>> \in Names /\ <<c>> \notin Item /\ l \in Dirs /\ l # DetailsDir
    BY Identities, Constants
  <2>2. l = Dir /\ <<c>> = FileName(answer)
    BY <1>2, <1>3, <2>1
  <2>3. answer.id = NoId /\ <<c>> = <<cursors[Dir]>>
    BY <1>1, <2>1, <2>2
  <2>4. c = cursors[Dir]
    BY <2>3
  <2>5. ListPhase /\ Dir = Current
    BY <2>1, <2>2, Phases DEF FilesInv
  <2> QED
    BY <1>2, <2>2, <2>3, <2>4, <2>5
<1>4. ASSUME ListPhase, answer.id = NoId
      PROVE  /\ cursors[Current] \in 1..MaxPage
             /\ files'[Current][<<cursors[Current]>>] = answer
  <2>1. Dir = Current
    BY <1>4, Phases DEF FilesInv
  <2> QED
    BY <1>1, <1>2, <1>4, <2>1
<1> QED
  BY <1>3, <1>4

LEMMA ResentStays ==
  ASSUME [Next]_vars, ~resent'
  PROVE  ~resent
BY Steps DEF Publish, StartRecord, StartReplay, Begin, Answer, OddAnswer, Receives, WriteFile,
   ReadFile, ReadFails, Skip, NextList, Finish, WriteStops, RunEnds, SkipRefused, RefusalEnds,
   Refuses, Ended, vars, history

LEMMA ListedGrows ==
  ASSUME FilesInv, [Next]_vars, NEW l \in Lists
  PROVE  listed'[l] \in Nat /\ listed[l] \in Nat /\ listed[l] <= listed'[l]
<1>1. listed[l] \in Nat /\ listed \in [Lists -> Nat]
  BY Ranges DEF FilesInv, Typing
<1>2. CASE Publish
  <2>1. PICK m \in Lists : listed' = [listed EXCEPT ![m] = @ + 1]
    BY <1>2 DEF Publish
  <2> QED
    BY <1>1, <2>1
<1>3. CASE listed' = listed
  BY <1>1, <1>3
<1>4. Publish \/ listed' = listed
  BY Steps DEF StartRecord, StartReplay, Begin, Answer, OddAnswer, Receives, WriteFile,
     ReadFile, ReadFails, Skip, NextList, Finish, WriteStops, RunEnds,
     SkipRefused, RefusalEnds, Refuses, Ended, vars
<1> QED
  BY <1>2, <1>3, <1>4

\* A file changes to what was there, to nothing, or to the answer.
LEMMA PageSteps ==
  ASSUME FilesInv, [Next]_vars, NEW l \in Lists, NEW c \in 1..MaxPage
  PROVE  \/ files'[l][<<c>>] = files[l][<<c>>]
         \/ files'[l][<<c>>] \notin Responses
         \/ WriteFile /\ ListPhase /\ l = Current /\ c = cursors[Current]
            /\ files'[l][<<c>>] = answer /\ answer.id = NoId
<1>1. l \in Dirs /\ <<c>> \in Names
  BY Identities, Constants
<1>2. CASE files' = files
  BY <1>2
<1>3. CASE WriteFile
  BY <1>3, PageWritten
<1>4. ASSUME NEW how \in {"failed", "crashed"}, WriteStops(how)
      PROVE  files'[l][<<c>>] = files[l][<<c>>] \/ files'[l][<<c>>] \notin Responses
  BY <1>1, <1>4, WriteStopsFacts
<1> QED
  BY <1>2, <1>3, <1>4, FilesFrame

\* A written page fits: Recording, for the answer in hand.
LEMMA AnswerPage ==
  ASSUME FilesInv, Recording, WriteFile, ListPhase
  PROVE  /\ answer.id = NoId /\ InARow(Current, answer) /\ answer \in Responses
         /\ Current \in Lists /\ cursors[Current] \in Nat /\ cursors[Current] > 0
         /\ LengthAt(answer, cursors[Current]) \in Int
         /\ answer.items # <<>> =>
              Fits(Current, cursors[Current], LengthAt(answer, cursors[Current]))
<1>1. answer \in Responses /\ mode = "record" /\ exit = "running" /\ answer # None
  BY WriteFileFacts DEF WriteFile
<1>2. Current \in Lists /\ cursors[Current] \in Nat /\ cursors[Current] > 0
  BY Phases, Ranges DEF FilesInv
<1>3. LengthAt(answer, cursors[Current]) \in Int
  BY <1>1, <1>2, LengthType DEF FilesInv
<1> QED
  BY <1>1, <1>2, <1>3 DEF Recording, PageFits

LEMMA RowsStep ==
  ASSUME FilesInv, Rows, Recording, [Next]_vars
  PROVE  Rows'
<1>1. ASSUME NEW l \in Lists, NEW c \in 1..MaxPage, files'[l][<<c>>] \in Responses
      PROVE  /\ InARow(l, files'[l][<<c>>])
             /\ files'[l][<<c>>].items # <<>> => LengthAt(files'[l][<<c>>], c) <= listed'[l]
  <2>1. listed'[l] \in Nat /\ listed[l] \in Nat /\ listed[l] <= listed'[l]
    BY ListedGrows
  <2>2. CASE files'[l][<<c>>] = files[l][<<c>>]
    <3>1. InARow(l, files[l][<<c>>]) /\ (IsPage(l, c) => FileLength(l, c) <= listed[l])
      BY <1>1, <2>2 DEF Rows
    <3>2. IsPage(l, c) => FileLength(l, c) \in Int
      BY LengthType DEF FilesInv
    <3> QED
      BY <1>1, <2>1, <2>2, <3>1, <3>2 DEF IsPage, FileLength
  <2>3. CASE WriteFile /\ ListPhase /\ l = Current /\ c = cursors[Current]
             /\ files'[l][<<c>>] = answer
    <3>1. /\ InARow(Current, answer) /\ LengthAt(answer, cursors[Current]) \in Int
          /\ (answer.items # <<>> => LengthAt(answer, cursors[Current]) <= listed[Current])
      BY <2>3, AnswerPage DEF Fits
    <3> QED
      BY <2>1, <2>3, <3>1
  <2> QED
    BY <1>1, <2>2, <2>3, PageSteps
<1> QED
  BY <1>1 DEF Rows, IsPage, FileLength

LEMMA NewerStep ==
  ASSUME FilesInv, Newer, Recording, [Next]_vars
  PROVE  Newer'
<1>1. ASSUME NEW l \in Lists, NEW b \in 1..MaxPage, NEW c \in 1..MaxPage, b < c,
             files'[l][<<b>>] \in Responses, files'[l][<<b>>].items # <<>>,
             files'[l][<<c>>] \in Responses, files'[l][<<c>>].items # <<>>
      PROVE  LengthAt(files'[l][<<c>>], c) <= LengthAt(files'[l][<<b>>], b)
  <2> DEFINE Same(k) == files'[l][<<k>>] = files[l][<<k>>]
             New(k) == WriteFile /\ ListPhase /\ l = Current /\ k = cursors[Current]
                       /\ files'[l][<<k>>] = answer
  <2>1. (Same(b) \/ New(b)) /\ (Same(c) \/ New(c))
    BY <1>1, PageSteps
  <2>2. CASE Same(b) /\ Same(c)
    <3>1. IsPage(l, b) /\ IsPage(l, c)
      BY <1>1, <2>2 DEF IsPage
    <3> QED
      BY <1>1, <2>2, <3>1 DEF Newer, FileLength
  <2>3. CASE New(b) /\ Same(c)
    <3>1. IsPage(l, c)
      BY <1>1, <2>3 DEF IsPage
    <3>2. Fits(Current, cursors[Current], LengthAt(answer, cursors[Current]))
      BY <1>1, <2>3, AnswerPage
    <3>3. FileLength(l, c) <= LengthAt(answer, b)
      BY <1>1, <2>3, <3>1, <3>2 DEF Fits
    <3> QED
      BY <2>3, <3>3 DEF FileLength
  <2>4. CASE Same(b) /\ New(c)
    <3>1. IsPage(l, b)
      BY <1>1, <2>4 DEF IsPage
    <3>2. Fits(Current, cursors[Current], LengthAt(answer, cursors[Current]))
      BY <1>1, <2>4, AnswerPage
    <3>3. LengthAt(answer, c) <= FileLength(l, b)
      BY <1>1, <2>4, <3>1, <3>2 DEF Fits
    <3> QED
      BY <2>4, <3>3 DEF FileLength
  <2> QED
    BY <1>1, <2>1, <2>2, <2>3, <2>4
<1> QED
  BY <1>1 DEF Newer, IsPage, FileLength

\* Fits depends on the files and the lists only.
LEMMA FitsKept ==
  ASSUME FilesInv, [Next]_vars, files' = files,
         NEW l \in Lists, NEW c \in Nat, NEW length \in Int, Fits(l, c, length)
  PROVE  Fits(l, c, length)'
<1>1. length <= listed'[l]
  BY ListedGrows DEF Fits
<1>2. \A b \in 1..MaxPage : (IsPage(l, b)' <=> IsPage(l, b)) /\ FileLength(l, b)' = FileLength(l, b)
  BY DEF IsPage, FileLength
<1> QED
  BY <1>1, <1>2 DEF Fits

LEMMA CursorType ==
  ASSUME FilesInv
  PROVE  /\ Current \in Lists /\ cursors[Current] \in Nat /\ cursors[Current] > 0
         /\ (cursors[Current] - 1) * PageSize \in Int
         /\ cursors[Current] * PageSize = (cursors[Current] - 1) * PageSize + PageSize
         /\ after + (cursors[Current] - 1) * PageSize \in Int
<1>1. Current \in Lists /\ cursors[Current] \in Nat /\ cursors[Current] > 0 /\ after \in Nat
  BY Phases, Ranges DEF FilesInv
<1>2. cursors[Current] \in Int
  BY <1>1
<1>3. (cursors[Current] - 1) * PageSize \in Int
      /\ cursors[Current] * PageSize = (cursors[Current] - 1) * PageSize + PageSize
  BY <1>2, Multiples, Zenon
<1> QED
  BY <1>1, <1>3

LEMMA CursorFitsKept ==
  ASSUME FilesInv, [Next]_vars, CursorFits, UNCHANGED <<files, list, after, cursors>>
  PROVE  CursorFits'
<1>1. PICK l, c, n : /\ l = Current /\ c = cursors[Current]
                     /\ n = after + (cursors[Current] - 1) * PageSize
  OBVIOUS
<1>2. /\ l = Current' /\ c = cursors'[Current']
      /\ n = after' + (cursors'[Current'] - 1) * PageSize
  BY <1>1 DEF Current
<1>3. l \in Lists /\ c \in Nat /\ n \in Int
  BY <1>1, CursorType
<1>4. after # NoCursor => Fits(l, c, n)
  BY <1>1 DEF CursorFits
<1>5. after # NoCursor => Fits(l, c, n)'
  BY <1>3, <1>4, FitsKept
<1> QED
  BY <1>2, <1>5 DEF CursorFits

LEMMA PageFitsKept ==
  ASSUME FilesInv, [Next]_vars, PageFits, UNCHANGED <<files, list, answer, cursors>>
  PROVE  PageFits'
<1>1. CASE answer = None
  BY <1>1 DEF PageFits
<1>2. CASE answer # None
  <2>1. PICK l, c, n : /\ l = Current /\ c = cursors[Current]
                       /\ n = LengthAt(answer, cursors[Current])
    OBVIOUS
  <2>2. /\ l = Current' /\ c = cursors'[Current']
        /\ n = LengthAt(answer, cursors[Current])'
    BY <2>1 DEF Current, LengthAt
  <2>3. l \in Lists /\ c \in Nat /\ n \in Int
    BY <1>2, <2>1, CursorType, LengthType DEF FilesInv, Typing
  <2>4. /\ answer.id = NoId /\ InARow(l, answer)
        /\ (answer.items # <<>> => Fits(l, c, n))
    BY <1>2, <2>1 DEF PageFits
  <2>5. answer.items # <<>> => Fits(l, c, n)'
    BY <2>3, <2>4, FitsKept
  <2>6. InARow(l, answer)'
    BY <2>4 DEF InARow
  <2> QED
    BY <2>2, <2>4, <2>5, <2>6 DEF PageFits
<1> QED
  BY <1>1, <1>2

\* The page the server sends fits.
LEMMA ServedFits ==
  ASSUME FilesInv, Rows, CursorFits, Answer, [Next]_vars, ListPhase
  PROVE  PageFits'
<1>1. /\ mode = "record" /\ exit = "running" /\ todo # <<>> /\ answer' = Served
      /\ UNCHANGED <<listed, files, list, cursors, after>>
  BY DEF Answer, Receives, Asking
<1>2. PICK l, c, n : l = Current /\ c = cursors[Current] /\ n = LengthAt(Served, cursors[Current])
  OBVIOUS
<1>3. l = Current' /\ c = cursors'[Current'] /\ n = LengthAt(answer, cursors[Current])'
  BY <1>1, <1>2 DEF Current, LengthAt
<1>4. /\ Served \in Responses /\ Served.id = NoId /\ InARow(l, Served)
      /\ From \in Nat /\ Served.after + Len(Served.items) = From
      /\ l \in Lists /\ c \in Nat /\ c > 0 /\ (c - 1) * PageSize \in Int
  BY <1>1, <1>2, ServedFacts, Phases, CursorType DEF FilesInv
<1>5. n = From + (c - 1) * PageSize /\ n \in Int
  BY <1>2, <1>4 DEF LengthAt
<1>6. Fits(l, c, n)
  <2>1. CASE after # NoCursor
    BY <1>2, <1>5, <2>1 DEF CursorFits, From
  <2>2. CASE after = NoCursor
    <3>1. c = 1 /\ From = listed[l]
      BY <1>1, <1>2, <2>2 DEF From, FilesInv, Paging
    <3>2. (c - 1) * PageSize = 0
      BY <3>1, Constants
    <3>3. n = listed[l] /\ listed[l] \in Nat
      BY <1>4, <1>5, <3>1, <3>2, Ranges DEF FilesInv
    <3>4. \A b \in 1..MaxPage : IsPage(l, b) => FileLength(l, b) <= listed[l]
      BY <1>4 DEF Rows
    <3> QED
      BY <3>1, <3>3, <3>4 DEF Fits
  <2> QED
    BY <2>1, <2>2
<1>7. Fits(l, c, n)'
  BY <1>1, <1>4, <1>5, <1>6, FitsKept
<1>8. InARow(l, answer)'
  BY <1>1, <1>4 DEF InARow
<1> QED
  BY <1>1, <1>3, <1>4, <1>7, <1>8 DEF PageFits

\* The page after a page that was written fits.
LEMMA NextFits ==
  ASSUME FilesInv, Recording, WriteFile, [Next]_vars, ListPhase'
  PROVE  CursorFits'
<1>1. answer \in Responses /\ Return(answer) /\ todo # <<>> /\ exit = "running"
      /\ UNCHANGED <<listed>>
  BY WriteFileFacts
<1>2. ListPhase /\ answer.after # NoCursor
  BY <1>1, ListEnds
<1>3. /\ answer.id = NoId /\ InARow(Current, answer)
      /\ (answer.items # <<>> =>
            Fits(Current, cursors[Current], LengthAt(answer, cursors[Current])))
  BY <1>2, AnswerPage
<1>4. Current' = Current /\ after' = answer.after /\ cursors'[Current] = cursors[Current] + 1
  <2>1. Dir = Current
    BY <1>2, Phases DEF FilesInv
  <2> QED
    BY <1>1, <1>2, <1>3, <2>1, PageTurns, WriteFileFacts
<1>5. PICK l, c, n : /\ l = Current /\ c = cursors[Current] /\ n = LengthAt(answer, c)
                     /\ n = answer.after + Len(answer.items) + (c - 1) * PageSize
  BY DEF LengthAt
<1>6. /\ l \in Lists /\ c \in Nat /\ c > 0 /\ (c - 1) * PageSize \in Int
      /\ c * PageSize = (c - 1) * PageSize + PageSize
      /\ answer.after \in Nat /\ Len(answer.items) \in Nat
      /\ PageSize \in Nat /\ PageSize > 0
  BY <1>1, <1>5, CursorType, ResponseParts, Constants
<1>7. Len(answer.items) = PageSize /\ answer.items # <<>>
  BY <1>2, <1>3, <1>6 DEF InARow
<1>8. n = answer.after + c * PageSize /\ n \in Int
  <2>1. PICK a, p, q, s : /\ a = answer.after /\ s = PageSize
                          /\ p = (c - 1) * PageSize /\ q = c * PageSize
    OBVIOUS
  <2>2. a \in Nat /\ s \in Nat /\ p \in Int /\ q = p + s
    BY <1>6, <2>1
  <2>3. n = a + s + p
    BY <1>5, <1>7, <2>1
  <2>4. n = a + q /\ n \in Int
    BY <2>2, <2>3
  <2> QED
    BY <2>1, <2>4
<1>9. Fits(l, c, n)
  BY <1>3, <1>5, <1>7
<1>10. n <= listed'[l]
  BY <1>1, <1>9 DEF Fits
<1>11. ASSUME NEW b \in 1..MaxPage, IsPage(l, b)'
       PROVE  IF b < c + 1 THEN n <= FileLength(l, b)' ELSE FileLength(l, b)' <= n
  <2>1. files'[l][<<b>>] \in Responses /\ files'[l][<<b>>].items # <<>>
    BY <1>11 DEF IsPage
  <2>2. CASE b = c
    <3>1. files'[l][<<c>>] = answer
      BY <1>2, <1>3, <1>5, PageWritten
    <3>2. FileLength(l, b)' = n
      BY <1>5, <2>2, <3>1 DEF FileLength, LengthAt
    <3> QED
      BY <1>6, <1>8, <2>2, <3>2
  <2>3. CASE b # c
    <3>1. files'[l][<<b>>] = files[l][<<b>>]
      BY <1>5, <1>6, <2>3, PageWritten
    <3>2. IsPage(l, b) /\ FileLength(l, b)' = FileLength(l, b)
      BY <2>1, <3>1 DEF IsPage, FileLength
    <3>3. IF b < c THEN n <= FileLength(l, b) ELSE FileLength(l, b) <= n
      BY <1>9, <3>2 DEF Fits
    <3> QED
      BY <1>6, <2>3, <3>2, <3>3
  <2> QED
    BY <2>2, <2>3
<1>12. Fits(l, c + 1, n)'
  BY <1>10, <1>11 DEF Fits
<1>13. n = after' + (cursors'[Current'] - 1) * PageSize /\ l = Current' /\ c + 1 = cursors'[Current']
  <2>1. c + 1 = cursors'[Current'] /\ l = Current'
    BY <1>4, <1>5
  <2>2. cursors'[Current'] - 1 = c
    BY <1>6, <2>1
  <2> QED
    BY <1>4, <1>8, <2>1, <2>2
<1> QED
  BY <1>12, <1>13 DEF CursorFits

LEMMA RecordingStep ==
  ASSUME FilesInv, Rows, Recording, ~resent', [Next]_vars
  PROVE  Recording'
<1>1. CASE ~(mode' = "record" /\ exit' = "running" /\ ListPhase')
  BY <1>1 DEF Recording
<1>2. CASE mode' = "record" /\ exit' = "running" /\ ListPhase'
  <2>1. ASSUME Publish \/ UNCHANGED vars PROVE Recording'
    <3>1. UNCHANGED <<files, mode, exit, list, after, todo, cursors, answer>>
      BY <2>1 DEF Publish, vars, run, history
    <3>2. CursorFits /\ PageFits
      BY <1>2, <3>1 DEF Recording, ListPhase
    <3> QED
      BY <3>1, <3>2, CursorFitsKept, PageFitsKept DEF Recording
  <2>2. ASSUME NEW m \in {"record", "replay"}, Begin(m) PROVE Recording'
    BY <2>2 DEF Begin, Recording, CursorFits, PageFits
  <2>3. ASSUME Answer PROVE Recording'
    <3>1. UNCHANGED <<files, mode, exit, list, after, todo, cursors>>
      BY <2>3 DEF Answer, Receives
    <3>2. ListPhase /\ CursorFits
      BY <1>2, <3>1 DEF Recording, ListPhase
    <3> QED
      BY <2>3, <3>1, <3>2, CursorFitsKept, ServedFits DEF Recording
  <2>4. ASSUME OddAnswer PROVE Recording'
    <3>1. UNCHANGED <<files, mode, exit, list, after, todo, cursors>>
      BY <2>4 DEF OddAnswer, Receives
    <3>2. CursorFits
      BY <1>2, <3>1 DEF Recording, ListPhase
    <3>3. answer' = AuthError
      BY <2>4, OddAnswerFits
    <3>4. PageFits'
      BY <3>3 DEF PageFits, AuthError, Page, InARow
    <3> QED
      BY <3>1, <3>2, <3>4, CursorFitsKept DEF Recording
  <2>5. ASSUME WriteFile PROVE Recording'
    <3>1. answer' = None
      BY <2>5, WriteFileFacts, Returned DEF FilesInv
    <3> QED
      BY <1>2, <2>5, <3>1, NextFits DEF Recording, PageFits
  <2>6. ASSUME ReadFile PROVE FALSE
    BY <1>2, <2>6, ReadFileFacts
  <2>7. ASSUME Skip \/ SkipRefused PROVE FALSE
    BY <1>2, <2>7, Passing DEF FilesInv
  <2>8. ASSUME NextList PROVE Recording'
    <3>1. after' = NoCursor /\ answer' = answer /\ todo = <<>> /\ exit = "running"
      BY <2>8 DEF NextList
    <3>2. answer = None
      BY <3>1 DEF FilesInv, Answering
    <3> QED
      BY <3>1, <3>2 DEF Recording, CursorFits, PageFits
  <2>9. ASSUME \/ ReadFails \/ Finish \/ RunEnds \/ RefusalEnds
               \/ \E how \in {"failed", "crashed"} : WriteStops(how)
        PROVE  FALSE
    BY <1>2, <2>9 DEF ReadFails, Finish, RunEnds, RefusalEnds, WriteStops, Ended
  <2> QED
    BY <2>1, <2>2, <2>3, <2>4, <2>5, <2>6, <2>7, <2>8, <2>9, Steps DEF StartRecord, StartReplay
<1> QED
  BY <1>1, <1>2

\* A row of items, after those of the pages before.
LEMMA RowFollows ==
  ASSUME NEW q \in Seq(Item), NEW l \in Lists, NEW p \in Responses, InARow(l, p),
         \A j, k \in 1..Len(q) : j < k => q[j][2] > q[k][2],
         \A j \in 1..Len(q) : q[j][2] \in Int /\ q[j][2] > p.after
                              /\ (p.items # <<>> => q[j][2] > p.after + Len(p.items))
  PROVE  /\ \A j, k \in 1..Len(q \o p.items) :
              j < k => (q \o p.items)[j][2] > (q \o p.items)[k][2]
         /\ \A j \in 1..Len(q \o p.items) : (q \o p.items)[j][2] > p.after
<1> DEFINE r == p.items
           w == q \o r
<1>1. r \in Seq(Item) /\ p.after \in Nat /\ Len(r) \in Nat /\ Len(q) \in Nat
  BY ResponseParts
<1>2. /\ Len(w) = Len(q) + Len(r)
      /\ \A k \in 1..Len(q) : w[k] = q[k]
      /\ \A k \in 1..Len(w) : k > Len(q) => k - Len(q) \in 1..Len(r) /\ w[k] = r[k - Len(q)]
  BY <1>1, ConcatAt
<1>3. \A k \in 1..Len(r) : r[k] = <<l, p.after + Len(r) - k + 1>>
  BY DEF InARow
<1> HIDE DEF w, r
<1>4. \A k \in 1..Len(r) : r[k][2] = p.after + Len(r) - k + 1
  BY <1>3
<1>5. \A k \in 1..Len(w) : k > Len(q) => w[k][2] = p.after + Len(r) - (k - Len(q)) + 1
  BY <1>2, <1>4
<1>6. ASSUME NEW j \in 1..Len(w)
      PROVE  w[j][2] > p.after
  <2>1. CASE j \in 1..Len(q)
    BY <1>2, <2>1
  <2>2. CASE j > Len(q)
    BY <1>1, <1>2, <1>5, <1>6, <2>2
  <2> QED
    BY <1>1, <1>2, <2>1, <2>2
<1>7. ASSUME NEW j \in 1..Len(w), NEW k \in 1..Len(w), j < k
      PROVE  w[j][2] > w[k][2]
  <2>1. CASE k \in 1..Len(q)
    <3>1. j \in 1..Len(q)
      BY <1>1, <1>7, <2>1
    <3> QED
      BY <1>2, <1>7, <2>1, <3>1
  <2>2. CASE k > Len(q)
    <3>1. w[k][2] = p.after + Len(r) - (k - Len(q)) + 1 /\ k - Len(q) \in 1..Len(r)
      BY <1>2, <1>5, <2>2
    <3>2. CASE j \in 1..Len(q)
      <4>1. r # <<>>
        BY <3>1
      <4>2. w[j][2] \in Int /\ w[j][2] > p.after + Len(r)
        BY <1>2, <3>2, <4>1 DEF r
      <4> QED
        BY <1>1, <3>1, <4>2
    <3>3. CASE j > Len(q)
      BY <1>1, <1>5, <1>7, <3>1, <3>3
    <3> QED
      BY <1>1, <3>2, <3>3
  <2> QED
    BY <1>1, <1>2, <2>1, <2>2
<1> QED
  BY <1>6, <1>7 DEF w, r

LEMMA ItemNumbers ==
  ASSUME NEW i \in Item
  PROVE  i[2] \in Nat
<1>1. PICK l \in Lists : \E k \in 1..Longest[l] : i = <<l, k>>
  BY DEF Item
<1>2. PICK k \in 1..Longest[l] : i = <<l, k>>
  BY <1>1
<1> QED
  BY <1>2, Constants

LEMMA ReplayStep ==
  ASSUME FilesInv, Rows, Newer, Replay, [Next]_vars
  PROVE  Replay'
<1>1. CASE mode' # "replay"
  BY <1>1 DEF Replay
<1>2. CASE mode' = "replay"
  <2>1. ASSUME \/ Publish \/ ReadFails \/ Finish \/ RunEnds \/ RefusalEnds
               \/ UNCHANGED vars
        PROVE  Replay'
    <3>1. /\ UNCHANGED <<files, mode, list, after, items, todo, cursors>>
          /\ exit' = "running" => exit = "running"
      BY <2>1 DEF Publish, ReadFails, Finish, RunEnds, RefusalEnds, Refuses, Fault, Ended, vars, run
    <3> QED
      BY <1>2, <3>1 DEF Replay, Descends, ListPhase, Current
  <2>2. ASSUME NEW m \in {"record", "replay"}, Begin(m) PROVE Replay'
    BY <2>2 DEF Begin, Replay, Descends
  <2>3. ASSUME \/ Answer \/ OddAnswer \/ WriteFile \/ SkipRefused
               \/ \E how \in {"failed", "crashed"} : WriteStops(how)
        PROVE  FALSE
    BY <1>2, <2>3, WriteFileFacts, WriteStopsFacts DEF Answer, OddAnswer, Receives, SkipRefused, Refuses
  <2>4. ASSUME Skip PROVE Replay'
    <3>1. ~ListPhase /\ todo # <<>> /\ todo' = Tail(todo)
          /\ UNCHANGED <<mode, items>>
      BY <2>4, Phases DEF Skip, FilesInv, WithoutDetails
    <3>2. todo' \in Seq(Item)
      BY <3>1, Phases DEF FilesInv
    <3>3. ~ListPhase'
      BY <3>2, Identities DEF ListPhase
    <3> QED
      BY <1>2, <3>1, <3>3 DEF Replay, Descends
  <2>5. ASSUME NextList PROVE Replay'
    BY <2>5 DEF NextList, Replay, Descends
  <2>6. ASSUME ReadFile PROVE Replay'
    <3>1. /\ Found \in Responses /\ Return(Found) /\ todo # <<>> /\ mode = "replay"
          /\ exit = "running" /\ UNCHANGED files
      BY <2>6, ReadFileFacts
    <3>2. Descends
      BY <3>1 DEF Replay
    <3>3. CASE ~ListPhase
      <4>1. ~ListPhase'
        BY <3>1, <3>3, ListEnds
      <4>2. items' = items
        BY <3>1, <3>3, Returned DEF FilesInv
      <4> QED
        BY <3>2, <4>1, <4>2 DEF Replay, Descends
    <3>4. CASE ListPhase
      <4>1. PICK l, c, p, q : l = Current /\ c = cursors[Current] /\ p = Found /\ q = items
        OBVIOUS
      <4>2. /\ p = files[l][<<c>>] /\ c \in 1..MaxPage /\ l \in Lists /\ Dir = l
            /\ p \in Responses /\ q \in Seq(Item) /\ after \in Nat /\ PageSize \in Nat
        BY <2>6, <3>1, <3>4, <4>1, Reading, Phases, Ranges, Constants
           DEF ReadFile, Found, FilesInv
      <4>3. items' = q \o p.items /\ after' = p.after
        BY <3>1, <3>4, <4>1, Returned DEF FilesInv
      <4>4. InARow(l, p)
        BY <4>2 DEF Rows
      <4>5. /\ \A j, k \in 1..Len(q) : j < k => q[j][2] > q[k][2]
            /\ \A j \in 1..Len(q) : q[j][2] \in Int
        BY <3>2, <4>1, <4>2, ItemNumbers DEF Descends
      <4>6. ASSUME NEW j \in 1..Len(q)
            PROVE  q[j][2] > p.after /\ (p.items # <<>> => q[j][2] > p.after + Len(p.items))
        <5>1. after # NoCursor /\ c > 1
          <6>1. q # <<>>
            BY <4>6
          <6> QED
            BY <3>1, <3>4, <4>1, <6>1 DEF FilesInv, Paging
        <5>2. PICK o : o = files[l][<<c - 1>>]
          OBVIOUS
        <5>3. o \in Responses /\ o.after = after /\ q[j][2] > after
          BY <3>1, <3>4, <4>1, <5>1, <5>2 DEF Replay
        <5>4. c - 1 \in 1..MaxPage /\ c \in Nat
          BY <4>2, <5>1, Constants
        <5>5. Len(o.items) = PageSize /\ o.items # <<>>
          <6>1. Len(o.items) = PageSize
            BY <4>2, <5>1, <5>2, <5>3, <5>4 DEF Rows, InARow
          <6> QED
            BY <6>1, Constants
        <5>6. CASE p.items = <<>>
          <6>1. p.after = NoCursor
            BY <4>4, <5>6, Constants DEF InARow
          <6> QED
            BY <4>2, <4>5, <5>3, <5>6, <6>1 DEF NoCursor
        <5>7. CASE p.items # <<>>
          <6>1. FileLength(l, c) <= FileLength(l, c - 1)
            BY <4>2, <5>2, <5>3, <5>4, <5>5, <5>7 DEF Newer, IsPage
          <6>2. /\ FileLength(l, c) = p.after + Len(p.items) + (c - 1) * PageSize
                /\ FileLength(l, c - 1) = after + PageSize + ((c - 1) - 1) * PageSize
            BY <4>2, <5>2, <5>3, <5>5 DEF FileLength, LengthAt
          <6>3. /\ ((c - 1) - 1) * PageSize \in Int
                /\ (c - 1) * PageSize = ((c - 1) - 1) * PageSize + PageSize
            <7>1. c - 1 \in Int
              BY <5>4
            <7> QED
              BY <7>1, Multiples, Zenon
          <6>4. p.after \in Nat /\ Len(p.items) \in Nat
            BY <4>2, ResponseParts
          <6>5. p.after + Len(p.items) <= after
            <7>1. PICK x \in Int : x = ((c - 1) - 1) * PageSize
              BY <6>3
            <7>2. (c - 1) * PageSize = x + PageSize
              BY <6>3, <7>1
            <7>3. p.after + Len(p.items) + (x + PageSize) <= after + PageSize + x
              BY <6>1, <6>2, <7>1, <7>2
            <7>4. \A a, n, f, s \in Nat : a + n + (x + s) <= f + s + x => a + n <= f
              OBVIOUS
            <7>5. after \in Nat /\ PageSize \in Nat
              BY <4>2
            <7> QED
              BY <6>4, <7>3, <7>4, <7>5
          <6>6. PICK v \in Int : v = q[j][2]
            BY <4>5
          <6>7. \A a, n, f \in Nat : v > f /\ a + n <= f => v > a /\ v > a + n
            OBVIOUS
          <6>8. after \in Nat /\ v > after
            BY <4>2, <5>3, <6>6
          <6> QED
            BY <6>4, <6>5, <6>6, <6>7, <6>8
        <5> QED
          BY <5>6, <5>7
      <4>7. /\ \A j, k \in 1..Len(items') : j < k => items'[j][2] > items'[k][2]
            /\ \A j \in 1..Len(items') : items'[j][2] > after'
        BY <4>2, <4>3, <4>4, <4>5, <4>6, RowFollows
      <4>8. Current' = l /\ cursors'[l] = c + 1
        BY <2>6, <3>1, <3>4, <4>1, <4>2, ReadFileFacts, Returned DEF FilesInv, Current
      <4>9. files'[Current'][<<cursors'[Current'] - 1>>] = p
        <5>1. cursors'[Current'] - 1 = c
          BY <4>2, <4>8
        <5> QED
          BY <3>1, <4>2, <4>8, <5>1
      <4> QED
        BY <4>2, <4>3, <4>7, <4>9 DEF Replay, Descends
    <3> QED
      BY <3>3, <3>4
  <2> QED
    BY <1>2, <2>1, <2>2, <2>3, <2>4, <2>5, <2>6, Steps DEF StartRecord, StartReplay
<1> QED
  BY <1>1, <1>2

LEMMA OrderInit == Init => OrderInv
<1> SUFFICES ASSUME Init PROVE OrderInv
  OBVIOUS
<1>1. \A l \in Lists : \A c \in 1..MaxPage : files[l][<<c>>] \notin Responses
  <2>1. \A l \in Lists : \A c \in 1..MaxPage : files[l][<<c>>] = Absent
    BY Identities, Constants DEF Init
  <2> QED
    BY <2>1, ResponseParts
<1>2. Rows /\ Newer
  BY <1>1 DEF Rows, Newer, IsPage
<1>3. Recording /\ Replay
  BY DEF Init, Recording, Replay
<1> QED
  BY <1>2, <1>3 DEF OrderInv

LEMMA OrderInvariant == Spec => []OrderInv
<1>1. FilesInv /\ OrderInv /\ [Next]_vars => OrderInv'
  BY ResentStays, RowsStep, NewerStep, RecordingStep, ReplayStep DEF OrderInv
<1> QED
  BY <1>1, OrderInit, FilesInvariant, PTL DEF Spec

\* Whatever runs the files are left from, a replay takes details only for the item they
\* are of, and lists each item at most once, newest first, unless a recording was sent a
\* page twice.
THEOREM ReplaysAreSound == Spec => []ReplaySound
<1>1. FilesInv /\ OrderInv => ReplaySound
  <2> SUFFICES ASSUME FilesInv, OrderInv, mode = "replay"
               PROVE  /\ \A k \in DOMAIN result :
                           result[k].asked # NoId => result[k].got.id = result[k].asked
                      /\ ~resent => \A j, k \in DOMAIN items : j < k => items[j][2] > items[k][2]
    BY DEF ReplaySound
  <2>1. DOMAIN result = 1..Len(result) /\ DOMAIN items = 1..Len(items)
    <3>1. result \in Seq(Reads) /\ items \in Seq(Item)
      BY DEF FilesInv, Typing
    <3> QED
      BY <3>1
  <2> QED
    BY <2>1 DEF FilesInv, OwnDetails, OrderInv, Replay, Descends
<1> QED
  BY <1>1, FilesInvariant, OrderInvariant, PTL

(***************************************************************************)
(* RecordingInv holds.                                                     *)
(***************************************************************************)
\* The control of the run that is on, in terms of the model.
LEMMA ControlFacts ==
  ASSUME FilesInv
  PROVE  /\ Control \in Controls /\ Control.reads = Len(result) /\ Control.cursors = cursors
         /\ AsksPage(Control) <=> ListPhase
         /\ PassesOver(Control) <=> WithoutDetails
         /\ Asks(Control) <=> todo # <<>> /\ ~WithoutDetails
         /\ DirOf(Control) = Dir /\ NameOf(Control) = Wanted /\ Head(Control.todo) = Asked
         /\ Ends(Control) <=> todo = <<>> /\ list = Len(Timelines)
<1>1. /\ Control.list = list /\ Control.todo = todo /\ Control.after = after
      /\ Control.items = items /\ Control.cursors = cursors /\ Control.reads = Len(result)
  BY DEF Control
<1>2. Control \in Controls
  <2>1. /\ list \in 1..Len(Timelines) /\ todo \in Seq(Item) \cup {<<NoId>>} /\ after \in Nat
        /\ items \in Seq(Item) /\ Len(result) \in Nat
    BY Ranges DEF FilesInv, Typing
  <2>2. cursors \in [Dirs -> Nat \ {0}]
    <3>1. cursors \in [Dirs -> 1..MaxPage + 1] /\ MaxPage \in Nat
      BY Constants DEF FilesInv, Typing
    <3>2. \A k \in 1..MaxPage + 1 : k \in Nat \ {0}
      BY <3>1
    <3> QED
      BY <3>1, <3>2
  <2> QED
    BY <2>1, <2>2 DEF Controls, Control
<1>3. AsksPage(Control) <=> ListPhase
  BY <1>1 DEF AsksPage, ListPhase
<1>4. PassesOver(Control) <=> WithoutDetails
  BY <1>1 DEF PassesOver, WithoutDetails
<1>5. Asks(Control) <=> todo # <<>> /\ ~WithoutDetails
  BY <1>1, <1>4 DEF Asks
<1>6. DirOf(Control) = Dir
  BY <1>1, <1>3 DEF DirOf, Dir, Current
<1>7. NameOf(Control) = Wanted /\ Head(Control.todo) = Asked
  BY <1>1, <1>3, <1>6 DEF NameOf, Wanted, Asked
<1>8. Ends(Control) <=> todo = <<>> /\ list = Len(Timelines)
  BY <1>1 DEF Ends
<1> QED
  BY <1>1, <1>2, <1>3, <1>4, <1>5, <1>6, <1>7, <1>8

LEMMA ReadMoves ==
  ASSUME FilesInv, todo # <<>>, NEW got \in Responses, Return(got),
         ListPhase => cursors' = [cursors EXCEPT ![Dir] = @ + 1],
         ~ListPhase => cursors' = cursors
  PROVE  Control' = AfterRead(Control, got)
<1>1. /\ list' = list /\ Len(result') = Len(result) + 1
      /\ ListPhase => items' = items \o got.items /\ after' = got.after
      /\ ListPhase /\ got.after = NoCursor => todo' = Reverse(items')
      /\ ListPhase /\ got.after # NoCursor => todo' = todo
      /\ ~ListPhase => items' = items /\ after' = after /\ todo' = Tail(todo)
  BY Returned DEF FilesInv
<1>2. /\ Control.list = list /\ Control.todo = todo /\ Control.after = after
      /\ Control.items = items /\ Control.cursors = cursors /\ Control.reads = Len(result)
  BY DEF Control
<1>3. (AsksPage(Control) <=> ListPhase) /\ DirOf(Control) = Dir
  BY ControlFacts
<1>4. Control' = [list |-> list', todo |-> todo', after |-> after', items |-> items',
                  cursors |-> cursors', reads |-> Len(result')]
  BY DEF Control
<1>5. CASE ListPhase
  <2>1. todo' = IF got.after = NoCursor THEN Reverse(items \o got.items) ELSE todo
    BY <1>1, <1>5
  <2>2. Control' = AfterPage(Control, got)
    BY <1>1, <1>2, <1>3, <1>4, <1>5, <2>1 DEF AfterPage
  <2> QED
    BY <1>3, <1>5, <2>2 DEF AfterRead
<1>6. CASE ~ListPhase
  <2>1. Control' = AfterDetails(Control)
    BY <1>1, <1>2, <1>4, <1>6 DEF AfterDetails
  <2> QED
    BY <1>3, <1>6, <2>1 DEF AfterRead
<1> QED
  BY <1>5, <1>6

LEMMA SilentMoves ==
  ASSUME FilesInv, Skip \/ NextList, NEW read
  PROVE  /\ Goes(Control, Control', read) /\ ~Asks(Control) /\ ~Ends(Control)
         /\ Control' = IF PassesOver(Control) THEN AfterItem(Control) ELSE AfterList(Control)
         /\ UNCHANGED <<files, result, cursors, mode, exit, tape, strange>>
<1>1. /\ Control.list = list /\ Control.todo = todo /\ Control.after = after
      /\ Control.items = items /\ Control.cursors = cursors /\ Control.reads = Len(result)
  BY DEF Control
<1>2. Control' = [list |-> list', todo |-> todo', after |-> after', items |-> items',
                  cursors |-> cursors', reads |-> Len(result')]
  BY DEF Control
<1>3. CASE Skip
  <2>1. /\ WithoutDetails /\ todo # <<>> /\ todo' = Tail(todo)
        /\ UNCHANGED <<list, after, items, files, result, cursors, mode, exit, tape, strange>>
    BY <1>3 DEF Skip, WithoutDetails, history
  <2>2. Control' = AfterItem(Control)
    BY <1>1, <1>2, <2>1 DEF AfterItem
  <2> QED
    BY <2>1, <2>2, ControlFacts DEF Goes
<1>4. CASE NextList
  <2>1. /\ todo = <<>> /\ list < Len(Timelines) /\ list' = list + 1 /\ todo' = <<NoId>>
        /\ after' = NoCursor /\ items' = <<>>
        /\ UNCHANGED <<files, result, cursors, mode, exit, tape, strange>>
    BY <1>4 DEF NextList, history
  <2>2. Control' = AfterList(Control)
    BY <1>1, <1>2, <2>1 DEF AfterList
  <2>3. ~PassesOver(Control) /\ ~Asks(Control)
    BY <1>1, <2>1 DEF PassesOver, Asks
  <2>4. list # Len(Timelines)
    <3>1. list \in 1..Len(Timelines) /\ Len(Timelines) \in Nat
      BY Constants DEF FilesInv, Typing
    <3> QED
      BY <2>1, <3>1
  <2> QED
    BY <1>1, <2>1, <2>2, <2>3, <2>4, ControlFacts DEF Goes
<1> QED
  BY <1>3, <1>4

\* A trail goes on with the next control state, whatever more is read.
LEMMA TrailGrows ==
  ASSUME NEW S \in Seq(Controls), NEW read \in Seq(Reads), NEW more \in Seq(Reads),
         NEW d \in Controls, Trail(S, read),
         Len(read) <= Len(more), \A k \in 1..Len(read) : more[k] = read[k],
         Goes(S[Len(S)], d, more), d.reads <= Len(more)
  PROVE  /\ Append(S, d) \in Seq(Controls) /\ Trail(Append(S, d), more)
         /\ Len(S) \in Nat /\ Len(S) > 0 /\ Len(Append(S, d)) = Len(S) + 1
         /\ Append(S, d)[Len(S) + 1] = d
         /\ \A j \in 1..Len(S) : Append(S, d)[j] = S[j]
<1> DEFINE U == Append(S, d)
<1>1. /\ U \in Seq(Controls) /\ Len(S) \in Nat /\ Len(U) = Len(S) + 1
      /\ U[Len(S) + 1] = d /\ \A j \in 1..Len(S) : U[j] = S[j]
  OBVIOUS
<1>2. Len(S) > 0
  BY DEF Trail
<1> HIDE DEF U
<1>3. U # <<>> /\ U[1] = Start
  BY <1>1, <1>2 DEF Trail
<1>4. \A j \in 1..Len(S) : S[j] \in Controls /\ S[j].reads \in Nat
  <2>1. \A j \in 1..Len(S) : S[j] \in Controls
    OBVIOUS
  <2>2. \A c \in Controls : c.reads \in Nat
    BY DEF Controls
  <2> QED
    BY <2>1, <2>2
<1>5. ASSUME NEW j \in 1..Len(U)
      PROVE  U[j].reads <= Len(more)
  <2>1. CASE j = Len(S) + 1
    BY <1>1, <2>1
  <2>2. CASE j \in 1..Len(S)
    <3>1. U[j].reads <= Len(read) /\ U[j].reads \in Nat
      BY <1>1, <1>4, <2>2 DEF Trail
    <3> QED
      BY <3>1
  <2> QED
    BY <1>1, <2>1, <2>2
<1>6. ASSUME NEW j \in 1..Len(U) - 1
      PROVE  Goes(U[j], U[j + 1], more)
  <2>1. CASE j = Len(S)
    BY <1>1, <1>2, <2>1
  <2>2. CASE j \in 1..Len(S) - 1
    <3>1. U[j] = S[j] /\ U[j + 1] = S[j + 1]
      BY <1>1, <2>2
    <3>2. Goes(S[j], S[j + 1], read) /\ S[j].reads \in Nat
      BY <1>4, <2>2 DEF Trail
    <3>3. ASSUME S[j].reads + 1 <= Len(read)
          PROVE  S[j].reads + 1 <= Len(more) /\ more[S[j].reads + 1] = read[S[j].reads + 1]
      <4>1. S[j].reads + 1 \in 1..Len(read)
        BY <3>2, <3>3
      <4> QED
        BY <4>1
    <3>4. Goes(S[j], S[j + 1], more)
      BY <3>2, <3>3 DEF Goes
    <3> QED
      BY <3>1, <3>4
  <2> QED
    BY <1>1, <2>1, <2>2
<1> QED
  BY <1>1, <1>2, <1>3, <1>5, <1>6 DEF U, Trail

LEMMA NextControl ==
  ASSUME Typing'
  PROVE  Control' \in Controls
<1>1. /\ list' \in 1..Len(Timelines) /\ todo' \in Seq(Item) \cup {<<NoId>>} /\ after' \in Nat
      /\ items' \in Seq(Item) /\ result' \in Seq(Reads)
  BY DEF Typing
<1>2. cursors' \in [Dirs -> Nat \ {0}]
  <2>1. cursors' \in [Dirs -> 1..MaxPage + 1] /\ MaxPage \in Nat
    BY Constants DEF Typing
  <2>2. \A k \in 1..MaxPage + 1 : k \in Nat \ {0}
    BY <2>1
  <2> QED
    BY <2>1, <2>2
<1>3. Len(result') \in Nat
  BY <1>1
<1>4. Control' = [list |-> list', todo |-> todo', after |-> after', items |-> items',
                  cursors |-> cursors', reads |-> Len(result')]
  BY DEF Control
<1> QED
  BY <1>1, <1>2, <1>3, <1>4 DEF Controls

\* Where a control state reads, and what it read.
LEMMA AskedBefore ==
  ASSUME NEW S \in Seq(Controls), NEW read \in Seq(Reads), Trail(S, read),
         NEW j \in 1..Len(S) - 1, Asks(S[j])
  PROVE  /\ S[j] \in Controls /\ S[j].reads + 1 \in 1..Len(read)
         /\ read[S[j].reads + 1].dir = DirOf(S[j])
         /\ read[S[j].reads + 1].asked = Head(S[j].todo)
         /\ read[S[j].reads + 1] \in Reads
         /\ read[S[j].reads + 1].got \in Responses \cup {Refused}
         /\ AsksPage(S[j]) => read[S[j].reads + 1].got # Refused
         /\ S[j + 1] = AfterRead(S[j], read[S[j].reads + 1].got)
         /\ DirOf(S[j]) \in Dirs
         /\ AsksPage(S[j]) => /\ DirOf(S[j]) \in Lists
                              /\ NameOf(S[j]) = <<S[j].cursors[DirOf(S[j])]>>
                              /\ S[j].cursors[DirOf(S[j])] \in Nat \ {0}
         /\ ~AsksPage(S[j]) => /\ DirOf(S[j]) = DetailsDir
                               /\ NameOf(S[j]) = Head(S[j].todo) /\ Head(S[j].todo) \in Item
<1>1. S[j] \in Controls
  OBVIOUS
<1>2. PICK c : c = S[j]
  OBVIOUS
<1>3. /\ c \in Controls /\ c.reads \in Nat /\ c.list \in 1..Len(Timelines)
      /\ c.todo \in Seq(Item) \cup {<<NoId>>} /\ c.cursors \in [Dirs -> Nat \ {0}]
  BY <1>1, <1>2 DEF Controls
<1>4. Asks(c) /\ c.todo # <<>> /\ ~PassesOver(c)
  BY <1>2 DEF Asks
<1>5. Goes(c, S[j + 1], read)
  BY <1>2 DEF Trail
<1>6. /\ c.reads + 1 <= Len(read)
      /\ read[c.reads + 1].dir = DirOf(c) /\ read[c.reads + 1].asked = Head(c.todo)
      /\ AsksPage(c) => read[c.reads + 1].got # Refused
      /\ S[j + 1] = AfterRead(c, read[c.reads + 1].got)
  BY <1>4, <1>5 DEF Goes
<1>7. c.reads + 1 \in 1..Len(read)
  BY <1>3, <1>6
<1>8. read[c.reads + 1] \in Reads /\ read[c.reads + 1].got \in Responses \cup {Refused}
  <2>1. read[c.reads + 1] \in Reads
    BY <1>7
  <2> QED
    BY <2>1 DEF Reads
<1>9. ASSUME AsksPage(c)
      PROVE  /\ DirOf(c) \in Lists /\ DirOf(c) \in Dirs /\ NameOf(c) = <<c.cursors[DirOf(c)]>>
             /\ c.cursors[DirOf(c)] \in Nat \ {0}
  BY <1>3, <1>9, Constants DEF DirOf, NameOf
<1>10. ASSUME ~AsksPage(c)
       PROVE  /\ DirOf(c) = DetailsDir /\ NameOf(c) = Head(c.todo) /\ Head(c.todo) \in Item
  <2>1. Head(<<NoId>>) = NoId
    OBVIOUS
  <2>2. c.todo \in Seq(Item)
    BY <1>3, <1>4, <1>10, <2>1 DEF AsksPage
  <2> QED
    BY <1>4, <1>10, <2>2 DEF DirOf, NameOf
<1> QED
  BY <1>2, <1>3, <1>6, <1>7, <1>8, <1>9, <1>10, Constants

LEMMA RecordedFrame ==
  ASSUME NEW S \in Seq(Controls), RecordedBy(S), UNCHANGED <<files, result, cursors, Control>>
  PROVE  RecordedBy(S)'
BY DEF RecordedBy, Held, Passed

LEMMA SilentRecorded ==
  ASSUME FilesInv, Typing', Skip \/ NextList, NEW S \in Seq(Controls), RecordedBy(S)
  PROVE  \E U \in Seq(Controls) : RecordedBy(U)'
<1>1. /\ UNCHANGED <<files, result, cursors>> /\ Goes(Control, Control', result)
      /\ ~Asks(Control) /\ result \in Seq(Reads)
  BY SilentMoves, Ranges DEF FilesInv
<1>2. Control' \in Controls /\ Control'.reads = Len(result)
  <2>1. Control'.reads = Len(result')
    BY DEF Control
  <2> QED
    BY <1>1, <2>1, NextControl
<1>3. Trail(S, result) /\ S[Len(S)] = Control /\ Held(S, result) /\ Passed(S)
  BY DEF RecordedBy
<1>4. PICK d, read : d = Control' /\ read = result
  OBVIOUS
<1>5. PICK U : U = Append(S, d)
  OBVIOUS
<1>6. /\ U \in Seq(Controls) /\ Trail(U, read) /\ Len(S) \in Nat /\ Len(S) > 0
      /\ Len(U) = Len(S) + 1 /\ U[Len(S) + 1] = d /\ \A j \in 1..Len(S) : U[j] = S[j]
  <2>1. Len(read) <= Len(read) /\ \A k \in 1..Len(read) : read[k] = read[k]
    BY <1>1, <1>4, Ranges DEF FilesInv
  <2>2. d.reads <= Len(read) /\ Goes(S[Len(S)], d, read)
    BY <1>1, <1>2, <1>3, <1>4, <2>1
  <2>3. read \in Seq(Reads) /\ d \in Controls /\ Trail(S, read)
    BY <1>1, <1>2, <1>3, <1>4
  <2> QED
    BY <1>5, <2>1, <2>2, <2>3, TrailGrows
<1>7. ASSUME NEW j \in 1..Len(U) - 1
      PROVE  U[j] = S[j] /\ (j \in 1..Len(S) - 1 \/ (j = Len(S) /\ U[j] = Control))
  BY <1>3, <1>6
<1>8. ~AsksPage(Control)
  BY <1>1, ControlFacts, Phases DEF FilesInv
<1>9. Held(U, result)'
  BY <1>1, <1>3, <1>7 DEF Held
<1>10. Passed(U)'
  BY <1>1, <1>3, <1>7, <1>8 DEF Passed
<1>11. RecordedBy(U)'
  <2>1. read = result' /\ U[Len(U)] = Control'
    BY <1>1, <1>4, <1>6
  <2> QED
    BY <1>6, <1>9, <1>10, <2>1 DEF RecordedBy
<1> QED
  BY <1>6, <1>11

\* A file that a recording wrote keeps what was read, when the next one is written.
LEMMA HeldAfterWrite ==
  ASSUME FilesInv, WriteFile, ~strange, NEW S \in Seq(Controls), RecordedBy(S),
         NEW j \in 1..Len(S) - 1, Asks(S[j]), result[S[j].reads + 1].got # Refused
  PROVE  files'[DirOf(S[j])][NameOf(S[j])] = result[S[j].reads + 1].got
<1>1. /\ answer \in Responses /\ Put(answer) /\ FileName(answer) \in Names
      /\ (answer.id = NoId => /\ FileName(answer) = <<cursors[Dir]>>
                              /\ cursors[Dir] \in 1..MaxPage)
      /\ (answer.id # NoId => FileName(answer) = answer.id)
      /\ answer.id = Asked /\ todo # <<>>
  BY WriteFileFacts, Writing DEF WriteFile, Fitting
<1>2. /\ files'[Dir][FileName(answer)] = answer
      /\ \A d \in Dirs : \A n \in Names :
            d # Dir \/ n # FileName(answer) => files'[d][n] = files[d][n]
  BY <1>1, PutFacts DEF FilesInv
<1>3. Trail(S, result) /\ Held(S, result) /\ Passed(S) /\ result \in Seq(Reads)
  BY Ranges DEF RecordedBy, FilesInv
<1>4. PICK d, n, g : d = DirOf(S[j]) /\ n = NameOf(S[j]) /\ g = result[S[j].reads + 1].got
  OBVIOUS
<1>5. files[d][n] = g
  BY <1>3, <1>4 DEF Held
<1>6. d \in Dirs /\ g \in Responses
  BY <1>3, <1>4, AskedBefore
<1>7. CASE AsksPage(S[j])
  <2>1. PICK c : c = S[j].cursors[d]
    OBVIOUS
  <2>2. d \in Lists /\ n = <<c>> /\ c \in Nat \ {0}
    BY <1>3, <1>4, <1>7, <2>1, AskedBefore
  <2>3. c < cursors[d] /\ cursors[d] \in Nat /\ cursors[d] <= MaxPage + 1 /\ MaxPage \in Nat
    BY <1>3, <1>4, <1>6, <1>7, <2>1, Ranges, Constants DEF Passed, FilesInv
  <2>4. n \in Names /\ n \notin Item
    <3>1. c \in 1..MaxPage
      BY <2>2, <2>3
    <3> QED
      BY <2>2, <3>1, Identities
  <2>5. d # Dir \/ n # FileName(answer)
    <3>1. ASSUME d = Dir, n = FileName(answer)
          PROVE  FALSE
      <4>1. ListPhase
        BY <2>2, <3>1, Phases, Constants DEF FilesInv
      <4>2. FileName(answer) = <<cursors[Dir]>>
        BY <1>1, <4>1, Phases DEF FilesInv
      <4>3. <<c>> = <<cursors[d]>>
        BY <2>2, <3>1, <4>2
      <4>4. c = cursors[d]
        BY <4>3
      <4> QED
        BY <2>2, <2>3, <4>4
    <3> QED
      BY <3>1
  <2> QED
    BY <1>2, <1>4, <1>5, <1>6, <2>4, <2>5
<1>8. CASE ~AsksPage(S[j])
  <2>1. d = DetailsDir /\ n \in Item /\ n \in Names
    BY <1>3, <1>4, <1>8, AskedBefore, Identities
  <2>2. CASE d # Dir \/ n # FileName(answer)
    BY <1>2, <1>4, <1>5, <1>6, <2>1, <2>2
  <2>3. CASE d = Dir /\ n = FileName(answer)
    <3>1. answer.id = n
      BY <1>1, <2>1, <2>3, Identities
    <3>2. answer = DetailsOf(n)
      BY <1>1, <2>1, <3>1, ResponseParts, Identities
    <3>3. g.id = n
      BY <1>5, <1>6, <2>1 DEF FilesInv, Named, IdOf
    <3>4. g = DetailsOf(n)
      BY <1>6, <2>1, <3>3, ResponseParts, Identities
    <3> QED
      BY <1>2, <1>4, <2>3, <3>2, <3>4
  <2> QED
    BY <2>2, <2>3
<1> QED
  BY <1>7, <1>8

LEMMA WriteRecorded ==
  ASSUME FilesInv, Typing', WriteFile, ~strange, NEW S \in Seq(Controls), RecordedBy(S)
  PROVE  \E U \in Seq(Controls) : RecordedBy(U)'
<1>1. /\ answer \in Responses /\ Return(answer) /\ todo # <<>> /\ ~WithoutDetails
      /\ answer.id = Asked
      /\ (answer.id # NoId => cursors' = cursors)
      /\ (answer.id = NoId => /\ cursors' = [cursors EXCEPT ![Dir] = @ + 1]
                              /\ cursors'[Dir] = cursors[Dir] + 1
                              /\ \A e \in Dirs : e # Dir => cursors'[e] = cursors[e])
  BY WriteFileFacts, Writing DEF WriteFile, Fitting
<1>2. ListPhase <=> answer.id = NoId
  BY <1>1, Phases DEF FilesInv
<1>3. Control' = AfterRead(Control, answer)
  BY <1>1, <1>2, ReadMoves
<1>4. /\ result' \in Seq(Reads) /\ Len(result') = Len(result) + 1 /\ Len(result) \in Nat
      /\ result'[Len(result) + 1] = [dir |-> Dir, asked |-> Asked, got |-> answer]
      /\ \A k \in 1..Len(result) : result'[k] = result[k]
      /\ result \in Seq(Reads)
  BY <1>1, Returned, Ranges DEF FilesInv
<1>5. Control' \in Controls /\ Control'.reads = Len(result')
  <2>1. Control'.reads = Len(result')
    BY DEF Control
  <2> QED
    BY <2>1, NextControl
<1>6. /\ Asks(Control) /\ Control.reads = Len(result) /\ Control.cursors = cursors
      /\ DirOf(Control) = Dir /\ NameOf(Control) = Wanted /\ Head(Control.todo) = Asked
      /\ (AsksPage(Control) <=> ListPhase)
  BY <1>1, ControlFacts
<1>7. Goes(Control, Control', result')
  <2>1. answer # Refused
    BY <1>1, ResponseParts
  <2> QED
    BY <1>3, <1>4, <1>6, <2>1 DEF Goes
<1>8. Trail(S, result) /\ S[Len(S)] = Control /\ Held(S, result) /\ Passed(S)
  BY DEF RecordedBy
<1>9. PICK d, read, more : d = Control' /\ read = result /\ more = result'
  OBVIOUS
<1>10. PICK U : U = Append(S, d)
  OBVIOUS
<1>11. /\ U \in Seq(Controls) /\ Trail(U, more) /\ Len(S) \in Nat /\ Len(S) > 0
       /\ Len(U) = Len(S) + 1 /\ U[Len(S) + 1] = d /\ \A j \in 1..Len(S) : U[j] = S[j]
  <2>1. Len(read) <= Len(more) /\ \A k \in 1..Len(read) : more[k] = read[k]
    BY <1>4, <1>9
  <2>2. d.reads <= Len(more) /\ Goes(S[Len(S)], d, more)
    BY <1>4, <1>5, <1>7, <1>8, <1>9
  <2>3. read \in Seq(Reads) /\ more \in Seq(Reads) /\ d \in Controls /\ Trail(S, read)
    BY <1>4, <1>5, <1>8, <1>9
  <2> QED
    BY <1>10, <2>1, <2>2, <2>3, TrailGrows
<1>12. ASSUME NEW j \in 1..Len(U) - 1
       PROVE  U[j] = S[j] /\ (j \in 1..Len(S) - 1 \/ (j = Len(S) /\ U[j] = Control))
  BY <1>8, <1>11
<1>13. ASSUME NEW j \in 1..Len(U) - 1, Asks(U[j]), result'[U[j].reads + 1].got # Refused
       PROVE  files'[DirOf(U[j])][NameOf(U[j])] = result'[U[j].reads + 1].got
  <2>1. CASE j \in 1..Len(S) - 1
    <3>1. S[j].reads + 1 \in 1..Len(result)
      BY <1>4, <1>8, <1>12, <1>13, <2>1, AskedBefore
    <3>2. result'[S[j].reads + 1] = result[S[j].reads + 1]
      BY <1>4, <3>1
    <3>3. files'[DirOf(S[j])][NameOf(S[j])] = result[S[j].reads + 1].got
      BY <1>12, <1>13, <2>1, <3>2, HeldAfterWrite
    <3> QED
      BY <1>12, <3>2, <3>3
  <2>2. CASE U[j] = Control
    <3>1. FileName(answer) = Wanted
      BY <1>1, <1>2 DEF FileName, Wanted
    <3>2. files'[Dir][FileName(answer)] = answer
      BY WriteFileFacts, Writing, PutFacts DEF WriteFile, FilesInv
    <3> QED
      BY <1>4, <1>6, <2>2, <3>1, <3>2
  <2> QED
    BY <1>12, <2>1, <2>2
<1>14. ASSUME NEW j \in 1..Len(U) - 1, AsksPage(U[j])
       PROVE  U[j].cursors[DirOf(U[j])] < cursors'[DirOf(U[j])]
  <2>1. Dir \in Dirs /\ \A e \in Dirs : cursors[e] \in Nat
    BY Phases, Ranges DEF FilesInv
  <2>2. \A e \in Dirs : cursors'[e] \in Nat /\ cursors[e] <= cursors'[e]
    BY <1>1, <2>1
  <2>3. CASE j \in 1..Len(S) - 1
    <3>1. Asks(S[j])
      <4>1. S[j].todo # <<>> /\ Head(S[j].todo) = NoId
        BY <1>12, <1>14 DEF AsksPage
      <4> QED
        BY <4>1, Identities, Constants DEF Asks, PassesOver
    <3>2. PICK e, c : e = DirOf(S[j]) /\ c = S[j].cursors[e]
      OBVIOUS
    <3>3. e \in Dirs /\ c \in Nat
      BY <1>4, <1>8, <1>12, <1>14, <2>3, <3>1, <3>2, AskedBefore
    <3>4. c < cursors[e]
      BY <1>8, <1>12, <1>14, <2>3, <3>2 DEF Passed
    <3>5. c < cursors'[e]
      BY <2>1, <2>2, <3>3, <3>4
    <3> QED
      BY <1>12, <3>2, <3>5
  <2>4. CASE U[j] = Control
    <3>1. cursors'[Dir] = cursors[Dir] + 1
      BY <1>1, <1>2, <1>6, <1>14, <2>4
    <3> QED
      BY <1>6, <2>1, <2>4, <3>1
  <2> QED
    BY <1>12, <2>3, <2>4
<1>15. RecordedBy(U)'
  <2>1. more = result' /\ U[Len(U)] = Control'
    BY <1>9, <1>11
  <2>2. Held(U, result)' /\ Passed(U)'
    BY <1>13, <1>14 DEF Held, Passed
  <2> QED
    BY <1>11, <2>1, <2>2 DEF RecordedBy
<1> QED
  BY <1>11, <1>15

\* A request passed over leaves no file, and needs none.
LEMMA RefusedRecorded ==
  ASSUME FilesInv, Typing', SkipRefused, NEW S \in Seq(Controls), RecordedBy(S)
  PROVE  \E U \in Seq(Controls) : RecordedBy(U)'
<1>1. /\ ~ListPhase /\ todo # <<>> /\ todo' = Tail(todo) /\ ~WithoutDetails
      /\ UNCHANGED <<files, list, after, items, cursors>>
      /\ result' \in Seq(Reads) /\ Len(result') = Len(result) + 1 /\ Len(result) \in Nat
      /\ result'[Len(result) + 1] = [dir |-> Dir, asked |-> Asked, got |-> Refused]
      /\ \A k \in 1..Len(result) : result'[k] = result[k]
      /\ result \in Seq(Reads)
  BY Passing, Ranges DEF FilesInv
<1>2. /\ Asks(Control) /\ ~AsksPage(Control) /\ Control.reads = Len(result)
      /\ DirOf(Control) = Dir /\ Head(Control.todo) = Asked
  BY <1>1, ControlFacts
<1>3. Control' = AfterDetails(Control)
  <2>1. /\ Control.list = list /\ Control.todo = todo /\ Control.after = after
        /\ Control.items = items /\ Control.cursors = cursors /\ Control.reads = Len(result)
    BY DEF Control
  <2>2. Control' = [list |-> list', todo |-> todo', after |-> after', items |-> items',
                    cursors |-> cursors', reads |-> Len(result')]
    BY DEF Control
  <2> QED
    BY <1>1, <2>1, <2>2 DEF AfterDetails
<1>4. Goes(Control, Control', result')
  BY <1>1, <1>2, <1>3 DEF Goes, AfterRead
<1>5. Control' \in Controls /\ Control'.reads = Len(result')
  <2>1. Control'.reads = Len(result')
    BY DEF Control
  <2> QED
    BY <2>1, NextControl
<1>6. Trail(S, result) /\ S[Len(S)] = Control /\ Held(S, result) /\ Passed(S)
  BY DEF RecordedBy
<1>7. PICK d, read, more : d = Control' /\ read = result /\ more = result'
  OBVIOUS
<1>8. PICK U : U = Append(S, d)
  OBVIOUS
<1>9. /\ U \in Seq(Controls) /\ Trail(U, more) /\ Len(S) \in Nat /\ Len(S) > 0
      /\ Len(U) = Len(S) + 1 /\ U[Len(S) + 1] = d /\ \A j \in 1..Len(S) : U[j] = S[j]
  <2>1. Len(read) <= Len(more) /\ \A k \in 1..Len(read) : more[k] = read[k]
    BY <1>1, <1>7
  <2>2. d.reads <= Len(more) /\ Goes(S[Len(S)], d, more)
    BY <1>1, <1>4, <1>5, <1>6, <1>7
  <2>3. read \in Seq(Reads) /\ more \in Seq(Reads) /\ d \in Controls /\ Trail(S, read)
    BY <1>1, <1>5, <1>6, <1>7
  <2> QED
    BY <1>8, <2>1, <2>2, <2>3, TrailGrows
<1>10. ASSUME NEW j \in 1..Len(U) - 1
       PROVE  U[j] = S[j] /\ (j \in 1..Len(S) - 1 \/ (j = Len(S) /\ U[j] = Control))
  BY <1>6, <1>9
<1>11. ASSUME NEW j \in 1..Len(U) - 1, Asks(U[j]), result'[U[j].reads + 1].got # Refused
       PROVE  files'[DirOf(U[j])][NameOf(U[j])] = result'[U[j].reads + 1].got
  <2>1. CASE j \in 1..Len(S) - 1
    <3>1. S[j].reads + 1 \in 1..Len(result)
      BY <1>1, <1>6, <1>10, <1>11, <2>1, AskedBefore
    <3>2. result'[S[j].reads + 1] = result[S[j].reads + 1]
      BY <1>1, <3>1
    <3>3. files[DirOf(S[j])][NameOf(S[j])] = result[S[j].reads + 1].got
      BY <1>6, <1>10, <1>11, <2>1, <3>2 DEF Held
    <3> QED
      BY <1>1, <1>10, <3>2, <3>3
  <2>2. CASE U[j] = Control
    BY <1>1, <1>2, <1>11, <2>2
  <2> QED
    BY <1>10, <2>1, <2>2
<1>12. Passed(U)'
  BY <1>1, <1>2, <1>6, <1>10 DEF Passed
<1>13. RecordedBy(U)'
  <2>1. more = result' /\ U[Len(U)] = Control'
    BY <1>7, <1>9
  <2>2. Held(U, result)'
    BY <1>11 DEF Held
  <2> QED
    BY <1>9, <1>12, <2>1, <2>2 DEF RecordedBy
<1> QED
  BY <1>9, <1>13

LEMMA RecordedStep ==
  ASSUME FilesInv, Typing', Recorded, [Next]_vars
  PROVE  Recorded'
<1>1. CASE ~(mode' = "record" /\ exit' = "running" /\ ~strange')
  BY <1>1 DEF Recorded
<1>2. CASE mode' = "record" /\ exit' = "running" /\ ~strange'
  <2>1. ASSUME \/ Publish \/ Answer \/ OddAnswer \/ UNCHANGED vars
        PROVE  Recorded'
    <3>1. /\ UNCHANGED <<files, result, cursors, mode, exit, list, todo, after, items>>
          /\ strange => strange'
      <4>1. UNCHANGED <<files, result, cursors, mode, exit, list, todo, after, items>>
        BY <2>1 DEF Publish, Answer, OddAnswer, Receives, vars, run
      <4>2. strange' = strange \/ \E b : strange' = (strange \/ b)
        BY <2>1, Zenon DEF Publish, Answer, OddAnswer, vars, history
      <4>3. strange => strange'
        BY <4>2, Zenon
      <4> QED
        BY <4>1, <4>3
    <3>2. Control' = Control
      BY <3>1 DEF Control
    <3>3. PICK S \in Seq(Controls) : RecordedBy(S)
      BY <1>2, <3>1 DEF Recorded
    <3> QED
      BY <3>1, <3>2, <3>3, RecordedFrame DEF Recorded
  <2>2. ASSUME NEW m \in {"record", "replay"}, Begin(m)
        PROVE  Recorded'
    <3>1. /\ list' = 1 /\ after' = NoCursor /\ items' = <<>> /\ todo' = <<NoId>>
          /\ cursors' = [d \in Dirs |-> 1] /\ result' = <<>>
      BY <2>2 DEF Begin
    <3>2. Control' = Start /\ Control' \in Controls
      BY <3>1, NextControl DEF Control, Start
    <3>3. PICK S : S = <<Start>>
      OBVIOUS
    <3>4. S \in Seq(Controls) /\ Len(S) = 1 /\ S[1] = Start /\ S # <<>>
      BY <3>2, <3>3
    <3>5. Start.reads = 0 /\ Len(result') = 0
      BY <3>1 DEF Start
    <3>6. Trail(S, result)'
      BY <3>4, <3>5 DEF Trail
    <3>7. RecordedBy(S)'
      BY <3>2, <3>4, <3>6 DEF RecordedBy, Held, Passed
    <3> QED
      BY <3>4, <3>7 DEF Recorded
  <2>3. ASSUME WriteFile
        PROVE  Recorded'
    <3>1. mode = "record" /\ exit = "running" /\ ~strange
      BY <1>2, <2>3, WriteFileFacts DEF history
    <3>2. PICK S \in Seq(Controls) : RecordedBy(S)
      BY <3>1 DEF Recorded
    <3> QED
      BY <2>3, <3>1, <3>2, WriteRecorded DEF Recorded
  <2>4. ASSUME Skip \/ NextList
        PROVE  Recorded'
    <3>1. mode = "record" /\ exit = "running" /\ ~strange
      BY <1>2, <2>4, SilentMoves
    <3>2. PICK S \in Seq(Controls) : RecordedBy(S)
      BY <3>1 DEF Recorded
    <3> QED
      BY <2>4, <3>2, SilentRecorded DEF Recorded
  <2>5. ASSUME ReadFile
        PROVE  FALSE
    BY <1>2, <2>5, ReadFileFacts
  <2>6. ASSUME SkipRefused
        PROVE  Recorded'
    <3>1. mode = "record" /\ exit = "running" /\ ~strange
      BY <1>2, <2>6, Passing DEF FilesInv, history
    <3>2. PICK S \in Seq(Controls) : RecordedBy(S)
      BY <3>1 DEF Recorded
    <3> QED
      BY <2>6, <3>2, RefusedRecorded DEF Recorded
  <2>7. ASSUME \/ ReadFails \/ Finish \/ RunEnds \/ RefusalEnds
               \/ \E how \in {"failed", "crashed"} : WriteStops(how)
        PROVE  FALSE
    BY <1>2, <2>7 DEF ReadFails, Finish, RunEnds, RefusalEnds, WriteStops, Ended
  <2> QED
    BY <2>1, <2>2, <2>3, <2>4, <2>5, <2>6, <2>7, Steps DEF StartRecord, StartReplay
<1> QED
  BY <1>1, <1>2

\* A replay on the tape: where it is, and what it finds there.
LEMMA NextOnTape ==
  ASSUME FilesInv, tape \in Seq(Reads), NEW S \in Seq(Controls), TapedBy(S), mode = "replay"
  PROVE  /\ todo # <<>> /\ ~WithoutDetails =>
              \E j \in 1..Len(S) :
                /\ j + 1 \in 1..Len(S) /\ S[j] = Control
                /\ Len(result) + 1 \in 1..Len(tape)
                /\ Found \in Responses =>
                     /\ [dir |-> Dir, asked |-> Asked, got |-> Found] = Replayed(tape[Len(result) + 1])
                     /\ S[j + 1] = AfterRead(Control, Found)
                /\ Found \notin Responses => tape[Len(result) + 1].got = Refused
         /\ Ends(Control) => Len(result) = Len(tape)
         /\ Len(result) <= Len(tape)
         /\ Skip \/ NextList => \E j \in 1..Len(S) : j + 1 \in 1..Len(S) /\ S[j + 1] = Control'
<1>1. /\ Trail(S, tape) /\ S[Len(S)].reads = Len(tape) /\ Ends(S[Len(S)]) /\ Held(S, tape)
      /\ Len(S) \in Nat /\ S # <<>>
  BY DEF TapedBy, Trail
<1>2. PICK j \in 1..Len(S) : Control = S[j] /\ \A k \in 1..Len(result) : result[k] = Replayed(tape[k])
  BY DEF TapedBy, OnTape
<1>3. Control.reads = Len(result) /\ DirOf(Control) = Dir /\ NameOf(Control) = Wanted
      /\ Head(Control.todo) = Asked
  BY ControlFacts
<1>4. Len(result) <= Len(tape)
  BY <1>1, <1>2, <1>3 DEF Trail
<1>5. ~Ends(Control) => j \in 1..Len(S) - 1 /\ j + 1 \in 1..Len(S)
  <2>1. ASSUME ~Ends(Control) PROVE j # Len(S)
    BY <1>1, <1>2, <2>1
  <2> QED
    BY <1>1, <2>1
<1>6. ASSUME todo # <<>>, ~WithoutDetails
      PROVE  /\ j + 1 \in 1..Len(S) /\ S[j] = Control
             /\ Len(result) + 1 \in 1..Len(tape)
             /\ Found \in Responses =>
                  /\ [dir |-> Dir, asked |-> Asked, got |-> Found] = Replayed(tape[Len(result) + 1])
                  /\ S[j + 1] = AfterRead(Control, Found)
             /\ Found \notin Responses => tape[Len(result) + 1].got = Refused
  <2>1. Asks(S[j]) /\ j \in 1..Len(S) - 1 /\ j + 1 \in 1..Len(S)
    BY <1>2, <1>5, <1>6, ControlFacts
  <2>2. PICK r : r = tape[Len(result) + 1]
    OBVIOUS
  <2>3. /\ Len(result) + 1 \in 1..Len(tape)
        /\ r \in Reads /\ r.dir = Dir /\ r.asked = Asked /\ r.got \in Responses \cup {Refused}
        /\ ListPhase => r.got # Refused
        /\ S[j + 1] = AfterRead(Control, r.got)
    <3>1. /\ S[j].reads = Len(result) /\ DirOf(S[j]) = Dir /\ Head(S[j].todo) = Asked
          /\ S[j] = Control /\ (AsksPage(S[j]) <=> ListPhase)
      BY <1>2, <1>3, ControlFacts
    <3>2. /\ S[j].reads + 1 \in 1..Len(tape)
          /\ tape[S[j].reads + 1] \in Reads
          /\ tape[S[j].reads + 1].dir = DirOf(S[j])
          /\ tape[S[j].reads + 1].asked = Head(S[j].todo)
          /\ tape[S[j].reads + 1].got \in Responses \cup {Refused}
          /\ AsksPage(S[j]) => tape[S[j].reads + 1].got # Refused
          /\ S[j + 1] = AfterRead(S[j], tape[S[j].reads + 1].got)
      BY <1>1, <2>1, AskedBefore
    <3> QED
      BY <2>2, <3>1, <3>2
  <2>4. r = [dir |-> Dir, asked |-> Asked, got |-> r.got]
    BY <2>3 DEF Reads
  <2>5. CASE r.got # Refused
    <3>1. Found = r.got
      BY <1>1, <1>2, <1>3, <2>1, <2>2, <2>5 DEF Held, Found
    <3>2. Replayed(r) = r
      BY <2>4, <2>5 DEF Replayed
    <3> QED
      BY <1>2, <2>1, <2>2, <2>3, <2>4, <2>5, <3>1, <3>2
  <2>6. CASE r.got = Refused
    <3>1. ~ListPhase /\ Asked \in Item /\ Asked # NoId
      BY <1>6, <2>3, <2>6, Phases DEF FilesInv
    <3>2. ASSUME Found \in Responses PROVE Found = DetailsOf(Asked)
      <4>1. Found = files[DetailsDir][Asked]
        BY <3>1, Phases DEF Found, Wanted, FilesInv
      <4>2. Found.id = Asked
        BY <3>1, <3>2, <4>1, Identities, Constants DEF FilesInv, Named, IdOf
      <4> QED
        BY <3>1, <3>2, <4>2, ResponseParts
    <3>3. Replayed(r) = [dir |-> Dir, asked |-> Asked, got |-> DetailsOf(Asked)]
      BY <2>3, <2>4, <2>6 DEF Replayed
    <3>4. \A got : AfterRead(Control, got) = AfterDetails(Control)
      BY <3>1, ControlFacts DEF AfterRead
    <3> QED
      BY <1>2, <2>1, <2>2, <2>3, <2>6, <3>2, <3>3, <3>4
  <2> QED
    BY <2>5, <2>6
<1>7. ASSUME Ends(Control)
      PROVE  Len(result) = Len(tape)
  <2>1. ASSUME j \in 1..Len(S) - 1
        PROVE  FALSE
    <3>1. Goes(S[j], S[j + 1], tape)
      BY <1>1, <2>1 DEF Trail
    <3>2. Control.todo = <<>> /\ Control.list = Len(Timelines) /\ Len(Timelines) \in Nat
      BY <1>7, Constants DEF Ends
    <3> QED
      BY <1>2, <3>1, <3>2 DEF Goes, Asks, PassesOver
  <2>2. j = Len(S)
    BY <1>1, <2>1
  <2> QED
    BY <1>1, <1>2, <1>3, <2>2
<1>8. ASSUME Skip \/ NextList
      PROVE  j + 1 \in 1..Len(S) /\ S[j + 1] = Control'
  <2>1. /\ ~Asks(Control) /\ ~Ends(Control)
        /\ Control' = IF PassesOver(Control) THEN AfterItem(Control) ELSE AfterList(Control)
    BY <1>8, SilentMoves
  <2>2. j \in 1..Len(S) - 1 /\ j + 1 \in 1..Len(S)
    BY <1>5, <2>1
  <2>3. Goes(Control, S[j + 1], tape)
    BY <1>1, <1>2, <2>2 DEF Trail
  <2>4. S[j + 1] = IF PassesOver(Control) THEN AfterItem(Control) ELSE AfterList(Control)
    BY <2>1, <2>3 DEF Goes, PassesOver
  <2> QED
    BY <2>1, <2>2, <2>4
<1> QED
  BY <1>2, <1>4, <1>6, <1>7, <1>8

LEMMA TapedFrame ==
  ASSUME NEW S \in Seq(Controls), TapedBy(S),
         UNCHANGED <<files, result, tape, mode, Control>>
  PROVE  TapedBy(S)'
BY DEF TapedBy, OnTape, Held

\* A replay that moves on the tape stays on it.
LEMMA TapedMoves ==
  ASSUME NEW S \in Seq(Controls), TapedBy(S), UNCHANGED <<files, tape, mode>>,
         NEW j \in 1..Len(S), S[j] = Control',
         \A k \in 1..Len(result') : result'[k] = Replayed(tape[k])
  PROVE  TapedBy(S)'
<1>1. OnTape(S)'
  BY DEF OnTape
<1>2. Held(S, tape)'
  BY DEF TapedBy, Held
<1> QED
  BY <1>1, <1>2 DEF TapedBy

LEMMA TapedStep ==
  ASSUME FilesInv, Recorded, Taped, Playing, [Next]_vars
  PROVE  Taped'
<1>1. CASE tape' = NoTape
  BY <1>1 DEF Taped
<1>2. CASE tape' # NoTape
  <2>1. ASSUME Publish \/ UNCHANGED vars \/ Answer \/ OddAnswer \/ ReadFails \/ RunEnds
               \/ RefusalEnds
        PROVE  Taped'
    <3>1. UNCHANGED <<files, result, tape, mode, list, todo, after, items, cursors>>
      BY <2>1 DEF Publish, Answer, OddAnswer, Receives, ReadFails, RunEnds, RefusalEnds, Refuses,
         Fault, Ended,
         vars, run, history
    <3>2. Control' = Control
      BY <3>1 DEF Control
    <3>3. PICK S \in Seq(Controls) : TapedBy(S)
      BY <1>2, <3>1 DEF Taped
    <3> QED
      BY <1>2, <3>1, <3>2, <3>3, TapedFrame DEF Taped
  <2>2. ASSUME StartRecord PROVE FALSE
    BY <1>2, <2>2 DEF StartRecord
  <2>3. ASSUME StartReplay PROVE Taped'
    <3>1. /\ list' = 1 /\ after' = NoCursor /\ items' = <<>> /\ todo' = <<NoId>>
          /\ cursors' = [d \in Dirs |-> 1] /\ result' = <<>> /\ UNCHANGED <<tape, files>>
      BY <2>3 DEF StartReplay, Begin
    <3>2. Control' = Start
      BY <3>1 DEF Control, Start
    <3>3. PICK S \in Seq(Controls) : TapedBy(S)
      BY <1>2, <3>1 DEF Taped
    <3>4. S[1] = Start /\ 1 \in 1..Len(S)
      BY <3>3 DEF TapedBy, Trail
    <3>5. OnTape(S)'
      <4>1. \A k \in 1..Len(result') : result'[k] = Replayed(tape'[k])
        BY <3>1
      <4> QED
        BY <3>2, <3>4, <4>1 DEF OnTape
    <3>6. TapedBy(S)'
      BY <3>1, <3>3, <3>5 DEF TapedBy, Held
    <3> QED
      BY <1>2, <3>1, <3>6 DEF Taped
  <2>4. ASSUME SkipRefused \/ WriteFile \/ \E how \in {"failed", "crashed"} : WriteStops(how)
        PROVE  FALSE
    <3>1. mode = "record" /\ exit = "running" /\ tape' = tape
      BY <2>4, WriteFileFacts, WriteStopsFacts, Passing DEF history, FilesInv
    <3> QED
      BY <1>2, <3>1 DEF Playing
  <2>5. ASSUME ReadFile PROVE Taped'
    <3>1. /\ Found \in Responses /\ Return(Found) /\ todo # <<>> /\ ~WithoutDetails
          /\ mode = "replay" /\ UNCHANGED <<files, tape, mode>>
          /\ (~ListPhase => cursors' = cursors)
          /\ (ListPhase => cursors' = [cursors EXCEPT ![Dir] = @ + 1])
      BY <2>5, ReadFileFacts DEF history
    <3>2. Control' = AfterRead(Control, Found)
      BY <3>1, ReadMoves
    <3>3. tape \in Seq(Reads)
      BY <1>2, <3>1 DEF Taped
    <3>4. PICK S \in Seq(Controls) : TapedBy(S)
      BY <1>2, <3>1 DEF Taped
    <3>5. PICK j \in 1..Len(S) :
            /\ j + 1 \in 1..Len(S)
            /\ [dir |-> Dir, asked |-> Asked, got |-> Found] = Replayed(tape[Len(result) + 1])
            /\ S[j + 1] = AfterRead(Control, Found)
      BY <3>1, <3>3, <3>4, NextOnTape
    <3>6. /\ Len(result') = Len(result) + 1 /\ Len(result) \in Nat
          /\ result'[Len(result) + 1] = [dir |-> Dir, asked |-> Asked, got |-> Found]
          /\ \A k \in 1..Len(result) : result'[k] = result[k]
      BY <3>1, Returned, Ranges DEF FilesInv
    <3>7. \A k \in 1..Len(result) : result[k] = Replayed(tape[k])
      BY <3>1, <3>4 DEF TapedBy, OnTape
    <3>8. ASSUME NEW k \in 1..Len(result') PROVE result'[k] = Replayed(tape[k])
      <4>1. CASE k = Len(result) + 1
        BY <3>5, <3>6, <4>1
      <4>2. CASE k \in 1..Len(result)
        BY <3>6, <3>7, <4>2
      <4> QED
        BY <3>6, <4>1, <4>2
    <3>9. TapedBy(S)'
      BY <3>1, <3>2, <3>4, <3>5, <3>8, TapedMoves
    <3> QED
      BY <1>2, <3>1, <3>3, <3>9 DEF Taped
  <2>6. ASSUME Skip \/ NextList PROVE Taped'
    <3>1. UNCHANGED <<files, result, cursors, mode, exit, tape>>
      BY <2>6, SilentMoves
    <3>2. tape \in Seq(Reads) /\ exit = "running"
      BY <1>2, <2>6, <3>1 DEF Taped, Skip, NextList
    <3>3. PICK S \in Seq(Controls) : TapedBy(S)
      BY <1>2, <3>1 DEF Taped
    <3>4. mode = "replay"
      BY <1>2, <3>1, <3>2 DEF Playing
    <3>5. PICK j \in 1..Len(S) : j + 1 \in 1..Len(S) /\ S[j + 1] = Control'
      BY <2>6, <3>2, <3>3, <3>4, NextOnTape
    <3>6. \A k \in 1..Len(result') : result'[k] = Replayed(tape[k])
      BY <3>1, <3>3, <3>4 DEF TapedBy, OnTape
    <3>7. TapedBy(S)'
      BY <3>1, <3>3, <3>5, <3>6, TapedMoves
    <3> QED
      BY <1>2, <3>1, <3>2, <3>7 DEF Taped
  <2>7. ASSUME Finish PROVE Taped'
    <3>1. /\ exit = "running" /\ todo = <<>> /\ list = Len(Timelines)
          /\ UNCHANGED <<files, result, mode, list, todo, after, items, cursors>>
          /\ tape' = IF mode = "record" /\ ~strange THEN result ELSE tape
      BY <2>7 DEF Finish, Ended
    <3>2. Control' = Control
      BY <3>1 DEF Control
    <3>3. CASE mode = "record" /\ ~strange
      <4>1. PICK S \in Seq(Controls) : RecordedBy(S)
        BY <3>1, <3>3 DEF Recorded
      <4>2. tape' = result /\ result \in Seq(Reads)
        BY <3>1, <3>3, Ranges DEF FilesInv
      <4>3. /\ Trail(S, result) /\ S[Len(S)] = Control /\ Held(S, result)
            /\ Control.reads = Len(result) /\ Ends(Control)
        BY <3>1, <4>1, ControlFacts DEF RecordedBy
      <4>4. Held(S, tape)'
        BY <3>1, <4>2, <4>3 DEF Held
      <4>5. TapedBy(S)'
        BY <3>1, <3>3, <4>2, <4>3, <4>4 DEF TapedBy
      <4> QED
        BY <4>2, <4>5 DEF Taped
    <3>4. CASE ~(mode = "record" /\ ~strange)
      <4>1. tape' = tape
        BY <3>1, <3>4
      <4>2. PICK S \in Seq(Controls) : TapedBy(S)
        BY <1>2, <4>1 DEF Taped
      <4> QED
        BY <1>2, <3>1, <3>2, <4>1, <4>2, TapedFrame DEF Taped
    <3> QED
      BY <3>3, <3>4
  <2> QED
    BY <2>1, <2>2, <2>3, <2>4, <2>5, <2>6, <2>7, Steps
<1> QED
  BY <1>1, <1>2

LEMMA PlayingStep ==
  ASSUME FilesInv, Taped, Playing, [Next]_vars
  PROVE  Playing'
<1>1. SUFFICES ASSUME tape' # NoTape
               PROVE  /\ mode' = "replay" \/ exit' = "done"
                      /\ mode' = "replay" => /\ exit' = "read failed" => MissesRefused'
                                             /\ exit' = "done" => Len(result') = Len(tape')
  BY DEF Playing
<1>2. ASSUME Publish \/ Answer \/ OddAnswer \/ Skip \/ NextList \/ UNCHANGED vars
      PROVE  UNCHANGED <<tape, mode, exit, result>>
  BY <1>2 DEF Publish, Answer, OddAnswer, Receives, Skip, NextList, vars, run, history
<1>3. CASE UNCHANGED <<tape, mode, exit, result>>
  BY <1>1, <1>3 DEF Playing, MissesRefused
<1>4. ASSUME StartRecord PROVE FALSE
  BY <1>1, <1>4 DEF StartRecord
<1>5. CASE StartReplay
  BY <1>5 DEF StartReplay, Begin
<1>6. CASE ReadFile
  BY <1>6, ReadFileFacts
<1>7. ASSUME SkipRefused \/ WriteFile \/ \E how \in {"failed", "crashed"} : WriteStops(how)
      PROVE  FALSE
  <2>1. mode = "record" /\ exit = "running" /\ tape' = tape
    BY <1>7, WriteFileFacts, WriteStopsFacts, Passing DEF history, FilesInv
  <2> QED
    BY <1>1, <2>1 DEF Playing
<1>8. CASE ReadFails
  <2>1. /\ Replaying /\ Found \in {Absent, Torn} /\ exit' = "read failed"
        /\ UNCHANGED <<tape, mode, result>>
    BY <1>8 DEF ReadFails, Ended
  <2>2. mode = "replay" /\ todo # <<>> /\ ~WithoutDetails
    BY <2>1, Reading
  <2>3. tape \in Seq(Reads)
    BY <1>1, <2>1 DEF Taped
  <2>4. PICK S \in Seq(Controls) : TapedBy(S)
    BY <1>1, <2>1 DEF Taped
  <2>5. Found \notin Responses
    BY <2>1, ResponseParts
  <2>6. MissesRefused
    BY <2>2, <2>3, <2>4, <2>5, NextOnTape DEF MissesRefused
  <2> QED
    BY <2>1, <2>2, <2>6 DEF MissesRefused
<1>9. CASE RunEnds \/ RefusalEnds
  <2>1. /\ exit = "running" /\ mode' = mode /\ tape' = tape /\ exit' \in {"failed", "crashed"}
    BY <1>9 DEF RunEnds, RefusalEnds, Refuses, Asking, Fault, Ended
  <2> QED
    BY <1>1, <2>1 DEF Playing
<1>10. CASE Finish
  <2>1. /\ exit' = "done" /\ todo = <<>> /\ list = Len(Timelines) /\ mode' = mode
        /\ result' = result /\ (mode = "replay" => tape' = tape)
    BY <1>10 DEF Finish, Ended
  <2>2. ASSUME mode = "replay" PROVE Len(result') = Len(tape')
    <3>1. tape \in Seq(Reads)
      BY <1>1, <2>1, <2>2 DEF Taped
    <3>2. PICK S \in Seq(Controls) : TapedBy(S)
      BY <1>1, <2>1, <2>2 DEF Taped
    <3>3. Ends(Control)
      BY <2>1, ControlFacts
    <3> QED
      BY <2>1, <2>2, <3>1, <3>2, <3>3, NextOnTape
  <2> QED
    BY <2>1, <2>2
<1> QED
  BY <1>2, <1>3, <1>4, <1>5, <1>6, <1>7, <1>8, <1>9, <1>10, Steps

LEMMA RecordingInvariant == Spec => []RecordingInv
<1>1. Init => RecordingInv
  BY DEF Init, RecordingInv, Recorded, Taped, Playing
<1>2. FilesInv /\ FilesInv' /\ RecordingInv /\ [Next]_vars => RecordingInv'
  BY RecordedStep, TapedStep, PlayingStep DEF RecordingInv, FilesInv
<1> QED
  BY <1>1, <1>2, FilesInvariant, PTL DEF Spec

\* After a recording that ended well, over whatever runs before left in the directory, and
\* with every response under the name its request asks for, a replay returns what that
\* recording returned, read by read; it misses a file only where the recording passed over
\* a refused request (json_writer.go, json.go, handler.go:68-72).
THEOREM ReplaysRecordings == Spec => []CompleteRecordingReplays
<1>1. FilesInv /\ RecordingInv => CompleteRecordingReplays
  <2> SUFFICES ASSUME FilesInv, RecordingInv, mode = "replay", tape # NoTape
               PROVE  /\ Len(result) <= Len(tape)
                      /\ \A k \in 1..Len(result) : result[k] = Replayed(tape[k])
                      /\ exit = "read failed" =>
                           Len(result) < Len(tape) /\ tape[Len(result) + 1].got = Refused
                      /\ exit = "done" => Len(result) = Len(tape)
    BY DEF CompleteRecordingReplays
  <2>1. /\ exit = "read failed" => MissesRefused
        /\ exit = "done" => Len(result) = Len(tape)
        /\ tape \in Seq(Reads)
    BY DEF RecordingInv, Playing, Taped
  <2>2. PICK S \in Seq(Controls) : TapedBy(S)
    BY DEF RecordingInv, Taped
  <2>3. /\ Len(result) <= Len(tape)
        /\ \A k \in 1..Len(result) : result[k] = Replayed(tape[k])
    BY <2>1, <2>2, NextOnTape DEF TapedBy, OnTape
  <2>4. Len(result) \in Nat /\ Len(tape) \in Nat
    <3>1. \A q \in Seq(Reads) : Len(q) \in Nat
      OBVIOUS
    <3> QED
      BY <2>1, <3>1, Ranges DEF FilesInv
  <2>5. MissesRefused => Len(result) < Len(tape) /\ tape[Len(result) + 1].got = Refused
    BY <2>4 DEF MissesRefused
  <2> QED
    BY <2>1, <2>3, <2>5
<1> QED
  BY <1>1, FilesInvariant, RecordingInvariant, PTL

=============================================================================
