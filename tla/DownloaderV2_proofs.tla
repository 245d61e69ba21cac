-------------------------- MODULE DownloaderV2_proofs --------------------------
(***************************************************************************)
(* Theorems about the v2 downloader, for every timeline, page size, number *)
(* of details and of faults: a run that exits with 0 has saved every       *)
(* transaction that was listed when it began.                              *)
(***************************************************************************)
EXTENDS DownloaderV2, FiniteSetTheorems, WellFoundedInduction, TLAPS

\* What is about to be written into a formatted file is a response, since nil does not
\* parse, and what is about to be parsed a response or nil.
Parsed == /\ pc \in {"format", "items"} => data.is = "response"
          /\ pc = "raw" => data = Empty \/ data.is = "response"
\* Where a run is: before its first page, at the pages, at all transactions together,
\* at the details.
Setup == {"down", "login", "code", "store", "connect"}
Saving == pc \in {"raw", "format", "items"}
SavingPage == Saving /\ job = <<"page", page>>
SavingAll == Saving /\ job = All
AtDetails == pc = "details" \/ (Saving /\ job \in Details)
Phases ==
  /\ Saving => SavingPage \/ SavingAll \/ job \in Details
  /\ pc = "items" => job \notin Details
  /\ pc \in Setup => page = 1 /\ cursor = Top /\ got = {}
  /\ pc \in Setup \ {"down"} => due = {}

\* Each page takes the cursor down, and leaves an item below it when there is one more.
Cursors ==
  /\ page <= N
  /\ pc = "page" => /\ 2 <= cursor /\ page + cursor <= N + 2
                    /\ page = 1 => cursor = Top
  /\ SavingPage /\ data # Empty => cursor = NoMore \/ (2 <= cursor /\ page + cursor <= N + 1)

\* What was listed at the first page is got, or still to come.
Covered ==
  /\ due \subseteq 1..listed
  /\ pc = "page" => \A i \in due : i \in got \/ i < cursor
  /\ SavingPage /\ data # Empty => \A i \in due : i \in got \cup data.items \/ i < cursor
  /\ SavingAll \/ AtDetails => due \subseteq got

\* What is got is in the files: on a page before this one, on its own, and together
\* with the others when the details are fetched.
OnPages(S, below) ==
  \A i \in S : \E p \in Item : /\ p < below
                               /\ i \in formatted[<<"page", p>>].items
                               /\ i \in raw[<<"page", p>>].items
Filed ==
  /\ pc = "page" \/ SavingPage => OnPages(got, page)
  /\ SavingAll \/ AtDetails => OnPages(got, N + 1)
  /\ \A i \in got : formatted[<<"item", i>>] = Response({i})
  /\ pc \in {"format", "items"} => raw[job] = data
  /\ pc = "items" => formatted[job] = data
  /\ SavingAll => data = Response(got)
  /\ AtDetails => raw[All].items = got /\ formatted[All].items = got

Exited == exit = "0" => pc = "down"

SaveInv == TypeOK /\ Parsed /\ Phases /\ Cursors /\ Covered /\ Filed /\ Exited /\ SuccessSavesAll

LEMMA Constants ==
  /\ N \in Nat /\ N >= 1 /\ PageSize \in Nat /\ PageSize >= 1
  /\ MaxItems \in Nat /\ MaxFaults \in Nat /\ Detailed \subseteq Item
  /\ Item \subseteq Nat /\ \A i \in Item : 1 <= i /\ i <= N
<1>1. /\ {MaxItems, MaxFaults} \subseteq Nat /\ {N, PageSize} \subseteq Nat \ {0}
      /\ Detailed \subseteq Item
  BY DownloaderAssumption DEF DownloaderAssumption
<1> QED
  BY <1>1 DEF Item

\* A set of numbers that is not empty has a least one, and if bounded a greatest one.
LEMMA Least ==
  ASSUME NEW T, T \subseteq Nat, T # {}
  PROVE  \E x \in T : \A y \in T : x <= y
<1>1. IsWellFoundedOn(OpToRel(<, Nat), Nat)
  BY NatLessThanWellFounded, Zenon
<1>2. PICK x \in T : \A y \in T : ~ (<<y, x>> \in OpToRel(<, Nat))
  BY <1>1, WFMin, Zenon
<1>3. \A y \in T : <<y, x>> \in OpToRel(<, Nat) <=> y < x
  BY Zenon DEF OpToRel
<1>4. x \in Nat /\ \A y \in T : y \in Nat /\ ~(y < x)
  BY <1>2, <1>3
<1>5. \A y \in T : x <= y
  BY <1>4
<1> QED
  BY <1>5

LEMMA Greatest ==
  ASSUME NEW T, T \subseteq Item, T # {}
  PROVE  \E x \in T : \A y \in T : x >= y
<1> DEFINE D == {N - t : t \in T}
<1>1. \A t \in T : t \in Nat /\ t <= N /\ N - t \in Nat
  BY Constants
<1>2. D \subseteq Nat /\ D # {}
  BY <1>1
<1>3. PICK d \in D : \A e \in D : d <= e
  BY <1>2, Least
<1>4. PICK x \in T : d = N - x
  OBVIOUS
<1>5. \A y \in T : N - x <= N - y
  BY <1>3, <1>4
<1>6. \A y \in T : x >= y
  BY <1>1, <1>5, Constants
<1> QED
  BY <1>6

LEMMA MinIs == ASSUME NEW T, T \subseteq Nat, T # {}
               PROVE  Min(T) \in T /\ \A y \in T : Min(T) <= y
<1>1. \E x \in T : \A y \in T : x <= y
  BY Least
<1> QED
  BY <1>1, Zenon DEF Min

LEMMA MaxIs == ASSUME NEW T, T \subseteq Item, T # {}
               PROVE  Max(T) \in T
<1>1. \E x \in T : \A y \in T : x >= y
  BY Greatest
<1> QED
  BY <1>1, Zenon DEF Max

\* A page is a set of the newest items there are, and not empty when there are any.
LEMMA PageItems ==
  ASSUME listed \in 0..N, NEW c \in Nat
  PROVE  /\ PageAt(c) \subseteq Older(c) /\ Older(c) \subseteq Item
         /\ Older(c) # {} => PageAt(c) # {}
         /\ \A i \in PageAt(c) : \A j \in Older(c) : j > i => j \in PageAt(c)
<1>1. PageAt(c) \subseteq Older(c) /\ Older(c) \subseteq Item
  BY Constants DEF PageAt, Older, Item
<1>0. \A y \in Older(c) : y \in Nat
  BY <1>1, Constants
<1>2. IsFiniteSet(Older(c))
  <2>1. IsFiniteSet(1..listed)
    BY FS_Interval
  <2> QED
    BY <2>1, FS_Subset DEF Older
<1>3. ASSUME NEW i \in Older(c)
      PROVE  /\ IsFiniteSet({j \in Older(c) : j > i})
             /\ Cardinality({j \in Older(c) : j > i}) \in Nat
  <2>1. IsFiniteSet({j \in Older(c) : j > i})
    BY <1>2, FS_Subset
  <2> QED
    BY <2>1, FS_CardinalityType
<1>4. ASSUME Older(c) # {} PROVE PageAt(c) # {}
  <2>1. PICK x \in Older(c) : \A y \in Older(c) : x >= y
    BY <1>1, <1>4, Greatest
  <2>2. \A y \in Older(c) : ~(y > x)
    BY <1>0, <2>1
  <2>3. {j \in Older(c) : j > x} = {}
    BY <2>2
  <2>4. Cardinality({j \in Older(c) : j > x}) = 0
    BY <2>3, FS_EmptySet
  <2> QED
    BY <2>4, Constants DEF PageAt
<1>5. ASSUME NEW i \in PageAt(c), NEW j \in Older(c), j > i
      PROVE  j \in PageAt(c)
  <2> DEFINE I == {k \in Older(c) : k > i}
             J == {k \in Older(c) : k > j}
  <2>1. i \in Older(c) /\ i \in Nat /\ j \in Nat
    BY <1>1, Constants
  <2>2. J \subseteq I
    <3>1. ASSUME NEW k \in Older(c), k > j PROVE k > i
      BY <1>0, <1>5, <2>1, <3>1
    <3> QED
      BY <3>1, Zenon
  <2>3. Cardinality(J) <= Cardinality(I)
    BY <1>3, <2>1, <2>2, FS_Subset
  <2>4. Cardinality(I) < PageSize /\ Cardinality(I) \in Nat /\ Cardinality(J) \in Nat
    BY <1>3, <2>1 DEF PageAt
  <2>5. Cardinality(J) < PageSize
    BY <2>3, <2>4, Constants
  <2> QED
    BY <2>5 DEF PageAt
<1> QED
  BY <1>1, <1>4, <1>5

\* The cursor of the next page is the oldest item of this one.
LEMMA CursorMoves ==
  ASSUME listed \in 0..N, NEW c \in Nat
  PROVE  \/ NextCursor(c) = NoMore /\ Older(c) = PageAt(c)
         \/ /\ NextCursor(c) \in Nat /\ 2 <= NextCursor(c) /\ NextCursor(c) < c /\ NextCursor(c) <= N
            /\ \A i \in Older(c) : i \in PageAt(c) \/ i < NextCursor(c)
<1>1. CASE Older(c) = PageAt(c)
  BY <1>1 DEF NextCursor
<1>2. CASE Older(c) # PageAt(c)
  <2> DEFINE m == Min(PageAt(c))
  <2>1. PICK k \in Older(c) : k \notin PageAt(c)
    BY <1>2, PageItems
  <2>2. PageAt(c) # {} /\ PageAt(c) \subseteq Nat /\ PageAt(c) \subseteq Older(c)
    BY <2>1, PageItems, Constants
  <2>3. m \in PageAt(c) /\ m \in Older(c) /\ m \in Nat
    BY <2>2, MinIs
  <2>4. \A i \in Older(c) : i \in Nat /\ 1 <= i /\ i <= N /\ i < c
    BY PageItems, Constants DEF Older
  <2>5. \A i \in Older(c) : i \in PageAt(c) \/ i < m
    BY <2>3, <2>4, PageItems
  <2>6. k < m /\ 1 <= k /\ k \in Nat
    BY <2>1, <2>4, <2>5
  <2>7. NextCursor(c) = m
    BY <1>2 DEF NextCursor
  <2> QED
    BY <2>3, <2>4, <2>5, <2>6, <2>7
<1> QED
  BY <1>1, <1>2

\* The names of the files, and that they differ.
LEMMA Names ==
  /\ All \in Name \ Single
  /\ \A i \in Item : /\ <<"page", i>> \in Name \ Single /\ <<"page", i>> \in Page
                     /\ <<"details", i>> \in Name \ Single /\ <<"details", i>> \in Details
                     /\ <<"item", i>> \in Single /\ <<"item", i>> \in Name
                     /\ <<"page", i>> \notin Details /\ <<"page", i>> # All
                     /\ <<"details", i>> # All
  /\ All \notin Details
  /\ \A d \in Details : d # All /\ d[2] \in Item /\ \A i \in Item : d # <<"page", i>> /\ d # <<"item", i>>
  /\ \A i, j : <<"page", i>> = <<"page", j>> => i = j
  /\ \A n \in Name \ Single : \A i \in Item : n # <<"item", i>>
  BY DEF Name, Single, Page, All, Details

LEMMA Contents ==
  /\ Empty \in Content /\ Absent \in Content /\ Empty.is = "empty"
  /\ \A S \in SUBSET Item : /\ Response(S) \in Content /\ Response(S) # Empty
                            /\ Response(S).is = "response" /\ Response(S).items = S
  BY DEF Content, Empty, Absent, Response

FilesType == raw \in [Name \ Single -> Content] /\ formatted \in [Name -> Content]

LEMMA SinglesType ==
  ASSUME FilesType, NEW S, NEW E, S \subseteq Item
  PROVE  /\ WithSingles(S, E) \in [Name -> Content]
         /\ \A n \in Name \ Single : WithSingles(S, E)[n] = formatted[n]
         /\ \A i \in Item : WithSingles(S, E)[<<"item", i>>] =
                              IF i \in S THEN Response({i})
                              ELSE IF i \in E THEN Empty ELSE formatted[<<"item", i>>]
<1>1. \A n \in Single : n[2] \in Item
  BY DEF Single
<1>2. \A n \in Single : Response({n[2]}) \in Content
  BY <1>1, Contents
<1>3. \A i \in Item : <<"item", i>> \in Name /\ <<"item", i>> \in Single /\ <<"item", i>>[2] = i
  BY Names
<1>4. WithSingles(S, E) \in [Name -> Content]
  BY <1>2, Contents DEF WithSingles, FilesType
<1>5. \A n \in Name \ Single : WithSingles(S, E)[n] = formatted[n]
  BY Zenon DEF WithSingles
<1>6. ASSUME NEW i \in Item
      PROVE  WithSingles(S, E)[<<"item", i>>] =
               IF i \in S THEN Response({i})
               ELSE IF i \in E THEN Empty ELSE formatted[<<"item", i>>]
  BY <1>3 DEF WithSingles
<1> QED
  BY <1>4, <1>5, <1>6

LEMMA CutShortType ==
  ASSUME TypeOK, CutShort
  PROVE  FilesType'
<1>1. FilesType /\ job \in Name /\ job \in Name \ Single /\ data.items \subseteq Item
  BY DEF TypeOK, FilesType, Content
<1>2. CASE pc = "raw"
  BY <1>1, <1>2, Contents DEF CutShort, FilesType
<1>3. CASE pc = "format"
  BY <1>1, <1>3, Contents DEF CutShort, FilesType
<1>4. CASE pc = "items"
  <2>1. UNCHANGED raw /\ \E S, E \in SUBSET data.items : formatted' = WithSingles(S \ E, E)
    BY <1>4 DEF CutShort
  <2>2. PICK S, E \in SUBSET data.items : formatted' = WithSingles(S \ E, E)
    BY <2>1
  <2> QED
    BY <1>1, <2>1, <2>2, SinglesType DEF FilesType
<1>5. CASE pc \notin {"raw", "format", "items"}
  BY <1>1, <1>5 DEF CutShort, files, FilesType
<1> QED
  BY <1>2, <1>3, <1>4, <1>5

LEMMA FaultType == ASSUME TypeOK, Fault PROVE faults' \in 0..MaxFaults
  BY Constants DEF TypeOK, Fault

\* What holds after a run ended, however it ended.
LEMMA ExitSaves ==
  ASSUME SaveInv, NEW code \in {"crashed", "1"}, Exit(code), FilesType', UNCHANGED <<listed, due>>,
         token' \in {"none", "stale", "live"}, faults' \in 0..MaxFaults
  PROVE  SaveInv'
<1>1. TypeOK /\ Covered
  BY DEF SaveInv
<1>2. /\ pc' = "down" /\ exit' = code /\ session' = "none" /\ page' = 1 /\ cursor' = Top
      /\ got' = {} /\ todo' = {} /\ job' = All /\ data' = Empty /\ expired' = FALSE
  BY DEF Exit
<1>3. 1 \in 1..N + 1 /\ Top \in 0..Top /\ 1 <= N
  BY Constants DEF Top
<1>4. TypeOK'
  BY <1>1, <1>2, <1>3, Names, Contents, Zenon DEF TypeOK, FilesType
<1>5. Parsed' /\ Exited' /\ SuccessSavesAll'
  BY <1>2 DEF Parsed, Exited, SuccessSavesAll
<1>6. Phases' /\ Cursors'
  BY <1>2, <1>3 DEF Phases, Cursors, Setup, Saving, SavingPage, SavingAll, AtDetails
<1>7. Covered' /\ Filed'
  BY <1>1, <1>2 DEF Covered, Filed, Setup, Saving, SavingPage, SavingAll, AtDetails
<1> QED
  BY <1>4, <1>5, <1>6, <1>7 DEF SaveInv

\* Steps around the program.
LEMMA QuietSaves ==
  ASSUME SaveInv, UNCHANGED <<pc, files, progress, job, data, due, exit>>,
         listed' \in 0..N, listed <= listed',
         token' \in {"none", "stale", "live"}, session' \in {"none", "stale", "live"},
         expired' \in BOOLEAN, faults' \in 0..MaxFaults
  PROVE  SaveInv'
<1> USE DEF SaveInv, files, progress
<1>1. TypeOK'
  BY DEF TypeOK
<1>2. Parsed' /\ Exited' /\ Phases' /\ Cursors'
  BY DEF Parsed, Exited, Phases, Cursors, Setup, Saving, SavingPage, SavingAll, AtDetails
<1>3. Covered'
  <2>1. 1..listed \subseteq 1..listed'
    BY DEF TypeOK
  <2> QED
    BY <2>1 DEF Covered, Saving, SavingPage, SavingAll, AtDetails
<1>4. Filed'
  BY DEF Filed, OnPages, Saving, SavingPage, SavingAll, AtDetails
<1>5. SuccessSavesAll'
  BY DEF SuccessSavesAll, Saved
<1> QED
  BY <1>1, <1>2, <1>3, <1>4, <1>5

\* Steps before the first page.
LEMMA SetupSaves ==
  ASSUME SaveInv, pc \in Setup, pc' \in Setup \ {"down"},
         UNCHANGED <<listed, files, progress, job, data, expired>>, due' = {},
         exit' \in {"none", "crashed", "1"},
         token' \in {"none", "stale", "live"}, session' \in {"none", "stale", "live"},
         faults' \in 0..MaxFaults
  PROVE  SaveInv'
<1> USE DEF SaveInv, files, progress, Setup
<1>1. TypeOK'
  BY DEF TypeOK
<1>2. Parsed' /\ Exited' /\ Phases' /\ Cursors' /\ Covered' /\ SuccessSavesAll'
  BY DEF Parsed, Exited, SuccessSavesAll, Phases, Cursors, Covered, Saving, SavingPage, SavingAll, AtDetails
<1>3. Filed'
  BY DEF Filed, Phases, OnPages, Saving, SavingPage, SavingAll, AtDetails
<1> QED
  BY <1>1, <1>2, <1>3

LEMMA NoAnswerType ==
  ASSUME TypeOK, NoAnswer PROVE faults' \in 0..MaxFaults
  BY FaultType DEF NoAnswer, TypeOK

LEMMA SurroundingsSave ==
  ASSUME SaveInv, \/ Publish \/ ExpireSession \/ Expire \/ Start \/ Login \/ ProvideOTP \/ Store
                  \/ Connect \/ UNCHANGED vars
  PROVE  SaveInv'
<1>0. TypeOK /\ Exited /\ Phases /\ listed \in Nat /\ N \in Nat
  BY Constants DEF SaveInv, TypeOK
<1>1. CASE Publish
  BY <1>0, <1>1, QuietSaves DEF Publish, hist, TypeOK
<1>2. CASE ExpireSession
  BY <1>0, <1>2, QuietSaves, FaultType DEF ExpireSession, TypeOK
<1>3. CASE Expire
  BY <1>0, <1>3, QuietSaves, FaultType DEF Expire, server, TypeOK
<1>4. CASE UNCHANGED vars
  BY <1>0, <1>4, QuietSaves DEF vars, server, hist, TypeOK
<1>5. CASE Start
  <2>1. pc' \in Setup \ {"down"} /\ pc \in Setup
    BY <1>5 DEF Start, Setup
  <2> QED
    BY <1>0, <1>5, <2>1, SetupSaves DEF Start, server, TypeOK
<1>6. CASE Login \/ ProvideOTP \/ Store
  <2>1. pc' \in Setup \ {"down"} /\ pc \in Setup \ {"down"} /\ UNCHANGED <<listed, due, exit, expired>>
    BY <1>6 DEF Login, ProvideOTP, Store, Setup, server
  <2>2. due' = {} /\ exit' \in {"none", "crashed", "1"}
    BY <1>0, <2>1 DEF Phases, Exited, TypeOK, Setup
  <2>3. faults' \in 0..MaxFaults
    BY <1>0, <1>6, FaultType DEF Login, ProvideOTP, Store, TypeOK
  <2>4. token' \in {"none", "stale", "live"} /\ session' \in {"none", "stale", "live"}
    BY <1>0, <1>6 DEF Login, ProvideOTP, Store, TornToken, server, TypeOK
  <2> QED
    BY <1>6, <2>1, <2>2, <2>3, <2>4, SetupSaves DEF Login, ProvideOTP, Store
<1>7. CASE Connect
  <2>1. /\ pc = "connect" /\ pc' = "page" /\ UNCHANGED <<listed, token, session, files, progress, job, data>>
        /\ UNCHANGED <<expired, exit, faults, due>>
    BY <1>7 DEF Connect, server, hist
  <2>2. page = 1 /\ cursor = Top /\ got = {} /\ due = {} /\ exit # "0"
    BY <1>0, <2>1 DEF Phases, Setup, Exited
  <2>3. 2 <= Top /\ 1 + Top <= N + 2 /\ 1 <= N /\ Top # NoMore
    BY Constants DEF Top, NoMore
  <2>4. TypeOK'
    BY <1>0, <2>1, <2>2, <2>3 DEF TypeOK, files, progress
  <2>5. Parsed' /\ Exited' /\ SuccessSavesAll' /\ Phases' /\ Cursors' /\ Covered'
    BY <2>1, <2>2, <2>3 DEF SaveInv, Parsed, Exited, SuccessSavesAll, Phases, Cursors, Covered, progress,
       Setup, Saving, SavingPage, SavingAll, AtDetails
  <2>6. Filed'
    BY <2>1, <2>2 DEF SaveInv, Filed, progress, files, OnPages, Saving, SavingPage, SavingAll, AtDetails
  <2> QED
    BY <2>4, <2>5, <2>6 DEF SaveInv
<1> QED
  BY <1>1, <1>2, <1>3, <1>4, <1>5, <1>6, <1>7

(***************************************************************************)
(* The pages.                                                              *)
(***************************************************************************)
LEMMA GetPageSaves ==
  ASSUME SaveInv, GetPage
  PROVE  SaveInv'
<1>1. /\ pc = "page" /\ data' = Response(PageAt(cursor)) /\ cursor' = NextCursor(cursor)
      /\ job' = <<"page", page>> /\ pc' = "raw" /\ due' = (IF page = 1 THEN 1..listed ELSE due)
      /\ UNCHANGED <<listed, token, session, raw, formatted, page, got, todo, expired, exit, faults>>
  BY DEF GetPage, server, files
<1>2. TypeOK /\ Exited /\ Cursors /\ Covered /\ Filed
  BY DEF SaveInv
<1>3. /\ listed \in 0..N /\ listed \in Nat /\ cursor \in Nat /\ page \in Nat /\ 1 <= page /\ page <= N
      /\ 2 <= cursor /\ page + cursor <= N + 2 /\ (page = 1 => cursor = Top)
      /\ N \in Nat /\ cursor <= Top
  BY <1>1, <1>2, Constants DEF TypeOK, Cursors, Top
<1>4. PageAt(cursor) \subseteq Item /\ PageAt(cursor) \subseteq Older(cursor)
  BY <1>3, PageItems
<1>5. \/ cursor' = NoMore /\ Older(cursor) = PageAt(cursor)
      \/ /\ cursor' \in Nat /\ 2 <= cursor' /\ cursor' < cursor /\ cursor' <= N
         /\ \A i \in Older(cursor) : i \in PageAt(cursor) \/ i < cursor'
  BY <1>1, <1>3, CursorMoves
<1>6. page \in Item
  BY <1>3 DEF Item
<1>7. data'.items = PageAt(cursor) /\ data' \in Content /\ data' # Empty /\ data'.is = "response"
  BY <1>1, <1>4, Contents
<1>8. due' \subseteq 1..listed /\ due' \subseteq Item
  BY <1>1, <1>2, <1>3 DEF Covered, Item, TypeOK
<1>9. TypeOK'
  <2>1. job' \in Name \ Single
    BY <1>1, <1>6, Names
  <2>2. cursor' \in 0..Top
    BY <1>3, <1>5 DEF NoMore, Top
  <2> QED
    BY <1>1, <1>2, <1>7, <1>8, <2>1, <2>2 DEF TypeOK
<1>10. job' # All /\ job' \notin Details
  BY <1>1, <1>6, Names
<1>11. Parsed' /\ Exited' /\ Phases' /\ SuccessSavesAll'
  BY <1>1, <1>2, <1>7, <1>10 DEF Parsed, Exited, Phases, SuccessSavesAll,
     Setup, Saving, SavingPage, SavingAll, AtDetails
<1>12. Cursors'
  BY <1>1, <1>3, <1>5 DEF Cursors, SavingPage
<1>13. Covered'
  <2>1. \A i \in due' : i \in got \/ i \in Older(cursor)
    BY <1>1, <1>2, <1>3 DEF Covered, TypeOK, Older, Top, Item
  <2>2. ASSUME NEW i \in due' PROVE i \in got' \cup data'.items \/ i < cursor'
    BY <1>1, <1>5, <1>7, <2>1, <2>2
  <2> QED
    BY <1>1, <1>8, <1>10, <2>2 DEF Covered, Setup, Saving, SavingPage, SavingAll, AtDetails
<1>14. Filed'
  BY <1>1, <1>2, <1>10 DEF Filed, OnPages, Saving, SavingPage, SavingAll, AtDetails
<1> QED
  BY <1>9, <1>11, <1>12, <1>13, <1>14 DEF SaveInv

LEMMA GetPageNilSaves ==
  ASSUME SaveInv, GetPageNil
  PROVE  SaveInv'
<1>1. /\ pc = "page" /\ data' = Empty /\ job' = <<"page", page>> /\ pc' = "raw"
      /\ UNCHANGED <<listed, token, session, raw, formatted, page, cursor, got, todo, expired, exit, due>>
  BY DEF GetPageNil, server, files, progress
<1>2. TypeOK /\ Exited /\ Cursors /\ Covered /\ Filed
  BY DEF SaveInv
<1>3. page \in Item
  BY <1>2, Constants DEF TypeOK, Cursors, Item
<1>4. job' # All /\ job' \notin Details /\ job' \in Name \ Single
  BY <1>1, <1>3, Names
<1>5. TypeOK'
  <2>1. faults' \in 0..MaxFaults
    BY <1>2, NoAnswerType DEF GetPageNil
  <2> QED
    BY <1>1, <1>2, <1>4, <2>1, Contents DEF TypeOK
<1>6. Parsed' /\ Exited' /\ Phases' /\ Cursors' /\ SuccessSavesAll'
  BY <1>1, <1>2, <1>4 DEF Parsed, Exited, Phases, Cursors, SuccessSavesAll,
     Setup, Saving, SavingPage, SavingAll, AtDetails
<1>7. Covered' /\ Filed'
  BY <1>1, <1>2, <1>4 DEF Covered, Filed, OnPages, Setup, Saving, SavingPage, SavingAll, AtDetails
<1> QED
  BY <1>5, <1>6, <1>7 DEF SaveInv

(***************************************************************************)
(* The saves.                                                              *)
(***************************************************************************)
\* The save of the details of an item is over, or has failed.
LEMMA DetailsSkipped ==
  ASSUME SaveInv, pc \in {"raw", "format"}, job \in Details, pc' = "details", todo' = todo \ {job[2]},
         job' = All, data' = Empty,
         UNCHANGED <<listed, token, session, page, cursor, got, expired, exit, due>>,
         faults' \in 0..MaxFaults, FilesType',
         \A n \in Name \ Single : n # job => raw'[n] = raw[n],
         \A n \in Name : n # job => formatted'[n] = formatted[n]
  PROVE  SaveInv'
<1>1. TypeOK /\ Exited /\ Phases /\ Cursors /\ Covered /\ Filed
  BY DEF SaveInv
<1>2. AtDetails /\ Saving
  BY DEF AtDetails, Saving
<1>3. /\ raw'[All] = raw[All] /\ formatted'[All] = formatted[All]
      /\ \A i \in Item : /\ formatted'[<<"page", i>>] = formatted[<<"page", i>>]
                         /\ raw'[<<"page", i>>] = raw[<<"page", i>>]
                         /\ formatted'[<<"item", i>>] = formatted[<<"item", i>>]
  BY Names
<1>4. TypeOK'
  BY <1>1, Names, Contents DEF TypeOK, FilesType
<1>5. Parsed' /\ Exited' /\ Phases' /\ Cursors' /\ SuccessSavesAll' /\ Covered'
  BY <1>1, <1>2 DEF Parsed, Exited, SuccessSavesAll, Phases, Cursors, Covered,
     Setup, Saving, SavingPage, SavingAll, AtDetails
<1>6. got \subseteq Item
  BY <1>1 DEF TypeOK
<1>7. OnPages(got, N + 1)
  BY <1>1, <1>2 DEF Filed
<1>8. OnPages(got, N + 1)'
  BY <1>3, <1>7 DEF OnPages
<1>9. Filed'
  <2>1. \A i \in got' : formatted'[<<"item", i>>] = Response({i})
    BY <1>1, <1>3, <1>6 DEF Filed
  <2>2. raw'[All].items = got' /\ formatted'[All].items = got'
    BY <1>1, <1>2, <1>3 DEF Filed
  <2> QED
    BY <1>8, <2>1, <2>2 DEF Filed, Saving, SavingPage, SavingAll, AtDetails
<1> QED
  BY <1>4, <1>5, <1>9 DEF SaveInv

LEMMA WriteRawSaves ==
  ASSUME SaveInv, WriteRaw
  PROVE  SaveInv'
<1>1. /\ pc = "raw" /\ raw' = [raw EXCEPT ![job] = data]
      /\ UNCHANGED <<listed, token, formatted, faults, due>>
      /\ IF data = Empty THEN SaveError
                         ELSE pc' = "format" /\ UNCHANGED <<session, progress, job, data, expired, exit>>
  BY Zenon DEF WriteRaw, server
<1>2. TypeOK /\ Parsed /\ Exited /\ Phases /\ Cursors /\ Covered /\ Filed
  BY DEF SaveInv
<1>3. /\ job \in Name \ Single /\ data \in Content /\ raw \in [Name \ Single -> Content]
      /\ raw' \in [Name \ Single -> Content] /\ FilesType'
  BY <1>1, <1>2 DEF TypeOK, FilesType
<1>4. raw'[job] = data /\ \A n \in Name \ Single : n # job => raw'[n] = raw[n]
  BY <1>1, <1>3
<1>5. faults' \in 0..MaxFaults /\ token' \in {"none", "stale", "live"}
  BY <1>1, <1>2 DEF TypeOK
<1>6. CASE data = Empty
  <2>1. SaveError
    BY <1>1, <1>6
  <2>2. CASE job \in Details
    <3>1. /\ pc' = "details" /\ todo' = todo \ {job[2]} /\ job' = All /\ data' = Empty
          /\ UNCHANGED <<session, page, cursor, got, expired, exit>>
      BY <2>1, <2>2 DEF SaveError
    <3> QED
      BY <1>1, <1>3, <1>4, <1>5, <2>2, <3>1, DetailsSkipped
  <2>3. CASE job \notin Details
    <3>1. Exit("1")
      BY <2>1, <2>3 DEF SaveError
    <3> QED
      BY <1>1, <1>3, <1>5, <3>1, ExitSaves
  <2> QED
    BY <2>2, <2>3
<1>7. CASE data # Empty
  <2>1. pc' = "format" /\ UNCHANGED <<session, page, cursor, got, todo, job, data, expired, exit>>
    BY <1>1, <1>7 DEF progress
  <2>2. data.is = "response"
    BY <1>1, <1>2, <1>7 DEF Parsed
  <2>3. TypeOK'
    BY <1>1, <1>2, <1>3, <1>5, <2>1, <2>2 DEF TypeOK, NoMore
  <2>4. Parsed' /\ Exited' /\ Phases' /\ Cursors' /\ Covered' /\ SuccessSavesAll'
    BY <1>1, <1>2, <2>1, <2>2 DEF Parsed, Exited, Phases, Cursors, Covered, SuccessSavesAll,
       Setup, Saving, SavingPage, SavingAll, AtDetails
  <2>5. SavingPage => OnPages(got, page)'
    <3>1. ASSUME SavingPage, NEW p \in Item, p < page PROVE raw'[<<"page", p>>] = raw[<<"page", p>>]
      <4>1. p # page
        BY <1>2, <3>1, Constants DEF TypeOK
      <4>2. <<"page", p>> # job
        BY <3>1, <4>1, Names DEF SavingPage
      <4> QED
        BY <1>4, <4>2, Names
    <3> QED
      BY <1>1, <1>2, <2>1, <3>1 DEF Filed, OnPages
  <2>6. SavingAll \/ AtDetails => OnPages(got, N + 1)'
    <3>1. ASSUME SavingAll \/ AtDetails, NEW p \in Item PROVE raw'[<<"page", p>>] = raw[<<"page", p>>]
      <4>1. <<"page", p>> # job
        BY <1>1, <3>1, Names DEF SavingAll, AtDetails
      <4> QED
        BY <1>4, <4>1, Names
    <3> QED
      BY <1>1, <1>2, <2>1, <3>1 DEF Filed, OnPages
  <2>7. AtDetails => raw'[All] = raw[All]
    BY <1>1, <1>4, Names DEF AtDetails
  <2>8. Filed'
    BY <1>1, <1>2, <1>4, <2>1, <2>5, <2>6, <2>7 DEF Filed, Saving, SavingPage, SavingAll, AtDetails
  <2> QED
    BY <2>3, <2>4, <2>8 DEF SaveInv
<1> QED
  BY <1>6, <1>7

LEMMA WriteFormattedSaves ==
  ASSUME SaveInv, WriteFormatted
  PROVE  SaveInv'
<1>1. /\ pc = "format" /\ formatted' = [formatted EXCEPT ![job] = data]
      /\ UNCHANGED <<listed, token, session, raw, page, cursor, got, expired, exit, faults, due>>
      /\ IF job \in Details THEN /\ pc' = "details" /\ todo' = todo \ {job[2]}
                                 /\ job' = All /\ data' = Empty
                            ELSE pc' = "items" /\ UNCHANGED <<todo, job, data>>
  BY Zenon DEF WriteFormatted, server, hist
<1>2. TypeOK /\ Parsed /\ Exited /\ Phases /\ Cursors /\ Covered /\ Filed
  BY DEF SaveInv
<1>3. /\ job \in Name \ Single /\ job \in Name /\ data \in Content /\ formatted \in [Name -> Content]
      /\ formatted' \in [Name -> Content] /\ FilesType'
  BY <1>1, <1>2 DEF TypeOK, FilesType
<1>4. formatted'[job] = data /\ \A n \in Name : n # job => formatted'[n] = formatted[n]
  BY <1>1, <1>3
<1>5. faults' \in 0..MaxFaults
  BY <1>1, <1>2 DEF TypeOK
<1>6. CASE job \in Details
  BY <1>1, <1>3, <1>4, <1>5, <1>6, DetailsSkipped
<1>7. CASE job \notin Details
  <2>1. pc' = "items" /\ UNCHANGED <<todo, job, data>>
    BY <1>1, <1>7
  <2>2. data.is = "response" /\ raw[job] = data
    BY <1>1, <1>2 DEF Parsed, Filed
  <2>3. TypeOK'
    BY <1>1, <1>2, <1>3, <2>1, <2>2 DEF TypeOK, NoMore
  <2>4. Parsed' /\ Exited' /\ Phases' /\ Cursors' /\ Covered' /\ SuccessSavesAll'
    BY <1>1, <1>2, <1>7, <2>1, <2>2 DEF Parsed, Exited, Phases, Cursors, Covered, SuccessSavesAll,
       Setup, Saving, SavingPage, SavingAll, AtDetails
  <2>5. SavingPage => OnPages(got, page)'
    <3>1. ASSUME SavingPage, NEW p \in Item, p < page
          PROVE  formatted'[<<"page", p>>] = formatted[<<"page", p>>]
      <4>1. p # page
        BY <1>2, <3>1, Constants DEF TypeOK
      <4>2. <<"page", p>> # job
        BY <3>1, <4>1, Names DEF SavingPage
      <4> QED
        BY <1>4, <4>2, Names
    <3> QED
      BY <1>1, <1>2, <3>1 DEF Filed, OnPages
  <2>6. SavingAll => OnPages(got, N + 1)'
    <3>1. ASSUME SavingAll, NEW p \in Item PROVE formatted'[<<"page", p>>] = formatted[<<"page", p>>]
      <4>1. <<"page", p>> # job
        BY <3>1, Names DEF SavingAll
      <4> QED
        BY <1>4, <4>1, Names
    <3> QED
      BY <1>1, <1>2, <3>1 DEF Filed, OnPages
  <2>7. \A i \in got : formatted'[<<"item", i>>] = formatted[<<"item", i>>]
    BY <1>2, <1>3, <1>4, Names DEF TypeOK
  <2>8. Filed'
    BY <1>1, <1>2, <1>4, <1>7, <2>1, <2>2, <2>5, <2>6, <2>7 DEF Filed, Saving, SavingPage, SavingAll, AtDetails
  <2> QED
    BY <2>3, <2>4, <2>8 DEF SaveInv
<1> QED
  BY <1>6, <1>7

\* The transactions of a response are saved: what WriteItems does to the files.
LEMMA ItemsSaved ==
  ASSUME SaveInv, pc = "items", formatted' = WithSingles(data.items, {}), raw' = raw
  PROVE  /\ FilesType' /\ \A n \in Name \ Single : formatted'[n] = formatted[n]
         /\ \A i \in got \cup data.items : formatted'[<<"item", i>>] = Response({i})
         /\ data.items \subseteq Item /\ data # Empty
<1>1. TypeOK /\ Parsed /\ Filed
  BY DEF SaveInv
<1>2. FilesType /\ data.items \subseteq Item /\ data # Empty /\ got \subseteq Item
  BY <1>1, Contents DEF TypeOK, FilesType, Content, Parsed
<1>3. ASSUME NEW i \in got \cup data.items PROVE formatted'[<<"item", i>>] = Response({i})
  BY <1>1, <1>2, <1>3, SinglesType DEF Filed
<1>4. FilesType' /\ \A n \in Name \ Single : formatted'[n] = formatted[n]
  BY <1>2, SinglesType DEF FilesType
<1> QED
  BY <1>2, <1>3, <1>4

\* With this page saved, what is got and what it holds is on the pages up to it.
LEMMA PageSaved ==
  ASSUME SaveInv, pc = "items", SavingPage, formatted' = WithSingles(data.items, {}), raw' = raw
  PROVE  \A i \in got \cup data.items :
           \E p \in Item : /\ p < page + 1
                           /\ i \in formatted'[<<"page", p>>].items /\ i \in raw'[<<"page", p>>].items
<1>1. TypeOK /\ Filed /\ Cursors
  BY DEF SaveInv
<1>2. page \in Item /\ page \in Nat
  BY <1>1, Constants DEF TypeOK, Cursors, Item
<1>3. \A p \in Item : p \in Nat /\ formatted'[<<"page", p>>] = formatted[<<"page", p>>]
  BY ItemsSaved, Names, Constants
<1>4. job = <<"page", page>> /\ raw[job] = data /\ formatted[job] = data /\ OnPages(got, page)
  BY <1>1 DEF Filed, SavingPage
<1>5. ASSUME NEW i \in got
      PROVE  \E p \in Item : /\ p < page + 1
                             /\ i \in formatted'[<<"page", p>>].items /\ i \in raw'[<<"page", p>>].items
  <2>1. PICK p \in Item : /\ p < page
                          /\ i \in formatted[<<"page", p>>].items /\ i \in raw[<<"page", p>>].items
    BY <1>4 DEF OnPages
  <2>2. p < page + 1
    BY <1>2, <1>3, <2>1
  <2> QED
    BY <1>3, <2>1, <2>2
<1>6. ASSUME NEW i \in data.items
      PROVE  \E p \in Item : /\ p < page + 1
                             /\ i \in formatted'[<<"page", p>>].items /\ i \in raw'[<<"page", p>>].items
  <2>1. page < page + 1
    BY <1>2
  <2> QED
    BY <1>2, <1>3, <1>4, <2>1
<1> QED
  BY <1>5, <1>6

LEMMA WriteItemsSaves ==
  ASSUME SaveInv, WriteItems
  PROVE  SaveInv'
<1>1. /\ pc = "items" /\ formatted' = WithSingles(data.items, {})
      /\ UNCHANGED <<listed, token, raw, faults, due>>
      /\ IF job = All THEN AfterAll ELSE AfterPage
  BY Zenon DEF WriteItems, server
<1>2. TypeOK /\ Parsed /\ Exited /\ Phases /\ Cursors /\ Covered /\ Filed
  BY DEF SaveInv
<1>3. /\ FilesType' /\ \A n \in Name \ Single : formatted'[n] = formatted[n]
      /\ \A i \in got \cup data.items : formatted'[<<"item", i>>] = Response({i})
      /\ data.items \subseteq Item /\ data # Empty /\ data.is = "response"
      /\ raw[job] = data /\ formatted[job] = data
  BY <1>1, <1>2, ItemsSaved DEF Parsed, Filed
<1>4. Saving /\ (SavingPage \/ SavingAll)
  BY <1>1, <1>2 DEF Phases, Saving
<1>5. faults' \in 0..MaxFaults /\ token' \in {"none", "stale", "live"} /\ got \subseteq Item
  BY <1>1, <1>2 DEF TypeOK
<1>6. CASE job = All
  <2>1. /\ todo' = Wanted(got) /\ pc' = "details" /\ data' = Empty
        /\ UNCHANGED <<session, page, cursor, got, job, expired, exit>>
    BY <1>1, <1>6 DEF AfterAll
  <2>2. Wanted(got) \subseteq got
    BY DEF Wanted
  <2>3. SavingAll
    BY <1>4, <1>6 DEF SavingAll
  <2>4. data = Response(got) /\ data.items = got /\ OnPages(got, N + 1)
    BY <1>2, <1>5, <2>3, Contents DEF Filed
  <2>5. raw'[All].items = got /\ formatted'[All].items = got
    BY <1>1, <1>3, <1>6, <2>4, Names
  <2>6. TypeOK'
    BY <1>1, <1>2, <1>3, <2>1, <2>2, Contents DEF TypeOK, FilesType
  <2>7. Parsed' /\ Exited' /\ Phases' /\ Cursors' /\ Covered' /\ SuccessSavesAll'
    BY <1>1, <1>2, <2>1, <2>3 DEF Parsed, Exited, Phases, Cursors, Covered, SuccessSavesAll,
       Setup, Saving, SavingPage, SavingAll, AtDetails
  <2>8. OnPages(got, N + 1)'
    BY <1>1, <1>3, <2>1, <2>4, Names DEF OnPages
  <2>9. Filed'
    BY <1>1, <1>3, <2>1, <2>5, <2>8 DEF Filed, Saving, SavingPage, SavingAll, AtDetails
  <2> QED
    BY <2>6, <2>7, <2>9 DEF SaveInv
<1>7. CASE job # All
  <2> DEFINE all == got \cup data.items
  <2>1. SavingPage /\ AfterPage /\ all \subseteq Item
    BY <1>1, <1>3, <1>4, <1>5, <1>7 DEF SavingAll
  <2>2. \A i \in all : \E p \in Item : /\ p < page + 1
                                       /\ i \in formatted'[<<"page", p>>].items
                                       /\ i \in raw'[<<"page", p>>].items
    BY <1>1, <2>1, PageSaved
  <2>3. \A i \in due : i \in all \/ i < cursor
    BY <1>2, <1>3, <2>1 DEF Covered
  <2>4. /\ cursor = NoMore \/ (2 <= cursor /\ page + cursor <= N + 1)
        /\ page \in Nat /\ 1 <= page /\ page <= N /\ cursor \in Nat /\ N \in Nat
    BY <1>2, <1>3, <2>1, Constants DEF Cursors, TypeOK, Top
  <2>5. CASE cursor # NoMore
    <3>1. /\ got' = all /\ page' = page + 1 /\ pc' = "page" /\ job' = All /\ data' = Empty
          /\ UNCHANGED <<session, cursor, todo, expired, exit>>
      BY <2>1, <2>5 DEF AfterPage
    <3>2. 2 <= cursor /\ page' + cursor' <= N + 2 /\ page' <= N /\ page' # 1 /\ page' \in 1..N + 1
      BY <2>4, <2>5, <3>1
    <3>3. TypeOK'
      BY <1>1, <1>2, <1>3, <2>1, <2>5, <3>1, <3>2, Names, Contents DEF TypeOK, FilesType
    <3>4. Parsed' /\ Exited' /\ Phases' /\ Cursors' /\ SuccessSavesAll'
      BY <1>1, <1>2, <3>1, <3>2 DEF Parsed, Exited, Phases, Cursors, SuccessSavesAll,
         Setup, Saving, SavingPage, SavingAll, AtDetails
    <3>5. Covered'
      BY <1>1, <1>2, <2>3, <3>1 DEF Covered, Setup, Saving, SavingPage, SavingAll, AtDetails
    <3>6. OnPages(got, page)'
      BY <2>2, <3>1 DEF OnPages
    <3>7. Filed'
      BY <1>3, <3>1, <3>6 DEF Filed, Saving, SavingPage, SavingAll, AtDetails
    <3> QED
      BY <3>3, <3>4, <3>5, <3>7 DEF SaveInv
  <2>6. CASE cursor = NoMore /\ all # {}
    <3>1. /\ got' = all /\ job' = All /\ data' = Response(all) /\ pc' = "raw"
          /\ UNCHANGED <<session, page, cursor, todo, expired, exit>>
      BY <2>1, <2>6 DEF AfterPage
    <3>2. data' \in Content /\ data'.is = "response"
      BY <2>1, <3>1, Contents
    <3>3. TypeOK'
      BY <1>1, <1>2, <1>3, <2>1, <3>1, <3>2, Names DEF TypeOK, FilesType
    <3>4. job' # <<"page", page'>> /\ job' \notin Details
      <4>1. page \in Item /\ page' = page
        BY <2>4, <3>1 DEF Item
      <4> QED
        BY <3>1, <4>1, Names
    <3>5. Parsed' /\ Exited' /\ Phases' /\ Cursors' /\ SuccessSavesAll'
      BY <1>1, <1>2, <3>1, <3>2, <3>4 DEF Parsed, Exited, Phases, Cursors, SuccessSavesAll,
         Setup, Saving, SavingPage, SavingAll, AtDetails
    <3>6. due \subseteq all
      <4>1. ASSUME NEW i \in due PROVE i \in all
        <5>1. i \in Nat
          BY <1>2, Constants DEF TypeOK
        <5> QED
          BY <2>3, <2>6, <5>1 DEF NoMore
      <4> QED
        BY <4>1
    <3>7. Covered'
      BY <1>1, <1>2, <3>1, <3>4, <3>6 DEF Covered, Setup, Saving, SavingPage, SavingAll, AtDetails
    <3>8. OnPages(got, N + 1)'
      <4>1. ASSUME NEW p \in Item PROVE p < N + 1
        BY Constants
      <4> QED
        BY <2>2, <3>1, <4>1 DEF OnPages
    <3>9. Filed'
      BY <1>3, <3>1, <3>4, <3>8 DEF Filed, Saving, SavingPage, SavingAll, AtDetails
    <3> QED
      BY <3>3, <3>5, <3>7, <3>9 DEF SaveInv
  <2>7. CASE cursor = NoMore /\ all = {}
    <3>1. Exit("1")
      BY <2>1, <2>7 DEF AfterPage
    <3> QED
      BY <1>1, <1>3, <1>5, <3>1, ExitSaves
  <2> QED
    BY <2>5, <2>6, <2>7
<1> QED
  BY <1>6, <1>7

LEMMA WriteFailsSaves ==
  ASSUME SaveInv, WriteFails
  PROVE  SaveInv'
<1>1. /\ pc \in {"raw", "format", "items"} /\ CutShort /\ SaveError
      /\ UNCHANGED <<listed, token, due>> /\ Fault
  BY DEF WriteFails, server
<1>2. TypeOK /\ Phases
  BY DEF SaveInv
<1>3. FilesType' /\ faults' \in 0..MaxFaults /\ token' \in {"none", "stale", "live"}
  BY <1>1, <1>2, CutShortType, FaultType DEF TypeOK
<1>4. CASE job \notin Details
  <2>1. Exit("1")
    BY <1>1, <1>4 DEF SaveError
  <2> QED
    BY <1>1, <1>3, <2>1, ExitSaves
<1>5. CASE job \in Details
  <2>1. /\ pc' = "details" /\ todo' = todo \ {job[2]} /\ job' = All /\ data' = Empty
        /\ UNCHANGED <<session, page, cursor, got, expired, exit>>
    BY <1>1, <1>5 DEF SaveError
  <2>2. pc \in {"raw", "format"}
    BY <1>1, <1>2, <1>5 DEF Phases
  <2>3. /\ raw \in [Name \ Single -> Content] /\ formatted \in [Name -> Content]
        /\ job \in Name \ Single /\ job \in Name
    BY <1>2 DEF TypeOK
  <2>4. /\ \A n \in Name \ Single : n # job => raw'[n] = raw[n]
        /\ \A n \in Name : n # job => formatted'[n] = formatted[n]
    BY <1>1, <2>2, <2>3 DEF CutShort
  <2> QED
    BY <1>1, <1>3, <1>5, <2>1, <2>2, <2>4, DetailsSkipped
<1> QED
  BY <1>4, <1>5

\* A run that ends before it is done.
LEMMA ExitsSave ==
  ASSUME SaveInv, Crash \/ SetupFails \/ GetPageFails
  PROVE  SaveInv'
<1>1. TypeOK
  BY DEF SaveInv
<1>2. FilesType /\ (UNCHANGED files => FilesType')
  BY <1>1 DEF TypeOK, FilesType, files
<1>3. CASE Crash
  <2>1. token' \in {"none", "stale", "live"}
    BY <1>1, <1>3 DEF Crash, TornToken, TypeOK
  <2> QED
    BY <1>1, <1>3, <2>1, CutShortType, FaultType, ExitSaves DEF Crash
<1>4. CASE SetupFails
  BY <1>1, <1>2, <1>4, FaultType, ExitSaves DEF SetupFails, server, TypeOK
<1>5. CASE GetPageFails
  <2>1. faults' \in 0..MaxFaults
    BY <1>1, <1>5, NoAnswerType DEF GetPageFails, TypeOK
  <2> QED
    BY <1>1, <1>2, <1>5, <2>1, ExitSaves DEF GetPageFails, server, TypeOK
<1> QED
  BY <1>3, <1>4, <1>5

(***************************************************************************)
(* The details.                                                            *)
(***************************************************************************)
LEMMA DetailsSave ==
  ASSUME SaveInv, GetDetails \/ GetDetailsNil \/ GetDetailsFails
  PROVE  SaveInv'
<1>1. TypeOK /\ Parsed /\ Exited /\ Phases /\ Cursors /\ Covered /\ Filed
  BY DEF SaveInv
<1>2. /\ pc = "details" /\ todo # {}
      /\ UNCHANGED <<listed, token, session, raw, formatted, page, cursor, got, expired, exit, due>>
  BY DEF GetDetails, GetDetailsNil, GetDetailsFails, server, files, progress, hist
<1>3. NextTodo \in Item
  BY <1>1, <1>2, MaxIs DEF TypeOK, NextTodo
<1>4. faults' \in 0..MaxFaults
  BY <1>1, NoAnswerType DEF GetDetails, GetDetailsNil, GetDetailsFails, hist, TypeOK
<1>5. /\ AtDetails /\ due \subseteq got /\ OnPages(got, N + 1)
      /\ raw[All].items = got /\ formatted[All].items = got
  BY <1>1, <1>2 DEF AtDetails, Covered, Filed
<1>6. CASE GetDetails \/ GetDetailsNil
  <2>1. /\ job' = <<"details", NextTodo>> /\ pc' = "raw" /\ todo' = todo
        /\ data' = Empty \/ data' = Response({NextTodo})
    BY <1>6 DEF GetDetails, GetDetailsNil, progress
  <2>2. job' \in Name \ Single /\ job' \in Details
    BY <1>3, <2>1, Names
  <2>3. data' \in Content /\ (data' = Empty \/ data'.is = "response")
    BY <1>3, <2>1, Contents
  <2>4. ~SavingPage' /\ ~SavingAll' /\ AtDetails' /\ Saving'
    BY <1>1, <1>2, <2>1, <2>2, Names, Constants DEF SavingPage, SavingAll, AtDetails, Saving, TypeOK, Cursors, Item
  <2>5. TypeOK'
    BY <1>1, <1>2, <1>4, <2>1, <2>2, <2>3 DEF TypeOK
  <2>6. Parsed' /\ Exited' /\ Phases' /\ Cursors' /\ SuccessSavesAll'
    BY <1>1, <1>2, <2>1, <2>2, <2>3, <2>4 DEF Parsed, Exited, Phases, Cursors, SuccessSavesAll, Setup
  <2>7. Covered' /\ Filed'
    BY <1>1, <1>2, <1>5, <2>1, <2>4 DEF Covered, Filed, OnPages, Setup
  <2> QED
    BY <2>5, <2>6, <2>7 DEF SaveInv
<1>7. CASE GetDetailsFails
  <2>1. todo' = todo \ {NextTodo} /\ UNCHANGED <<pc, job, data>>
    BY <1>7 DEF GetDetailsFails
  <2>2. TypeOK'
    BY <1>1, <1>2, <1>4, <2>1 DEF TypeOK
  <2>3. Parsed' /\ Exited' /\ Phases' /\ Cursors' /\ SuccessSavesAll'
    BY <1>1, <1>2, <2>1 DEF Parsed, Exited, Phases, Cursors, SuccessSavesAll,
       Setup, Saving, SavingPage, SavingAll, AtDetails
  <2>4. Covered' /\ Filed'
    BY <1>1, <1>2, <1>5, <2>1 DEF Covered, Filed, OnPages, Setup, Saving, SavingPage, SavingAll, AtDetails
  <2> QED
    BY <2>2, <2>3, <2>4 DEF SaveInv
<1> QED
  BY <1>6, <1>7

LEMMA FinishSaves ==
  ASSUME SaveInv, Finish
  PROVE  SaveInv'
<1>1. TypeOK /\ Covered /\ Filed
  BY DEF SaveInv
<1>2. /\ pc = "details" /\ pc' = "down" /\ exit' = "0" /\ session' = "none"
      /\ page' = 1 /\ cursor' = Top /\ got' = {} /\ todo' = {}
      /\ job' = All /\ data' = Empty /\ expired' = FALSE
      /\ UNCHANGED <<listed, token, raw, formatted, faults, due>>
  BY DEF Finish, Exit, server, files
<1>3. AtDetails
  BY <1>2 DEF AtDetails
<1>4. /\ due \subseteq got /\ OnPages(got, N + 1) /\ got \subseteq Item
      /\ raw[All].items = got /\ formatted[All].items = got
      /\ \A i \in got : formatted[<<"item", i>>] = Response({i})
  BY <1>1, <1>3 DEF Covered, Filed, TypeOK
<1>5. ASSUME NEW i \in due PROVE Saved(i)'
  <2>1. PICK p \in Item : i \in formatted[<<"page", p>>].items /\ i \in raw[<<"page", p>>].items
    BY <1>4, <1>5 DEF OnPages
  <2>2. <<"page", p>> \in Page
    BY Names
  <2> QED
    BY <1>2, <1>4, <2>1, <2>2 DEF Saved
<1>6. SuccessSavesAll'
  BY <1>2, <1>5 DEF SuccessSavesAll
<1>7. 1 \in 1..N + 1 /\ Top \in 0..Top /\ 1 <= N
  BY Constants DEF Top
<1>8. TypeOK'
  BY <1>1, <1>2, <1>7, Names, Contents DEF TypeOK
<1>9. Parsed' /\ Exited' /\ Phases' /\ Cursors' /\ Covered' /\ Filed'
  BY <1>1, <1>2, <1>7 DEF Parsed, Exited, Phases, Cursors, Covered, Filed, Setup,
     Saving, SavingPage, SavingAll, AtDetails
<1> QED
  BY <1>6, <1>8, <1>9 DEF SaveInv

LEMMA SaveInit == Init => SaveInv
<1> SUFFICES ASSUME Init PROVE SaveInv
  OBVIOUS
<1>1. 1 \in 1..N + 1 /\ Top \in 0..Top /\ 1 <= N /\ 0 \in 0..MaxFaults
  BY Constants DEF Top
<1>2. TypeOK
  BY <1>1, Names, Contents, Zenon DEF Init, TypeOK
<1>3. Parsed /\ Exited /\ Phases /\ Cursors /\ Covered /\ Filed /\ SuccessSavesAll
  BY <1>1 DEF Init, Parsed, Exited, Phases, Cursors, Covered, Filed, SuccessSavesAll, Setup,
     Saving, SavingPage, SavingAll, AtDetails
<1> QED
  BY <1>2, <1>3 DEF SaveInv

LEMMA SaveInvHolds == Spec => []SaveInv
<1>1. SaveInv /\ [Next]_vars => SaveInv'
  BY SurroundingsSave, GetPageSaves, GetPageNilSaves, WriteRawSaves, WriteFormattedSaves,
     WriteItemsSaves, WriteFailsSaves, ExitsSave, DetailsSave, FinishSaves DEF Next, Program
<1> QED
  BY SaveInit, <1>1, PTL DEF Spec

\* The downloader's variables keep their types: no run counts more pages than there are
\* items, asks for a page after the last one, or writes nil into a formatted file.
THEOREM TypeCorrect == Spec => []TypeOK
<1>1. SaveInv => TypeOK
  BY DEF SaveInv
<1> QED
  BY <1>1, SaveInvHolds, PTL

\* A run that exits with 0 has saved every transaction that was listed when it began,
\* whatever came to be listed meanwhile and whatever earlier runs left.
THEOREM SuccessSaves == Spec => []SuccessSavesAll
<1>1. SaveInv => SuccessSavesAll
  BY DEF SaveInv
<1> QED
  BY <1>1, SaveInvHolds, PTL
=============================================================================
