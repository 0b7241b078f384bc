----------------------------- MODULE TestCount -----------------------------
(***************************************************************************)
(* The script that counts the tests in the specifications (testCount.ts):  *)
(* a walk over the pages of the repository's directories, then a download  *)
(* of each markdown file found and a count over its tables.  Requests for  *)
(* pages and files fail independently: a failed page ends its directory, a *)
(* failed download skips its file.                                         *)
(*                                                                         *)
(* A repository gives, for each directory, its items on the pages the      *)
(* GitHub API lists them on.  An item is a directory, a markdown file or   *)
(* something else; what a file holds goes with its item.                   *)
(***************************************************************************)
EXTENDS Integers, Sequences, SequencesExt, FiniteSets

CONSTANTS
  PageSize,     \* items in a page: 100
  Root,         \* docs/test-specifications
  Repository,   \* what the walk may find
  Failing       \* the requests that may fail, of [pages, files]

GitHubContentItem == [type : {"md", "dir", "other"}, path : STRING,
         download_url : BOOLEAN, tables : Seq(Seq(Seq(STRING)))]

\* The API fills every page but the last; the path of an item is its own, and
\* a directory that is listed can be.
WellFormed(r) ==
  /\ Root \in DOMAIN r
  /\ \A d \in DOMAIN r :
       /\ r[d] \in Seq(Seq(GitHubContentItem)) /\ r[d] # <<>>
       /\ \A p \in DOMAIN r[d] :
            /\ Len(r[d][p]) = PageSize <=> p < Len(r[d])
            /\ \A i \in DOMAIN r[d][p] :
                 r[d][p][i].type = "dir" => r[d][p][i].path \in DOMAIN r \ {Root}
  /\ \A d, e \in DOMAIN r : \A p \in DOMAIN r[d], q \in DOMAIN r[e] :
       \A i \in DOMAIN r[d][p], j \in DOMAIN r[e][q] :
         r[d][p][i].path = r[e][q][j].path => d = e /\ p = q /\ i = j

ASSUME CountAssumption == \A r \in Repository : WellFormed(r)

VARIABLES
  repo, failing,   \* what the requests will find
  calls,           \* the calls of fetchAllMarkdownFiles, the innermost last
  files,           \* the markdown files found, in the order they were pushed
  next,            \* main's place in files
  totals,
  visited          \* history: the places <<dir, page, item>> the walk has been

walk == <<calls, files, visited>>
count == <<next, totals>>
countVars == <<repo, failing, walk, count>>

\* A call is at an item of a page; item 0: the page is yet to be fetched.
Call(dir) == [dir |-> dir, page |-> 1, item |-> 0]

CountInit ==
  /\ repo \in Repository /\ failing \in Failing
  /\ calls = <<Call(Root)>> /\ files = <<>> /\ visited = {}
  /\ next = 1 /\ totals = [implemented |-> 0, notImplemented |-> 0]

-----------------------------------------------------------------------------
\* fetchAllMarkdownFiles

Top == calls[Len(calls)]
Page == repo[Top.dir][Top.page]
Goto(page, item) == [calls EXCEPT ![Len(calls)] = [dir |-> Top.dir, page |-> page, item |-> item]]
Return == SubSeq(calls, 1, Len(calls) - 1)

\* Mutant: a page is the last unless it is longer than the limit.
MorePagesThan == Len(Page) > PageSize
HasMore == Len(Page) = PageSize

\* The catch ends the loop and so the call; the caller never sees the error.
FetchPage ==
  /\ calls # <<>> /\ Top.item = 0
  /\ calls' = IF <<Top.dir, Top.page>> \in failing.pages THEN Return ELSE Goto(Top.page, 1)
  /\ UNCHANGED <<repo, failing, files, visited, count>>

VisitItem ==
  /\ calls # <<>> /\ Top.item \in DOMAIN Page
  /\ LET item == Page[Top.item]
         rest == Goto(Top.page, Top.item + 1)
     IN /\ calls' = IF item.type = "dir" THEN Append(rest, Call(item.path)) ELSE rest
        /\ files' = IF item.type = "md" THEN Append(files, item) ELSE files
  /\ visited' = visited \cup {<<Top.dir, Top.page, Top.item>>}
  /\ UNCHANGED <<repo, failing, count>>

EndPage ==
  /\ calls # <<>> /\ Top.item = Len(Page) + 1
  /\ calls' = IF HasMore THEN Goto(Top.page + 1, 0) ELSE Return
  /\ UNCHANGED <<repo, failing, files, visited, count>>

-----------------------------------------------------------------------------
\* parseMarkdownWithTables: a table is a sequence of rows of cells, the header
\* first.  The first column whose header speaks of implementation decides; rows
\* too short for it are passed over, and whatever is not a yes is a no.
Column(table) == SelectInSeq(table[1], LAMBDA h : h = "implemented")

CountedRows(table, implemented) ==
  {r \in 2..Len(table) :
     /\ Column(table) \in DOMAIN table[r]
     /\ (table[r][Column(table)] = "yes") = implemented}

RowsOf(tables, implemented) ==
  UNION {{t} \X CountedRows(tables[t], implemented) : t \in DOMAIN tables}

parseMarkdownWithTables(tables) ==
  [implemented |-> Cardinality(RowsOf(tables, TRUE)),
   notImplemented |-> Cardinality(RowsOf(tables, FALSE))]

-----------------------------------------------------------------------------
\* main: one file after the other; one without a download_url or whose download
\* fails is left out of the totals.

Reads(f) == f.download_url /\ f.path \notin failing.files

CountFile ==
  /\ calls = <<>> /\ next \in DOMAIN files
  /\ next' = next + 1
  /\ LET c == parseMarkdownWithTables(files[next].tables) IN
     totals' = IF Reads(files[next])
               THEN [implemented |-> totals.implemented + c.implemented,
                     notImplemented |-> totals.notImplemented + c.notImplemented]
               ELSE totals
  /\ UNCHANGED <<repo, failing, walk>>

CountNext == FetchPage \/ VisitItem \/ EndPage \/ CountFile

CountSpec == CountInit /\ [][CountNext]_countVars

-----------------------------------------------------------------------------
\* Properties

\* What can be read, whatever the order of the walk: the items of a directory
\* on the pages ahead of the first that fails, of the directories that such
\* items lead to from the root, and of these the markdown files that download.
IsShown(d, p) == \A q \in 1..p : <<d, q>> \notin failing.pages
Shown(d) ==
  UNION {{repo[d][p][i] : i \in DOMAIN repo[d][p]} : p \in {q \in DOMAIN repo[d] : IsShown(d, q)}}
Closed(S) ==
  /\ Root \in S
  /\ \A d \in S : \A item \in Shown(d) : item.type = "dir" => item.path \in S
Reached == {d \in DOMAIN repo : \A S \in SUBSET DOMAIN repo : Closed(S) => d \in S}
Readable == {f \in UNION {Shown(d) : d \in Reached} : f.type = "md" /\ Reads(f)}
ReadableRows(implemented) ==
  UNION {{f.path} \X RowsOf(f.tables, implemented) : f \in Readable}

\* The totals are those of the files that can be read, each row of each of them
\* once: whatever fails, wherever pages end and however deep the directories go,
\* nothing readable is left out and nothing is counted twice.
TestsCounted ==
  calls = <<>> /\ next > Len(files) =>
    totals = [implemented |-> Cardinality(ReadableRows(TRUE)),
              notImplemented |-> Cardinality(ReadableRows(FALSE))]
=============================================================================
