--------------------------- MODULE MCCalculations ---------------------------
(* Bounded inputs for Calculations. *)
EXTENDS Calculations

\* Fees: tokens with up to two fees, topics with up to two.
FeeBase == [type |-> "fixed", collector |-> "c", exempt |-> FALSE, amount |-> 1,
            max |-> 0, net |-> FALSE, fallback |-> Null]
Fees ==
  {[FeeBase EXCEPT !.collector = c, !.exempt = x, !.amount = a] :
     c \in {"c", "d"}, x \in BOOLEAN, a \in 1..2}
  \cup {[FeeBase EXCEPT !.type = "fractional", !.exempt = x, !.max = m, !.net = n] :
     x \in BOOLEAN, m \in 0..1, n \in BOOLEAN}
  \cup {[FeeBase EXCEPT !.type = "royalty", !.exempt = x, !.amount = a, !.fallback = b] :
     x \in BOOLEAN, a \in 1..2, b \in {Null, 1}}
Expected(f) == [type |-> f.type, collector |-> f.collector, exempt |-> f.exempt,
                amount |-> f.amount, max |-> f.max, exclusive |-> f.net,
                fallback |-> stringifyNumberValue(f.fallback)]
MCTokenInput == [topic : {"token"}, fees : BoundedSeq(Fees, 2), expected : {Expected(f) : f \in Fees}]

TopicFees == BoundedSeq([collector : {"c", "d"}, amount : 1..2, token : {None, "t"}], 2)
MCTopicInput == [topic : {"topic"}, fees : TopicFees, expected : TopicFees]

\* Endpoints: settings of the process, on top of a file or of none.
Settings ==
  [NODE_IP : {Unset, Empty, "node", "portless"}, NODE_ACCOUNT_ID : {Unset, "0.0.3"},
   MIRROR_NETWORK : {Unset}, MIRROR_NODE_REST_URL : {Unset, Empty, "rest"},
   MIRROR_NODE_REST_JAVA_URL : {Unset, Empty, "java"},
   JSON_RPC_SERVER_URL : {Unset, Empty, "rpc"}]
MCEnvInput == [topic : {"endpoints"}, file : {"none", "testnet", "local"}, env : Settings,
             up : SUBSET {DefaultRpc, LocalNode, "node", "rest", "java", "rpc"}]

\* Repositories: entries of the root, of a directory below it and of one below
\* that, on pages; and the requests that fail.
File(n, tables, url) == [type |-> "md", path |-> n, download_url |-> url, tables |-> tables]
Directory(n) == [type |-> "dir", path |-> n, download_url |-> FALSE, tables |-> <<>>]
Picture(n) == [type |-> "other", path |-> n, download_url |-> TRUE, tables |-> <<>>]
Rows == << <<"other", "implemented">>, <<"x", "yes">>, <<"x", "no">>, <<"x">>, <<"x", "">> >>
Plain == << <<"other">>, <<"yes">> >>
FileA == File("a", <<Rows, Plain, <<>> >>, TRUE)
FileB == File("b", <<Rows, Rows>>, TRUE)
FileC == File("c", <<Rows>>, TRUE)
FileD == File("d", <<Rows>>, FALSE)
FileE == File("e", <<Plain, Rows>>, TRUE)

Paged(items) ==
  [p \in 1..(Len(items) \div PageSize + 1) |->
     SubSeq(items, (p - 1) * PageSize + 1, IF p * PageSize < Len(items) THEN p * PageSize ELSE Len(items))]
Unlike(s) == \A i, j \in DOMAIN s : i # j => s[i] # s[j]
RootItems == {s \in BoundedSeq({FileA, FileB, Picture("p"), Directory("sub")}, 4) : Unlike(s)}
SubItems == {<<>>, <<FileD, FileC>>, <<FileC, Directory("deep"), Picture("q")>>}
MCRepository ==
  {[d \in {"root", "sub", "deep"} |->
      CASE d = "root" -> Paged(r) [] d = "sub" -> Paged(s) [] d = "deep" -> Paged(<<FileE>>)] :
     r \in RootItems, s \in SubItems}
MCFailing ==
  [pages : SUBSET {<<"root", 1>>, <<"root", 2>>, <<"sub", 1>>, <<"sub", 2>>, <<"deep", 1>>},
   files : {{}, {"a"}, {"c", "e"}}]
=============================================================================
