------------------------------ MODULE History ------------------------------
(***************************************************************************)
(* Paging through an address's transactions with the indexer adapters      *)
(* (adapters/indexer.ts): a reader asks for a page, passes the page's      *)
(* nextCursor to the next call and stops when there is none, while new     *)
(* transactions are mined and sources fail. The adapters' HTTP services    *)
(* are external: a source lists what it was asked for, newest first.       *)
(***************************************************************************)
EXTENDS Naturals, Sequences, SequencesExt, FiniteSetsExt

CONSTANTS
  Sources,    \* the adapters, in the order the fallback tries them
  Limit,      \* records of a page
  FromBlock,  \* the earliest block the reader wants
  Older,      \* transactions mined before the reader starts
  MaxTx,      \* bound: transactions ever mined
  MaxRead,    \* bound: records after which a reader gives up
  MaxFaults   \* bound: calls to which a source does not answer

Kinds == {"tether", "etherscan", "solana"}
HistoryAssumption ==
  /\ Sources \in Seq(Kinds) /\ Sources # <<>>
  /\ Limit \in Nat \ {0} /\ FromBlock \in Nat /\ MaxTx \in Nat /\ Older \in 0..MaxTx
  /\ MaxRead \in Nat /\ MaxFaults \in Nat

VARIABLES
  mined,   \* transactions of the address: 1..mined, each in a block of its own
  cursor,  \* what the reader passes to the next call
  list,    \* what it was given so far
  since,   \* those mined when the first page was read
  done,    \* no cursor came with the last page
  faults

vars == <<mined, cursor, list, since, done, faults>>
NoCursor == [kind |-> "none", at |-> 0]
Opened == cursor # NoCursor \/ done

Init == /\ mined = Older /\ cursor = NoCursor /\ list = <<>>
        /\ since = 0 /\ done = FALSE /\ faults = 0

\* The transactions a source lists, newest first: Etherscan's and Tether's
\* requests carry the earliest block, Solana's has no such parameter.
Newest(hi, lo) == [i \in 1..(IF hi < lo THEN 0 ELSE hi + 1 - lo) |-> hi + 1 - i]
Earliest(src) == IF src = "solana" \/ FromBlock = 0 THEN 1 ELSE FromBlock
Listing(src) == Newest(mined, Earliest(src))

\* The cursors a source takes for its own, and the page it makes of one: a
\* number for Etherscan, which reads the digits that any other cursor happens
\* to start with, and otherwise starts over; a transaction for Solana and for
\* Tether, which refuse what is not theirs.
PageFromCursor(c) ==
  CASE c.kind = "none" -> {1}
    [] c.kind = "etherscan" -> {c.at}
    [] OTHER -> 1..MaxTx
Accepts(src, c) == src = "etherscan" \/ c.kind \in {"none", src}

Before(src, at) == Newest(IF at = 0 THEN mined ELSE at - 1, Earliest(src))
FirstOf(s) == SubSeq(s, 1, IF Len(s) < Limit THEN Len(s) ELSE Limit)
Txlist(page) == LET all == Listing("etherscan")
                IN  FirstOf(SubSeq(all, (page - 1) * Limit + 1, Len(all)))

\* A page implies that there may be more only when it is full.
Full(records) == Len(records) = Limit

NextPage(page) == page + 1
EtherscanPages(c) ==
  {LET records == Txlist(p) IN
     [records |-> records,
      next |-> IF Full(records) THEN [kind |-> "etherscan", at |-> NextPage(p)] ELSE NoCursor] :
   p \in PageFromCursor(c)}
CursorOf(records) == Last(records)
SolanaPages(c) ==
  LET records == FirstOf(Before("solana", c.at)) IN
  {[records |-> records,
    next |-> IF Full(records) THEN [kind |-> "solana", at |-> CursorOf(records)] ELSE NoCursor]}
\* The service says whether there is more.
TetherPages(c) ==
  LET records == FirstOf(Before("tether", c.at)) IN
  {[records |-> records,
    next |-> IF Len(records) < Len(Before("tether", c.at))
             THEN [kind |-> "tether", at |-> Last(records)] ELSE NoCursor]}
Pages(src, c) == CASE src = "etherscan" -> EtherscanPages(c)
                   [] src = "solana" -> SolanaPages(c)
                   [] src = "tether" -> TetherPages(c)

\* The fallback hands the same cursor to one adapter after the other until
\* one does not throw.
Throws(src, down) == src \in down \/ ~Accepts(src, cursor)
TryInOrder(down) ==
  LET able == {i \in DOMAIN Sources : ~Throws(Sources[i], down)}
  IN  IF able = {} THEN {} ELSE Pages(Sources[Min(able)], cursor)

\* The reader.
Read(down) ==
  /\ ~done /\ Len(list) < MaxRead
  /\ down # {} => faults < MaxFaults
  /\ faults' = IF down = {} THEN faults ELSE faults + 1
  /\ IF TryInOrder(down) = {}
     THEN UNCHANGED <<cursor, list, since, done>>
     ELSE \E page \in TryInOrder(down) :
            /\ list' = list \o page.records
            /\ since' = IF Opened THEN since ELSE mined
            /\ cursor' = page.next /\ done' = (page.next = NoCursor)
  /\ UNCHANGED mined

\* The chain.
Mine == /\ mined < MaxTx /\ mined' = mined + 1
        /\ UNCHANGED <<cursor, list, since, done, faults>>

Next == Mine \/ \E down \in SUBSET ToSet(Sources) : Read(down)
\* A reader goes on reading, from sources that answer in the end.
Spec == Init /\ [][Next]_vars
FairSpec == Spec /\ WF_vars(Read({}))

-----------------------------------------------------------------------------
TypeOK ==
  /\ mined \in Older..MaxTx /\ since \in 0..mined /\ done \in BOOLEAN /\ faults \in 0..MaxFaults
  /\ cursor \in [kind: {"none"} \cup ToSet(Sources), at: 0..MaxTx + 1]
  /\ ToSet(list) \subseteq 1..mined /\ (done => cursor = NoCursor)
  /\ cursor.kind = "etherscan" => cursor.at * Limit = Len(list) + Limit
  /\ cursor.kind = "solana" => cursor.at = Last(list)

\* When the reader is through, it has every transaction that was there when
\* it began, whatever was mined and whichever calls failed meanwhile.
NothingSkipped == done => {t \in 1..since : t >= FromBlock} \subseteq ToSet(list)

\* The pages line up: no transaction is on two of them, and newer ones come
\* first ("a nextCursor to fetch the following page", indexer.ts:75).
PagesLineUp == \A i, j \in DOMAIN list : i < j => list[i] > list[j]
\* While nothing is mined that is all a numbered page needs; a transaction
\* mined between two pages moves the last record of one onto the next.
StillPagesLineUp == mined = since => PagesLineUp

\* Nothing earlier than the reader asked for ("A real indexer honors
\* fromBlock/toBlock/limit", indexer.ts:98).
InWindow == \A i \in DOMAIN list : list[i] >= FromBlock

\* The reader comes to an end.
ReachesTheEnd == <>done
=============================================================================
