----------------------------- MODULE BookLadder -----------------------------
(***************************************************************************)
(* The central limit order book and what it stands for: the ladder of      *)
(* queues, kept in a history variable so that TLC need not read it off the *)
(* linked lists again for every abstract step.                             *)
(***************************************************************************)
EXTENDS CentralLimitOrderBook

VARIABLE ladder     \* history: always Ladder(book)

ladderVars == <<vars, ladder>>
LadderInit == Init /\ ladder = Ladder(book)
LadderNext == Next /\ ladder' = Ladder(book')
LadderSpec == LadderInit /\ [][LadderNext]_ladderVars

Engine == INSTANCE MatchingEngine WITH taker <- order

\* The CLOB implements price-time priority: it trades with the oldest order at
\* the best price, rests only what crosses nothing, at the back of the queue,
\* and moves nobody else, whatever cancels and updates came before.
ImplementsMatchingEngine == Engine!EngineSpec
=============================================================================
