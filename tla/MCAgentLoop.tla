---------------------------- MODULE MCAgentLoop ------------------------------
EXTENDS AgentLoop

CONSTANTS c1, c2, t1, t2

Leg(vector, keyword, scores, stored) ==
  [scoped |-> TRUE, worded |-> TRUE, embedded |-> TRUE, vector |-> vector,
   keyword |-> keyword, scores |-> scores, dbDown |-> FALSE, docs |-> {"d"},
   rows |-> [c \in stored |-> [doc |-> "d", first |-> 1, last |-> 2]]]

MCChunk == {c1, c2}
MCTopic == {t1, t2}
MCNotFound == {t2}
MCShapes == BOOLEAN
MCBlocked == {}
\* Nothing answers; both answer; one answers and the reranker does not.
MCLegs ==
  {Leg(Down, Down, Off, {}),
   Leg(<<c1>>, <<c1>>, (c1 :> 1), {c1}),
   Leg(Down, <<c2, c1>>, Down, {c1, c2})}
MCFound == {SearchResult(leg) : leg \in MCLegs}
=============================================================================
