------------------------------- MODULE Ranking -------------------------------
(***************************************************************************)
(* The ranking queries of CFloatingcityMan (src/src/floatingcityman.cpp),  *)
(* as pure operators over a directory snapshot.  A node's score is the low *)
(* 32 bits of CFloatingcity::CalculateScore(mod, nBlockHeight), given here *)
(* as a function `score`.  std::sort is not stable, so an order it leaves  *)
(* among equal scores is any order: the rank queries give the SET of ranks *)
(* the build can return.                                                   *)
(***************************************************************************)
EXTENDS Integers, Sequences, SequencesExt, FiniteSets

CONSTANTS NoNode \* the NULL CFloatingcity*

\* sort(vec.rbegin(), vec.rend(), CompareValueOnly()): the qualifying nodes
\* by descending score, equal scores in any order
SortedByScore(S, score) ==
  {s \in SetToSeqs(S) : \A i \in 1..Len(s) - 1 : score[s[i]] >= score[s[i + 1]]}

\* mutation: rank counted from 0 (rank++ after the comparison)
GetFloatingcityRankFromZero(v, S, score) ==
  IF v \notin S THEN {-1}
  ELSE {SelectInSeq(s, LAMBDA x : x = v) - 1 : s \in SortedByScore(S, score)}

\* GetFloatingcityRank: the 1-based position of v, -1 when v does not qualify
GetFloatingcityRank(v, S, score) ==
  IF v \notin S THEN {-1}
  ELSE {SelectInSeq(s, LAMBDA x : x = v) : s \in SortedByScore(S, score)}

\* mutation: the counter starts at 1 (int rank = 1), one place too early
GetFloatingcityByRankOffByOne(nRank, S, score) ==
  IF nRank - 1 \in 1..Cardinality(S)
  THEN {s[nRank - 1] : s \in SortedByScore(S, score)}
  ELSE {NoNode}

\* GetFloatingcityByRank: the node at position nRank, NULL past either end
GetFloatingcityByRank(nRank, S, score) ==
  IF nRank \in 1..Cardinality(S)
  THEN {s[nRank] : s \in SortedByScore(S, score)}
  ELSE {NoNode}

\* mutation: the winner scan keeping the last of equal scores (>=)
GetCurrentFloatingCityGe(vec, S, score) ==
  LET Scan(acc, v) ==
        IF v \in S /\ score[v] >= acc.score
        THEN [score |-> score[v], winner |-> v] ELSE acc
  IN  FoldLeft(Scan, [score |-> 0, winner |-> NoNode], vec).winner

\* GetCurrentFloatingCity: a running maximum over vFloatingcities in vector
\* order, starting from score 0 and replacing only on a strictly higher score
GetCurrentFloatingCity(vec, S, score) ==
  LET Scan(acc, v) ==
        IF v \in S /\ score[v] > acc.score
        THEN [score |-> score[v], winner |-> v] ELSE acc
  IN  FoldLeft(Scan, [score |-> 0, winner |-> NoNode], vec).winner

\* The reference the scan is checked against (spec 4.1.1): the qualifying
\* node with the largest score, the first one seen among equals; none when
\* no qualifying node scores above 0.
TopScorer(vec, S, score) ==
  LET Cand == {i \in 1..Len(vec) : vec[i] \in S /\ score[vec[i]] > 0}
      Best == {i \in Cand : \A j \in Cand : score[vec[i]] >= score[vec[j]]}
  IN  IF Cand = {} THEN NoNode
      ELSE vec[CHOOSE i \in Best : \A j \in Best : i <= j]

=============================================================================
