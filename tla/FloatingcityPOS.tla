---------------------------- MODULE FloatingcityPOS ----------------------------
(***************************************************************************)
(* Proof of service (src/src/floatingcity-pos.cpp) over a run of blocks.  *)
(* On every block each node runs DoFloatingcityPOSChecks, which ranks it   *)
(* at nBlockHeight = height - LagBlocks among the enabled records and,     *)
(* when its rank is within the per-block quota, probes the record at       *)
(* position CountFloatingcitiesAboveProtocol - rank and relays signed      *)
(* scanning reports.  One observer node receives the reports               *)
(* (ProcessMessageFloatingcityPOS): it drops those already in its          *)
(* mapFloatingcityScanningErrors, refuses those more than AgeBlocks old,   *)
(* re-checks both ranks and applies them to the auditee's                  *)
(* nScanningErrorCount.  CleanFloatingcityScanningErrors drops map entries *)
(* past their expiration.  All nodes hold the same directory; which of its *)
(* records Check() finds enabled and the observer's vector order are       *)
(* chosen in Init, with the scores of every height scanned at.            *)
(***************************************************************************)
EXTENDS Ranking, BagsExt

CONSTANTS
  Nodes,          \* the collateral inputs listed in the directory
  Scores,         \* values of the low 32 bits of CalculateScore
  Observer,       \* the node whose message handler is modelled
  DistinctScores, \* TRUE: no two nodes share a score at a height
  LagBlocks,      \* DoFloatingcityPOSChecks ranks at pindexBest->nHeight - 5
  AgeBlocks,      \* the "mnse" handler refuses reports more than 10 blocks old
  ExpirySeconds,  \* a report is kept in the map for an hour
  BlockGaps,      \* the seconds between two blocks
  MaxScanHeight,  \* the last report height nodes scan at
  MaxHeight,      \* the last block of a behaviour
  MaxTime,        \* the last second of a behaviour
  MaxApplies      \* the times one report may be applied in a behaviour

ASSUME /\ NoNode \notin Nodes /\ Observer \in Nodes /\ Scores \subseteq Nat
       /\ LagBlocks \in Nat /\ AgeBlocks \in Nat /\ LagBlocks <= AgeBlocks
       /\ BlockGaps \subseteq Nat \ {0} /\ ExpirySeconds \in Nat
       /\ MaxScanHeight + LagBlocks <= MaxHeight /\ MaxTime \in Nat
       /\ MaxApplies \in Nat \ {0}

VARIABLES
  height,   \* pindexBest->nHeight
  now,      \* GetTime()
  score,    \* CalculateScore(1, h) of each node, for each height h scanned at
  enabled,  \* the records whose Check() leaves them enabled
  vec,      \* the observer's vFloatingcities order
  scanned,  \* nodes whose DoFloatingcityPOSChecks ran on this block
  audits,   \* <<auditor, auditee, nBlockHeight>> probes
  reports,  \* CFloatingcityScanningError objects relayed
  seen,     \* the observer's mapFloatingcityScanningErrors
  taken,    \* history: reports the handler took past its dedup check
  stale,    \* history: reports it refused as too old
  applied,  \* the bag of reports the observer applied, with multiplicity
  errors    \* nScanningErrorCount at the observer

vars == <<height, now, score, enabled, vec, scanned, audits, reports, seen,
          taken, stale, applied, errors>>

ErrorTypes == {"SCANNING_SUCCESS", "SCANNING_ERROR_NO_RESPONSE"}
Heights == 0..MaxHeight

\* the CFloatingcityScanningError: both inputs, the outcome and the height
\* are signed; nExpiration is set an hour after the scanner made it
Report(a, b, e, h, t) ==
  [vinA |-> a, vinB |-> b, nErrorType |-> e, nBlockHeight |-> h,
   nExpiration |-> t + ExpirySeconds]

\* CountFloatingcitiesAboveProtocol: Check() every record, count the enabled
CountFloatingcitiesAboveProtocol == Cardinality(enabled)

\* GetCountScanningPerBlock: max(1, count / 100)
GetCountScanningPerBlock ==
  IF CountFloatingcitiesAboveProtocol \div 100 > 1
  THEN CountFloatingcitiesAboveProtocol \div 100 ELSE 1

\* the reports DoFloatingcityPOSChecks signs and relays after its probe: on
\* a failed connection a NO_RESPONSE report, then the success report
ProbeReports(a, b, h, connected) ==
  IF connected THEN {Report(a, b, "SCANNING_SUCCESS", h, now)}
  ELSE {Report(a, b, "SCANNING_ERROR_NO_RESPONSE", h, now),
        Report(a, b, "SCANNING_SUCCESS", h, now)}

\* DoFloatingcityPOSChecks for node n (its activeFloatingcity.vin): rank
\* at height - 5 among enabled records, stop past the quota, else take the
\* record at count - rank among all records (fOnlyActive = false), probe
\* it, and sign, store in its own map and relay the reports
DoFloatingcityPOSChecks(n) ==
  /\ height - LagBlocks <= MaxScanHeight
  /\ n \notin scanned
  /\ scanned' = scanned \cup {n}
  /\ LET h == height - LagBlocks IN
     \E a \in GetFloatingcityRank(n, enabled, score[h]) :
       IF a = -1 \/ a > GetCountScanningPerBlock
       THEN UNCHANGED <<audits, reports, seen>>
       ELSE \E b \in GetFloatingcityByRank(CountFloatingcitiesAboveProtocol - a, Nodes, score[h]) :
              IF b = NoNode THEN UNCHANGED <<audits, reports, seen>>
              ELSE \E connected \in BOOLEAN :
                     /\ audits' = audits \cup {<<n, b, h>>}
                     /\ reports' = reports \cup ProbeReports(n, b, h, connected)
                     /\ seen' = IF n = Observer
                               THEN seen \cup ProbeReports(n, b, h, connected) ELSE seen
  /\ UNCHANGED <<height, now, score, enabled, vec, taken, stale, applied, errors>>

\* CFloatingcity::ApplyScanningError (floatingcity.cpp, not in the tree):
\* an error raises the count, a success lowers it to no less than 0
ApplyScanningErrorNoFloor(cnt, e) ==
  IF e = "SCANNING_SUCCESS" THEN cnt - 1 ELSE cnt + 1

ApplyScanningError(cnt, e) ==
  IF e = "SCANNING_SUCCESS" THEN IF cnt > 0 THEN cnt - 1 ELSE 0 ELSE cnt + 1

\* the rank checks of the "mnse" handler on the ranks a and b the
\* observer's own sort gives: the auditor within the quota among enabled
\* records, the auditee within the top band among all records
RanksValid(a, b) ==
  /\ a # -1 /\ a <= GetCountScanningPerBlock
  /\ b # -1 /\ b >= CountFloatingcitiesAboveProtocol - GetCountScanningPerBlock

\* "nBlockHeight - mnse.nBlockHeight > 10"
TooOld(r) == height - r.nBlockHeight > AgeBlocks

\* ProcessMessageFloatingcityPOS "mnse": drop a report already in the map,
\* insert it, refuse it when too old, then rank both inputs at its height,
\* check the ranks (the signature of an honest auditor verifies), apply the
\* report to the auditee's record and relay it on
ProcessScanningError(r) ==
  /\ r \notin seen
  /\ CopiesIn(r, applied) < MaxApplies
  /\ seen' = seen \cup {r}
  /\ taken' = taken \cup {r}
  /\ IF TooOld(r)
     THEN /\ stale' = stale \cup {r}
          /\ UNCHANGED <<applied, errors>>
     ELSE /\ UNCHANGED stale
          /\ \E a \in GetFloatingcityRank(r.vinA, enabled, score[r.nBlockHeight]),
                b \in GetFloatingcityRank(r.vinB, Nodes, score[r.nBlockHeight]) :
               IF RanksValid(a, b)
               THEN /\ applied' = BagAdd(applied, r)
                    /\ errors' = [errors EXCEPT ![r.vinB] = ApplyScanningError(@, r.nErrorType)]
               ELSE UNCHANGED <<applied, errors>>
  /\ UNCHANGED <<height, now, score, enabled, vec, scanned, audits, reports>>

\* CFloatingcityScanning::CleanFloatingcityScanningErrors: erase every
\* entry whose nExpiration has passed
CleanFloatingcityScanningErrors ==
  /\ \E r \in seen : now > r.nExpiration
  /\ seen' = {r \in seen : ~(now > r.nExpiration)}
  /\ UNCHANGED <<height, now, score, enabled, vec, scanned, audits, reports,
                 taken, stale, applied, errors>>

ScoreFunctions ==
  IF DistinctScores
  THEN {f \in [Nodes -> Scores] : \A x, y \in Nodes : x # y => f[x] # f[y]}
  ELSE [Nodes -> Scores]

\* the chain: a new block some seconds later, on which every node scans again
NewBlock ==
  /\ height < MaxHeight
  /\ height' = height + 1
  /\ \E gap \in BlockGaps : now + gap <= MaxTime /\ now' = now + gap
  /\ scanned' = {}
  /\ UNCHANGED <<score, enabled, vec, audits, reports, seen, taken, stale, applied, errors>>

\* GetTime() moves on while the chain waits for its next block; nothing
\* in the code ties the cleanup timer or a replay to block arrival
Tick ==
  /\ now < MaxTime
  /\ now' = now + 1
  /\ UNCHANGED <<height, score, enabled, vec, scanned, audits, reports, seen,
                 taken, stale, applied, errors>>

Init ==
  /\ height = LagBlocks /\ now = 0
  /\ score \in [0..MaxScanHeight -> ScoreFunctions]
  /\ enabled \in SUBSET Nodes
  /\ vec \in SetToSeqs(Nodes)
  /\ scanned = {} /\ audits = {} /\ reports = {} /\ seen = {}
  /\ taken = {} /\ stale = {} /\ applied = EmptyBag
  /\ errors = [n \in Nodes |-> 0]

Next ==
  \/ \E n \in Nodes : DoFloatingcityPOSChecks(n)
  \/ \E r \in reports : ProcessScanningError(r)
  \/ CleanFloatingcityScanningErrors
  \/ NewBlock
  \/ Tick

Spec == Init /\ [][Next]_vars

-----------------------------------------------------------------------------
(* Properties *)

POSTypeOK ==
  /\ height \in Heights /\ now \in 0..MaxTime
  /\ score \in [0..MaxScanHeight -> [Nodes -> Scores]]
  /\ enabled \subseteq Nodes /\ scanned \subseteq Nodes
  /\ audits \subseteq Nodes \X Nodes \X Heights
  /\ seen \subseteq reports /\ stale \subseteq taken /\ taken \subseteq reports
  /\ IsABag(applied) /\ BagToSet(applied) \subseteq taken
  /\ errors \in [Nodes -> Nat]

\* Quota bound (spec 8): on every height, the nodes that rank themselves
\* within GetCountScanningPerBlock and audit are never more than it.
QuotaBound ==
  \A h \in Heights :
    Cardinality({p[1] : p \in {q \in audits : q[3] = h}}) <= GetCountScanningPerBlock

\* The auditor's choice of auditee (DoFloatingcityPOSChecks at height - 5)
\* and the receiver's rank checks (the "mnse" handler at the report's
\* height) are two computations over the same ranking: every report of
\* another auditor that the observer takes in young enough is applied.
ReportsAccepted ==
  \A r \in taken \ stale : r.vinA # Observer => r \in BagToSet(applied)

\* GetCurrentFloatingCity's running maximum over the observer's vector picks
\* the qualifying node with the largest score, the first in vector order
\* among equals, for every set of qualifying nodes and every scoring.
WinnerIsTopScorer ==
  \A S \in SUBSET Nodes, f \in [Nodes -> Scores] :
    GetCurrentFloatingCity(vec, S, f) = TopScorer(vec, S, f)

\* A report replayed by any peer any number of times is applied to the
\* auditee at most once.  The dedup map forgets a report an hour after it
\* was made (CleanFloatingcityScanningErrors) while the "mnse" handler
\* still takes reports ten blocks old; nothing bounds the time ten blocks
\* take, so a report cleaned from the map and replayed while still young
\* enough in blocks is applied again.
ReportAppliedOnce ==
  \A r \in BagToSet(applied) : CopiesIn(r, applied) = 1

\* An audit ends in exactly one signed report (spec 4.3: success or
\* no-response, regardless of the probe's result).
OneReportPerAudit ==
  \A p \in audits :
    Cardinality({r \in reports : r.vinA = p[1] /\ r.vinB = p[2]
                                 /\ r.nBlockHeight = p[3]}) = 1

=============================================================================
