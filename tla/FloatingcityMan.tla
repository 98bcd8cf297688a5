--------------------------- MODULE FloatingcityMan ---------------------------
(***************************************************************************)
(* The floating-city directory of one node (CFloatingcityMan in           *)
(* src/src/floatingcityman.cpp), the message thread that mutates it        *)
(* (ProcessMessage: dsee, dseep, dseg), the maintenance sweep              *)
(* CheckAndRemove, and the network around them: remote operators that      *)
(* sign registrations and heartbeats, and peers that relay, duplicate,     *)
(* delay and reorder them and choose the fields the signature does not     *)
(* cover (count, lastUpdated).                                             *)
(*                                                                         *)
(* The record vector is a sequence, because Find returns a pointer into    *)
(* it that the handler uses after Find has released the lock: a pointer    *)
(* is modelled as an index, and erase() shifts the records after it.       *)
(***************************************************************************)
EXTENDS Integers, Sequences, SequencesExt, FiniteSets

CONSTANTS
  Vins,              \* collateral inputs (CTxIn.prevout), the directory key
  NoVin,             \* CTxIn(): the empty input
  Peers,             \* peers that ask us for the full list
  Keys,              \* public keys
  CollateralKey,     \* CollateralKey[v]: pubkey, owner of input v
  HotKey,            \* HotKey[v]: pubkey2, operational key of input v
  LocalHotKey,       \* activeFloatingcity.pubKeyFloatingcity of this node
  IsFloatingcity,    \* fFloatingCity
  MinDseeSeconds,    \* FLOATINGCITY_MIN_DSEE_SECONDS
  MinDseepSeconds,   \* FLOATINGCITY_MIN_DSEEP_SECONDS
  HourSeconds,       \* the 60*60 signature-time window
  ExpirationSeconds, \* FLOATINGCITY_EXPIRATION_SECONDS
  RemovalSeconds,    \* FLOATINGCITY_REMOVAL_SECONDS
  DsegSeconds,       \* FLOATINGCITYS_DSEG_SECONDS
  MaxTime,           \* bound on the clock
  MaxSigned,         \* bound on the messages each operator signs
  CountValues,       \* what a relaying peer may put in the unsigned count
  LastUpdatedSkew,   \* lastUpdated a peer sends, relative to our clock
  MaintenanceInterleaves, \* may CheckAndRemove run between Find and use
  VoteValues,        \* the nVote values operators sign (yay 1, nay -1)
  VoteLifetimeSeconds \* the 30 days a listed vote counts

ASSUME NoVin \notin Vins
ASSUME CollateralKey \in [Vins -> Keys] /\ HotKey \in [Vins -> Keys]
ASSUME 0 < MinDseeSeconds /\ MinDseeSeconds < MinDseepSeconds
ASSUME MinDseepSeconds < ExpirationSeconds /\ ExpirationSeconds < RemovalSeconds
ASSUME VoteValues \subseteq {1, -1} /\ HourSeconds < VoteLifetimeSeconds
ASSUME -1 \in CountValues /\ LastUpdatedSkew \in Int /\ MaxTime \in Nat

VARIABLES
  now,                              \* GetAdjustedTime() (= GetTime())
  vFloatingcities,                  \* Seq of records
  mAskedUsForFloatingcityList,      \* Peers -> ask-again time, 0 = absent
  mWeAskedForFloatingcityList,      \* Peers -> ask-again time, 0 = absent
  mWeAskedForFloatingcityListEntry, \* Vins -> ask-again time, 0 = absent
  net,                              \* every signed message sent so far
  stopped,                          \* inputs whose operator signed a stop
  spent,                            \* inputs spent on chain
  hd,                               \* the message thread
  agent,                            \* activeFloatingcity: [status, vin]
  disabled,                         \* history: inputs whose stop we applied
  served,                           \* history: last full list served
  askedEntry,                       \* history: last ask for a missing entry
  votedAt                           \* history: when each vote was last signed

dirVars == <<vFloatingcities, mAskedUsForFloatingcityList,
             mWeAskedForFloatingcityList, mWeAskedForFloatingcityListEntry>>
envVars == <<now, net, stopped, spent>>
histVars == <<disabled, served, askedEntry, votedAt>>
vars == <<dirVars, envVars, hd, agent, histVars>>

States == {"ENABLED", "EXPIRED", "VIN_SPENT", "REMOVE"}
Record == [vin : Vins, pubkey : Keys, key2 : Keys, sigTime : Nat,
           lastSeen : Nat, lastDseep : Nat, state : States, port : BOOLEAN,
           nVote : {0} \cup VoteValues, lastVote : Int]

Dsee(v, t) == [type |-> "dsee", vin |-> v, sigTime |-> t]
Dseep(v, t, s) == [type |-> "dseep", vin |-> v, sigTime |-> t, stop |-> s]
\* mvote: the signature covers the input and the vote, no time
Vote(v, n) == [type |-> "mvote", vin |-> v, nVote |-> n]
Idle == [pc |-> "idle", msg |-> NoVin, ptr |-> 0, count |-> 0, lu |-> 0]

-----------------------------------------------------------------------------
(* CFloatingcity helpers *)

\* CFloatingcity::UpdatedWithin
UpdatedWithin(r, seconds) == now - r.lastSeen < seconds

\* CFloatingcity::UpdateLastSeen(override)
UpdateLastSeen(r, override) ==
  [r EXCEPT !.lastSeen = IF override = 0 THEN now ELSE override]

\* CFloatingcity::IsEnabled
IsEnabled(r) == r.port /\ r.state = "ENABLED"

\* CFloatingcity::Check (floatingcity.cpp, not in the tree): REMOVE when not
\* seen within the removal window, EXPIRED within the expiration window,
\* VIN_SPENT when the input is spent (terminal), ENABLED otherwise.
Check(r) ==
  [r EXCEPT !.state =
     CASE r.state = "VIN_SPENT"                  -> "VIN_SPENT"
       [] ~UpdatedWithin(r, RemovalSeconds)      -> "REMOVE"
       [] ~UpdatedWithin(r, ExpirationSeconds)   -> "EXPIRED"
       [] spent[r.vin]                           -> "VIN_SPENT"
       [] OTHER                                  -> "ENABLED"]

\* lastVote 0, the epoch: further back than any window of the model
LongAgo == -VoteLifetimeSeconds

\* CFloatingcity(addr, vin, pubkey, sig, sigTime, pubkey2, ...) constructor
NewFloatingcity(v, t) ==
  [vin |-> v, pubkey |-> CollateralKey[v], key2 |-> HotKey[v], sigTime |-> t,
   lastSeen |-> 0, lastDseep |-> 0, state |-> "ENABLED", port |-> TRUE,
   nVote |-> 0, lastVote |-> LongAgo]

-----------------------------------------------------------------------------
(* CFloatingcityMan operations *)

\* mutation: the position counted from 0, "not found" becoming -1
FindZeroBased(v) == SelectInSeq(vFloatingcities, LAMBDA r : r.vin = v) - 1

\* CFloatingcityMan::Find(vin): index of the record, 0 if none
Find(v) == SelectInSeq(vFloatingcities, LAMBDA r : r.vin = v)

\* mutation: Add without its re-check of Find under cs
AddUnchecked(mn) ==
  IF IsEnabled(mn) THEN Append(vFloatingcities, mn) ELSE vFloatingcities

\* CFloatingcityMan::Add: append when enabled and not yet present
Add(mn) ==
  IF IsEnabled(mn) /\ Find(mn.vin) = 0
  THEN Append(vFloatingcities, mn) ELSE vFloatingcities

\* mutation: the sweep's comparison inverted, erasing the pending entries
SweepInverted(m) == [k \in DOMAIN m |-> IF m[k] > now THEN 0 ELSE m[k]]

\* the three bookkeeping sweeps of CheckAndRemove
Sweep(m) == [k \in DOMAIN m |-> IF m[k] < now THEN 0 ELSE m[k]]

\* CFloatingcityMan::CheckAndRemove: Check every record, erase REMOVE and
\* VIN_SPENT ones, sweep the three ask-again maps
CheckAndRemove ==
  /\ MaintenanceInterleaves \/ hd.pc = "idle"
  /\ vFloatingcities' =
       SelectSeq([i \in 1..Len(vFloatingcities) |-> Check(vFloatingcities[i])],
                 LAMBDA r : r.state \notin {"REMOVE", "VIN_SPENT"})
  /\ mAskedUsForFloatingcityList' = Sweep(mAskedUsForFloatingcityList)
  /\ mWeAskedForFloatingcityList' = Sweep(mWeAskedForFloatingcityList)
  /\ mWeAskedForFloatingcityListEntry' = Sweep(mWeAskedForFloatingcityListEntry)
  /\ UNCHANGED <<envVars, hd, agent, histVars>>

\* CFloatingcityMan::DsegUpdate(pnode): ask a peer for its full list
DsegUpdate(p) ==
  /\ ~(now < mWeAskedForFloatingcityList[p])
  /\ mWeAskedForFloatingcityList' =
       [mWeAskedForFloatingcityList EXCEPT ![p] = now + DsegSeconds]
  /\ UNCHANGED <<vFloatingcities, mAskedUsForFloatingcityList,
                 mWeAskedForFloatingcityListEntry, envVars, hd, agent, histVars>>

-----------------------------------------------------------------------------
(* ProcessMessage: one message at a time (cs_process_message).  A step     *)
(* ends where the handler calls into the directory (which takes cs) and   *)
(* then works through the returned pointer without the lock.              *)

\* "dsee" with the self-echo test of a hot node that has no vin yet
SelfEcho(m) ==
  IsFloatingcity /\ agent.vin = NoVin /\ HotKey[m.vin] = LocalHotKey

\* dsee: reject a signature more than an hour in the future, then Find
DseeRecv(m, c, lu) ==
  /\ hd.pc = "idle"
  /\ m.type = "dsee"
  /\ m.sigTime <= now + HourSeconds
  /\ LET ptr == Find(m.vin) IN
       hd' = [pc |-> IF ptr # 0 /\ ~SelfEcho(m) THEN "dseeUpdate" ELSE "dseeNew",
              msg |-> m, ptr |-> ptr, count |-> c, lu |-> lu]
  /\ UNCHANGED <<dirVars, envVars, agent, histVars>>

\* dsee for a known input: a fresh broadcast (count = -1) from the same
\* collateral key, not seen within MIN_DSEE, refreshes lastTimeSeen; a newer
\* sigTime also re-probes the port and takes the new fields.  The pointer
\* may have gone stale: past the end it writes into a dead slot.
ReannounceAccepted(r) ==
  /\ hd.count = -1
  /\ r.pubkey = CollateralKey[hd.msg.vin]
  /\ ~UpdatedWithin(r, MinDseeSeconds)

Reannounce(r, open) ==
  LET seen == UpdateLastSeen(r, 0) IN
  IF r.sigTime < hd.msg.sigTime
  THEN Check([seen EXCEPT !.port = open, !.key2 = HotKey[hd.msg.vin],
                          !.sigTime = hd.msg.sigTime])
  ELSE seen

DseeUpdate ==
  LET i == hd.ptr IN
  /\ hd.pc = "dseeUpdate"
  /\ \E open \in BOOLEAN :
       vFloatingcities' =
         IF i <= Len(vFloatingcities) /\ ReannounceAccepted(vFloatingcities[i])
         THEN [vFloatingcities EXCEPT ![i] = Reannounce(@, open)]
         ELSE vFloatingcities
  /\ hd' = Idle
  /\ UNCHANGED <<mAskedUsForFloatingcityList, mWeAskedForFloatingcityList,
                 mWeAskedForFloatingcityListEntry, envVars, agent, histVars>>

\* CActiveFloatingcity::EnableHotColdFloatingCity: on a floatingcity=1 node
\* the agent takes the input and is REMOTELY_ENABLED, whatever its status
EnableHotColdFloatingCity(v) ==
  IF IsFloatingcity THEN [status |-> "REMOTELY_ENABLED", vin |-> v] ELSE agent

\* dsee for a new input: when its collateral is unspent (AcceptableInputs)
\* Add it with lastTimeSeen = lastUpdated (now when 0), and adopt it when its
\* pubkey2 is our key (EnableHotColdFloatingCity).  The other early returns
\* (cs_main busy, too few confirmations, sigTime before the confirming
\* block) change nothing and are the message not being delivered.
DseeNew ==
  LET m == hd.msg
      mn == UpdateLastSeen(NewFloatingcity(m.vin, m.sigTime), hd.lu)
      adopt == ~spent[m.vin] /\ HotKey[m.vin] = LocalHotKey
  IN
  /\ hd.pc = "dseeNew"
  /\ vFloatingcities' = IF spent[m.vin] THEN vFloatingcities ELSE Add(mn)
  /\ agent' = IF adopt THEN EnableHotColdFloatingCity(m.vin) ELSE agent
  /\ hd' = Idle
  /\ UNCHANGED <<mAskedUsForFloatingcityList, mWeAskedForFloatingcityList,
                 mWeAskedForFloatingcityListEntry, envVars, histVars>>

\* dseep: reject a sigTime outside (now - 1h, now + 1h], then Find
DseepWindow(m) ==
  /\ m.type = "dseep"
  /\ m.sigTime <= now + HourSeconds
  /\ m.sigTime > now - HourSeconds

DseepRecv(m) ==
  /\ hd.pc = "idle"
  /\ DseepWindow(m)
  /\ Find(m.vin) # 0
  /\ hd' = [Idle EXCEPT !.pc = "dseepApply", !.msg = m, !.ptr = Find(m.vin)]
  /\ UNCHANGED <<dirVars, envVars, agent, histVars>>

\* dseep for an unknown input: ask the sender for it once per MIN_DSEEP
DseepAskMissing(m) ==
  /\ hd.pc = "idle"
  /\ DseepWindow(m)
  /\ Find(m.vin) = 0
  /\ ~(now < mWeAskedForFloatingcityListEntry[m.vin])
  /\ mWeAskedForFloatingcityListEntry' =
       [mWeAskedForFloatingcityListEntry EXCEPT ![m.vin] = now + MinDseepSeconds]
  /\ askedEntry' = [askedEntry EXCEPT ![m.vin] = now]
  /\ UNCHANGED <<vFloatingcities, mAskedUsForFloatingcityList,
                 mWeAskedForFloatingcityList, envVars, hd, agent,
                 disabled, served, votedAt>>

\* dseep through the pointer: newer than lastDseep and signed by the
\* record's pubkey2; outside MIN_DSEEP a stop disables, a ping refreshes
Heartbeat(r) ==
  LET m == hd.msg
      r1 == [r EXCEPT !.lastDseep = m.sigTime]
  IN  IF UpdatedWithin(r1, MinDseepSeconds) THEN r1
      ELSE IF m.stop THEN [r1 EXCEPT !.lastSeen = 0]
      ELSE Check(UpdateLastSeen(r1, 0))

\* mutation: without the "newer than lastDseep" test
HeartbeatAcceptedAnyOrder(i) ==
  /\ i <= Len(vFloatingcities)
  /\ vFloatingcities[i].key2 = HotKey[hd.msg.vin]

HeartbeatAccepted(i) ==
  /\ i <= Len(vFloatingcities)
  /\ vFloatingcities[i].lastDseep < hd.msg.sigTime
  /\ vFloatingcities[i].key2 = HotKey[hd.msg.vin]

DseepApply ==
  LET i == hd.ptr
      m == hd.msg
  IN
  /\ hd.pc = "dseepApply"
  /\ IF HeartbeatAccepted(i)
     THEN /\ vFloatingcities' = [vFloatingcities EXCEPT ![i] = Heartbeat(@)]
          /\ disabled' = IF m.stop /\ ~UpdatedWithin(vFloatingcities[i], MinDseepSeconds)
                         THEN disabled \cup {vFloatingcities[i].vin}
                         ELSE disabled
     ELSE UNCHANGED <<vFloatingcities, disabled>>
  /\ hd' = Idle
  /\ UNCHANGED <<mAskedUsForFloatingcityList, mWeAskedForFloatingcityList,
                 mWeAskedForFloatingcityListEntry, envVars, agent,
                 served, askedEntry, votedAt>>

\* dseg for the full list from a public peer on main net: once per
\* DSEG_SECONDS (a repeat is penalised and dropped), then every enabled
\* entry is sent to the peer
DsegRecv(p) ==
  /\ hd.pc = "idle"
  /\ ~(now < mAskedUsForFloatingcityList[p])
  /\ mAskedUsForFloatingcityList' =
       [mAskedUsForFloatingcityList EXCEPT ![p] = now + DsegSeconds]
  /\ served' = [served EXCEPT ![p] = now]
  /\ UNCHANGED <<vFloatingcities, mWeAskedForFloatingcityList,
                 mWeAskedForFloatingcityListEntry, envVars, hd, agent,
                 disabled, askedEntry, votedAt>>

\* mvote for a listed input: Find it (an unknown input is dropped)
VoteRecv(m) ==
  /\ hd.pc = "idle"
  /\ m.type = "mvote"
  /\ Find(m.vin) # 0
  /\ hd' = [Idle EXCEPT !.pc = "voteApply", !.msg = m, !.ptr = Find(m.vin)]
  /\ UNCHANGED <<dirVars, envVars, agent, histVars>>

\* mvote through the pointer: more than an hour since the record's last
\* vote and signed by the record's pubkey2 (the signed text holds only the
\* input and the vote); then store it, stamp it with our clock and relay it
VoteAccepted(i) ==
  /\ i <= Len(vFloatingcities)
  /\ now - vFloatingcities[i].lastVote > HourSeconds
  /\ vFloatingcities[i].key2 = HotKey[hd.msg.vin]

VoteApply ==
  LET i == hd.ptr IN
  /\ hd.pc = "voteApply"
  /\ vFloatingcities' =
       IF VoteAccepted(i)
       THEN [vFloatingcities EXCEPT ![i].nVote = hd.msg.nVote, ![i].lastVote = now]
       ELSE vFloatingcities
  /\ hd' = Idle
  /\ UNCHANGED <<mAskedUsForFloatingcityList, mWeAskedForFloatingcityList,
                 mWeAskedForFloatingcityListEntry, envVars, agent, histVars>>

-----------------------------------------------------------------------------
(* The environment: the clock, the chain, and remote operators, whose      *)
(* messages stay in the network and may be delivered any number of times. *)

Tick ==
  /\ now < MaxTime
  /\ now' = now + 1
  /\ UNCHANGED <<dirVars, net, stopped, spent, hd, agent, histVars>>

SpendInput(v) ==
  /\ ~spent[v]
  /\ spent' = [spent EXCEPT ![v] = TRUE]
  /\ UNCHANGED <<dirVars, now, net, stopped, hd, agent, histVars>>

\* how many messages v's operator has signed
Signed(v) == Cardinality({m \in net : m.vin = v})

\* an operator broadcasts its signed registration once (Register)
OperatorRegister(v) ==
  /\ Signed(v) = 0
  /\ net' = net \cup {Dsee(v, now)}
  /\ UNCHANGED <<dirVars, now, stopped, spent, hd, agent, histVars>>

\* a registered operator broadcasts a signed ping or stop (Dseep); after a
\* stop it signs nothing more
OperatorPing(v, stop) ==
  /\ v \notin stopped
  /\ 0 < Signed(v) /\ Signed(v) < MaxSigned
  /\ net' = net \cup {Dseep(v, now, stop)}
  /\ stopped' = IF stop THEN stopped \cup {v} ELSE stopped
  /\ UNCHANGED <<dirVars, now, spent, hd, agent, histVars>>

\* RPC "vote" (or "vote-many") at v's operator: sign input and vote with
\* the hot key and relay
OperatorVote(v, n) ==
  /\ Vote(v, n) \in net \/ Signed(v) < MaxSigned
  /\ net' = net \cup {Vote(v, n)}
  /\ votedAt' = [votedAt EXCEPT ![v][n] = now]
  /\ UNCHANGED <<dirVars, now, stopped, spent, hd, agent,
                 disabled, served, askedEntry>>

-----------------------------------------------------------------------------

Init ==
  /\ now = 1
  /\ vFloatingcities = << >>
  /\ mAskedUsForFloatingcityList = [p \in Peers |-> 0]
  /\ mWeAskedForFloatingcityList = [p \in Peers |-> 0]
  /\ mWeAskedForFloatingcityListEntry = [v \in Vins |-> 0]
  /\ net = {}
  /\ stopped = {}
  /\ spent = [v \in Vins |-> FALSE]
  /\ hd = Idle
  /\ agent = [status |-> "NOT_PROCESSED", vin |-> NoVin]
  /\ disabled = {}
  /\ served = [p \in Peers |-> -DsegSeconds]
  /\ askedEntry = [v \in Vins |-> -MinDseepSeconds]
  /\ votedAt = [v \in Vins |-> [n \in VoteValues |-> LongAgo]]

\* what a relaying peer may write in lastUpdated, which the signature leaves
\* out: 0 (the receiver uses its own clock) or the relayer's lastTimeSeen
LastUpdatedValues == {0} \cup ({now + LastUpdatedSkew} \cap Nat)

\* steps that take the directory lock cs: the message thread's Find and Add,
\* the list request we send, the maintenance sweep
MessageStep ==
  \/ \E m \in net, c \in CountValues, lu \in LastUpdatedValues : DseeRecv(m, c, lu)
  \/ DseeNew
  \/ \E m \in net : DseepRecv(m) \/ DseepAskMissing(m) \/ VoteRecv(m)
  \/ \E p \in Peers : DsegUpdate(p)

LockingStep == MessageStep \/ CheckAndRemove

\* the dseg handler, under cs_process_message only
ListRequestStep == \E p \in Peers : DsegRecv(p)

\* steps through a pointer, without cs
PointerStep == DseeUpdate \/ DseepApply \/ VoteApply

EnvStep ==
  \/ Tick
  \/ \E v \in Vins : SpendInput(v) \/ OperatorRegister(v)
  \/ \E v \in Vins, s \in BOOLEAN : OperatorPing(v, s)
  \/ \E v \in Vins, n \in VoteValues : OperatorVote(v, n)

Next == LockingStep \/ ListRequestStep \/ PointerStep \/ EnvStep

Spec == Init /\ [][Next]_vars

-----------------------------------------------------------------------------
(* Properties *)

TypeOK ==
  /\ now \in 1..MaxTime
  /\ vFloatingcities \in Seq(Record)
  /\ mAskedUsForFloatingcityList \in [Peers -> Nat]
  /\ mWeAskedForFloatingcityList \in [Peers -> Nat]
  /\ mWeAskedForFloatingcityListEntry \in [Vins -> Nat]
  /\ stopped \subseteq Vins /\ disabled \subseteq Vins
  /\ spent \in [Vins -> BOOLEAN]
  /\ hd.pc \in {"idle", "dseeUpdate", "dseeNew", "dseepApply", "voteApply"}
  /\ hd.ptr \in Nat
  /\ agent.vin \in Vins \cup {NoVin}


\* Registrations and heartbeats are delivered late, twice and out of order:
\* for an input present before and after any step, neither its sigTime (dsee
\* "take the newest entry") nor its lastDseep (dseep "take this only if it's
\* newer") ever goes back.
ReplayNeverRegresses ==
  [][\A i \in 1..Len(vFloatingcities), j \in 1..Len(vFloatingcities') :
       vFloatingcities[i].vin = vFloatingcities'[j].vin =>
         /\ vFloatingcities'[j].sigTime >= vFloatingcities[i].sigTime
         /\ vFloatingcities'[j].lastDseep >= vFloatingcities[i].lastDseep]_vars

\* The dseg rate limits survive the CheckAndRemove sweeps of the ask-again
\* maps: a peer is served the full list at most once per DSEG_SECONDS, and we
\* ask for one missing entry at most once per MIN_DSEEP_SECONDS.
AskRateLimits ==
  [][/\ \A p \in Peers :
          served'[p] # served[p] => served'[p] >= served[p] + DsegSeconds
     /\ \A v \in Vins :
          askedEntry'[v] # askedEntry[v] =>
            askedEntry'[v] >= askedEntry[v] + MinDseepSeconds]_vars

\* A stop heartbeat is terminal (spec 4.1.3): once this directory has applied
\* v's stop, v is never again live in it, since v's operator signs nothing
\* after the stop.
StopIsFinal ==
  \A i \in 1..Len(vFloatingcities) :
    vFloatingcities[i].vin \in disabled => vFloatingcities[i].lastSeen = 0


\* the "votes" listing of RPC "floatingcity list": a vote stamped within
\* the last 30 days shows as YAY (1) or NAY (-1), anything else as
\* ABSTAIN (0)
VoteStatus(r) ==
  IF now - r.lastVote < VoteLifetimeSeconds /\ r.nVote # 0
  THEN r.nVote ELSE 0

\* "voting lasts 30 days, ignore the last vote if it was older than that"
\* (the votes listing): a YAY or NAY the listing shows for an input is a
\* vote its operator had signed less than 30 days before the mvote handler
\* stamped it with its arrival time.  The signed text carries no time, so
\* a relay can deliver a vote at any age.
VoteListingIsCurrent ==
  \A i \in 1..Len(vFloatingcities) :
    LET r == vFloatingcities[i] IN
    VoteStatus(r) # 0 => r.lastVote - votedAt[r.vin][r.nVote] < VoteLifetimeSeconds

=============================================================================
