-------------------------- MODULE ActiveFloatingcity --------------------------
(***************************************************************************)
(* The local node's own registration (CActiveFloatingcity in               *)
(* src/src/activefloatingcity.cpp) running beside the directory of         *)
(* FloatingcityMan: ManageStatus registers the node's collateral input     *)
(* Self and pings for it, the RPC "start" and "stop" commands reset and    *)
(* stop it.  Like the message thread, the agent calls Find and then works  *)
(* through the returned pointer without the directory lock, and its Remove *)
(* holds the lock for as long as its loop runs.  ManageStatus runs on the  *)
(* maintenance thread, the RPC commands on an RPC thread, with no lock of  *)
(* the agent's own between them.                                           *)
(***************************************************************************)
EXTENDS FloatingcityMan

CONSTANTS
  Self,    \* the input of the wallet's first collateral coin
  Aliases, \* the entries of floatingcity.conf
  AliasInput \* the collateral output (txHash, outputIndex) each entry names

ASSUME /\ Self \in Vins /\ IsFloatingcity /\ LocalHotKey = HotKey[Self]
       /\ AliasInput \in [Aliases -> Vins]

VARIABLES
  apc,    \* ManageStatus on the maintenance thread: "idle", "registerAdd", "ping"
  aptr,   \* the pointer it holds
  asig,   \* the sigTime it signed
  rpc,    \* the RPC thread: "idle", "registerAdd", "stopRemove", "removeLoop"
  rptr,   \* the pointer the stop holds
  rsig,   \* the sigTime the stop signed
  target, \* the input Remove is looking for
  avin,   \* the input the RPC thread registers, or its stop's Dseep signs for
  arelay  \* the stop is signed with that input's pubkey2, so peers take it

maintVars == <<apc, aptr, asig>>
rpcVars == <<rpc, rptr, rsig, target, avin, arelay>>
agentVars == <<maintVars, rpcVars>>
allVars == <<vars, agentVars>>

Running == {"IS_CAPABLE", "REMOTELY_ENABLED"}
Others == Vins \ {Self}

MaintIdle == apc' = "idle" /\ aptr' = 0 /\ asig' = 0

RpcIdle ==
  /\ rpc' = "idle" /\ rptr' = 0 /\ rsig' = 0 /\ target' = NoVin
  /\ avin' = NoVin /\ arelay' = FALSE

-----------------------------------------------------------------------------

\* ManageStatus during initial block download: wait
ManageStatusSyncing ==
  /\ apc = "idle"
  /\ agent' = [agent EXCEPT !.status = "SYNC_IN_PROCESS"]
  /\ UNCHANGED <<dirVars, envVars, hd, histVars, agentVars>>

\* ManageStatus from NOT_PROCESSED (INPUT_TOO_NEW, NOT_CAPABLE and
\* SYNC_IN_PROCESS are reset to it first) when a step before Register fails:
\* no external address, no inbound connection, wallet locked (NOT_CAPABLE),
\* no 100000-coin output (NOT_CAPABLE, the ping then fails on the status),
\* or the output has fewer than MIN_CONFIRMATIONS (INPUT_TOO_NEW, vin kept)
Retryable == {"NOT_PROCESSED", "INPUT_TOO_NEW", "NOT_CAPABLE", "SYNC_IN_PROCESS"}

ManageStatusNotCapable ==
  /\ apc = "idle"
  /\ agent.status \in Retryable
  /\ \/ agent' = [agent EXCEPT !.status = "NOT_CAPABLE"]
     \/ agent' = [status |-> "INPUT_TOO_NEW", vin |-> Self]
  /\ UNCHANGED <<dirVars, envVars, hd, histVars, agentVars>>

\* ManageStatus finds the coin confirmed: IS_CAPABLE, sign the registration
\* and Register: Find(vin), Add when absent, then relay
ManageStatusRegister ==
  /\ apc = "idle"
  /\ agent.status \in Retryable
  /\ Signed(Self) < MaxSigned
  /\ agent' = [status |-> "IS_CAPABLE", vin |-> Self]
  /\ IF Find(Self) = 0
     THEN /\ apc' = "registerAdd" /\ asig' = now
          /\ UNCHANGED <<net, aptr>>
     ELSE /\ net' = net \cup {Dsee(Self, now)}
          /\ UNCHANGED maintVars
  /\ UNCHANGED <<dirVars, now, stopped, spent, hd, histVars, rpcVars>>

\* Register: mnodeman.Add of the new record, last seen at its sigTime, and
\* RelayFloatingcityEntry
RegisterAdd ==
  /\ apc = "registerAdd"
  /\ vFloatingcities' = Add(UpdateLastSeen(NewFloatingcity(Self, asig), asig))
  /\ net' = net \cup {Dsee(Self, asig)}
  /\ MaintIdle
  /\ UNCHANGED <<mAskedUsForFloatingcityList, mWeAskedForFloatingcityList,
                 mWeAskedForFloatingcityListEntry, now, stopped, spent, hd,
                 agent, histVars, rpcVars>>

\* ManageStatus when running: Dseep signs a ping and Finds the record; when
\* it is missing the agent gives up (NOT_CAPABLE) without relaying
ManageStatusPing ==
  /\ apc = "idle"
  /\ agent.status \in Running
  /\ Signed(Self) < MaxSigned
  /\ LET ptr == Find(agent.vin) IN
       IF ptr = 0
       THEN /\ agent' = [agent EXCEPT !.status = "NOT_CAPABLE"]
            /\ UNCHANGED maintVars
       ELSE /\ apc' = "ping" /\ aptr' = ptr /\ asig' = now
            /\ UNCHANGED agent
  /\ UNCHANGED <<dirVars, envVars, hd, histVars, rpcVars>>

\* Dseep through the pointer: UpdateLastSeen, then relay the ping
PingUpdate ==
  /\ apc = "ping"
  /\ vFloatingcities' =
       IF aptr <= Len(vFloatingcities)
       THEN [vFloatingcities EXCEPT ![aptr] = UpdateLastSeen(@, 0)]
       ELSE vFloatingcities
  /\ net' = net \cup {Dseep(agent.vin, asig, FALSE)}
  /\ MaintIdle
  /\ UNCHANGED <<mAskedUsForFloatingcityList, mWeAskedForFloatingcityList,
                 mWeAskedForFloatingcityListEntry, now, stopped, spent, hd,
                 agent, histVars, rpcVars>>

\* RPC "stop": StopFloatingCity of a running node sets STOPPED, unlocks the
\* coin and Dseep(stop) Finds the record (NOT_CAPABLE, no relay, if missing)
StopFind ==
  /\ rpc = "idle"
  /\ agent.status \in Running
  /\ Signed(agent.vin) < MaxSigned
  /\ LET ptr == Find(agent.vin) IN
       IF ptr = 0
       THEN /\ agent' = [agent EXCEPT !.status = "NOT_CAPABLE"]
            /\ UNCHANGED rpcVars
       ELSE /\ agent' = [agent EXCEPT !.status = "STOPPED"]
            /\ rpc' = "stopRemove" /\ rptr' = ptr /\ rsig' = now
            /\ avin' = agent.vin /\ arelay' = TRUE
            /\ UNCHANGED target
  /\ UNCHANGED <<dirVars, envVars, hd, histVars, maintVars>>

\* GetFloatingCityVin with no output named: the first 100000-coin output
\* SelectCoinsFloatingcity returns, and its collateral key; none once the
\* coin is spent.  AvailableCoinsMN (wallet.cpp, not in the tree) may skip
\* the coin ManageStatus locked, so NoVin is possible for an unspent coin.
FirstCoins == IF spent[Self] THEN {NoVin} ELSE {Self, NoVin}

\* StopFloatingCity(ip, key) for a remote node: GetFloatingCityVin
\* overwrites the input and the key it was given with the first coin and its
\* collateral key; UnlockCoin; then Dseep(stop) signs with that key, with no
\* status test and no STOPPED, and Finds the input: NOT_CAPABLE on the local
\* agent when it is missing
StopFloatingCityRemote ==
  /\ Signed(Self) < MaxSigned
  /\ \E coin \in FirstCoins :
     LET ptr == IF coin = NoVin THEN 0 ELSE Find(coin) IN
       IF ptr = 0
       THEN /\ agent' = [agent EXCEPT !.status = "NOT_CAPABLE"]
            /\ UNCHANGED rpcVars
       ELSE /\ rpc' = "stopRemove" /\ rptr' = ptr /\ rsig' = now
            /\ avin' = Self /\ arelay' = (CollateralKey[Self] = HotKey[Self])
            /\ UNCHANGED <<agent, target>>
  /\ UNCHANGED <<dirVars, envVars, hd, histVars, maintVars>>

\* RPC "stop-alias" of an entry of floatingcity.conf; "stop-many" does the
\* same for every entry in turn, releasing cs between them
RpcStopAlias(alias) ==
  /\ rpc = "idle"
  /\ alias \in Aliases
  /\ StopFloatingCityRemote

\* Register(strService, strKey, txHash, strOutputIndex): GetFloatingCityVin
\* of the named output (it fails once the coin is spent, or when the wallet
\* skips it), then Register(vin, ...): Find the input and, when absent, Add
\* it in a second lock hold; otherwise relay the signed registration
RegisterAlias(v) ==
  /\ ~spent[v]
  /\ Signed(v) < MaxSigned
  /\ IF Find(v) = 0
     THEN /\ rpc' = "registerAdd" /\ avin' = v /\ rsig' = now
          /\ UNCHANGED <<net, rptr, target, arelay>>
     ELSE /\ net' = net \cup {Dsee(v, now)}
          /\ UNCHANGED rpcVars
  /\ UNCHANGED <<dirVars, now, stopped, spent, hd, histVars, maintVars, agent>>

\* RPC "start-alias" of an entry of floatingcity.conf; "start-many" does the
\* same for every entry in turn
RpcStartAlias(alias) ==
  /\ rpc = "idle"
  /\ alias \in Aliases
  /\ RegisterAlias(AliasInput[alias])

\* Register on the RPC thread: mnodeman.Add of the new record, last seen at
\* its sigTime, and RelayFloatingcityEntry
RpcRegisterAdd ==
  /\ rpc = "registerAdd"
  /\ vFloatingcities' = Add(UpdateLastSeen(NewFloatingcity(avin, rsig), rsig))
  /\ net' = net \cup {Dsee(avin, rsig)}
  /\ RpcIdle
  /\ UNCHANGED <<mAskedUsForFloatingcityList, mWeAskedForFloatingcityList,
                 mWeAskedForFloatingcityListEntry, now, stopped, spent, hd,
                 agent, histVars, maintVars>>

\* mnodeman.Remove(pmn->vin): read the input through the pointer (a dead
\* slot still holds the input erased from it), then take cs and loop
StopRemove ==
  /\ rpc = "stopRemove"
  /\ rpc' = "removeLoop"
  /\ target' = IF rptr <= Len(vFloatingcities)
               THEN vFloatingcities[rptr].vin ELSE avin
  /\ UNCHANGED <<dirVars, envVars, hd, agent, histVars, maintVars, rptr, rsig,
                 avin, arelay>>

\* CFloatingcityMan::Remove: it = begin(); while (it != end()) { if match
\* { erase(it); break; } } -- the iterator never advances, so the loop exits
\* only when the vector is empty or its first record matches; otherwise it
\* spins with cs held.  On exit the stop is relayed.
RemoveCanExit ==
  Len(vFloatingcities) = 0 \/ (Len(vFloatingcities) > 0 /\ Head(vFloatingcities).vin = target)

RemoveLoop ==
  /\ rpc = "removeLoop"
  /\ RemoveCanExit
  /\ vFloatingcities' = IF Len(vFloatingcities) = 0 THEN vFloatingcities
                        ELSE Tail(vFloatingcities)
  /\ net' = IF arelay THEN net \cup {Dseep(avin, rsig, TRUE)} ELSE net
  /\ RpcIdle
  /\ UNCHANGED <<mAskedUsForFloatingcityList, mWeAskedForFloatingcityList,
                 mWeAskedForFloatingcityListEntry, now, stopped, spent, hd,
                 agent, histVars, maintVars>>

\* RPC "start" of a node that is not running: status NOT_PROCESSED, then
\* ManageStatus (taken by the ManageStatus actions)
RpcStart ==
  /\ rpc = "idle"
  /\ agent.status \notin Running \cup {"NOT_PROCESSED"}
  /\ agent' = [agent EXCEPT !.status = "NOT_PROCESSED"]
  /\ UNCHANGED <<dirVars, envVars, hd, histVars, agentVars>>

-----------------------------------------------------------------------------

AgentInit ==
  /\ Init
  /\ apc = "idle" /\ aptr = 0 /\ asig = 0
  /\ rpc = "idle" /\ rptr = 0 /\ rsig = 0 /\ target = NoVin
  /\ avin = NoVin /\ arelay = FALSE

\* the directory lock cs is held for as long as Remove loops
CsFree == rpc # "removeLoop"

AgentLockingStep ==
  \/ ManageStatusRegister \/ RegisterAdd \/ ManageStatusPing \/ StopFind
  \/ RpcRegisterAdd
  \/ \E alias \in Aliases : RpcStopAlias(alias) \/ RpcStartAlias(alias)

AgentStep ==
  \/ ManageStatusSyncing \/ ManageStatusNotCapable \/ RpcStart
  \/ PingUpdate \/ StopRemove \/ RemoveLoop

\* remote operators run every input but Self
OthersStep ==
  \/ Tick
  \/ \E v \in Vins : SpendInput(v)
  \/ \E v \in Others : OperatorRegister(v)
  \/ \E v \in Others, s \in BOOLEAN : OperatorPing(v, s)

\* the maintenance thread pings (ManageStatus) and sweeps (CheckAndRemove) in
\* turn; an RPC "stop" runs beside the sweep like the message thread does
MaintenanceMayRun ==
  /\ apc # "ping"
  /\ MaintenanceInterleaves \/ rpc # "stopRemove"

AgentNext ==
  \/ CsFree /\ MessageStep /\ UNCHANGED agentVars
  \/ CsFree /\ MaintenanceMayRun /\ CheckAndRemove /\ UNCHANGED agentVars
  \/ CsFree /\ AgentLockingStep
  \/ (ListRequestStep \/ PointerStep \/ OthersStep) /\ UNCHANGED agentVars
  \/ AgentStep

AgentSpec == AgentInit /\ [][AgentNext]_allVars

-----------------------------------------------------------------------------
(* Properties *)

AgentTypeOK ==
  /\ TypeOK
  /\ apc \in {"idle", "registerAdd", "ping"}
  /\ rpc \in {"idle", "registerAdd", "stopRemove", "removeLoop"}
  /\ aptr \in Nat /\ asig \in Nat /\ rptr \in Nat /\ rsig \in Nat
  /\ target \in Vins \cup {NoVin} /\ avin \in Vins \cup {NoVin}
  /\ arelay \in BOOLEAN

\* Register looks the input up and Adds it in two separate lock holds, while
\* the message thread may be adding the same input from a replay of an
\* earlier registration: the directory never holds two records of one input.
UniqueVin ==
  \A i, j \in 1..Len(vFloatingcities) :
    i # j => vFloatingcities[i].vin # vFloatingcities[j].vin

\* No operation blocks indefinitely (spec 5): whenever the agent is inside
\* CFloatingcityMan::Remove, holding cs, its loop can still end, i.e. the
\* vector is empty or its first record is the one to erase.
StopNeverSpins ==
  rpc = "removeLoop" => RemoveCanExit

\* "stop" takes only the input it signs for off the list: Remove(pmn->vin),
\* reading the input through the pointer Find returned before the lock was
\* let go, never erases another node's record.
StopRemovesOnlySelf ==
  [][rpc = "removeLoop" /\ Len(vFloatingcities') < Len(vFloatingcities) =>
       Head(vFloatingcities).vin = avin]_allVars

\* STOPPED is terminal (spec 4.2): an agent stopped over RPC resumes only
\* through RPC "start" (NOT_PROCESSED) or the sync wait of ManageStatus,
\* never because the dsee handler hands it an input (EnableHotColdFloatingCity).
StoppedStaysStopped ==
  [][agent.status = "STOPPED" =>
       agent'.status \in {"STOPPED", "NOT_PROCESSED", "SYNC_IN_PROCESS"}]_allVars

=============================================================================
