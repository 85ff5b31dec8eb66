----------------------------- MODULE AdminQuorum -----------------------------
(***************************************************************************)
(* The admin fan-outs over all peers of a distributed setup: one goroutine *)
(* per peer stores its reply (or error) at its index, and after wg.Wait()  *)
(* the caller reduces the replies.  Modelled reductions:                  *)
(*  - getPeerConfig + getValidServerConfig (admin-rpc-client.go.orig):     *)
(*    the config held by a majority of the peers;                          *)
(*  - getPeerUptimes of admin-rpc-client.go.orig: the uptime "since the    *)
(*    last time read quorum was established";                             *)
(*  - getPeerUptimes of peer-rpc-server.go: the smallest uptime reported.  *)
(* The loops are translated as RECURSIVE operators and compared with       *)
(* reference definitions of what their comments promise.                  *)
(***************************************************************************)
EXTENDS Integers, Sequences, FiniteSets, SequencesExt

CONSTANTS
  PeerCounts,  \* len(peers) values to check
  Configs,     \* distinct config.json contents
  UptimeVals,  \* uptimes (durations) a server may report
  Err,         \* the RPC returned an error
  Corrupt,     \* config bytes that json.Unmarshal rejects
  Pending,     \* no reply stored yet
  Panic        \* the index out of range panic of times[0]

VARIABLES
  n,         \* len(peers)
  nodeCfg,   \* config.json on each peer
  nodeUp,    \* each peer's uptime
  cfgReply,  \* configs[idx] / errs[idx] written by the goroutines
  upReply,   \* uptimes[idx] written by the goroutines
  pc,        \* "gather", then "done" after wg.Wait()
  cfgResult, \* getPeerConfig's return: a config, or Err
  origUp,    \* getPeerUptimes (admin-rpc-client.go.orig): an uptime, or Err
  liveUp     \* getPeerUptimes (peer-rpc-server.go): an uptime, or Panic

vars == <<n, nodeCfg, nodeUp, cfgReply, upReply, pc, cfgResult, origUp, liveUp>>
Peers == 1..n

(***************************************************************************)
(* getValidServerConfig (lines 521-598)                                    *)
(***************************************************************************)
\* The inner loop over j <= i: skip j whose counter is zero (an error or a
\* duplicate of a lower index), count i at the first equal j, or make i a
\* new representative when j reaches i.
RECURSIVE MatchConfig(_, _, _, _)
MatchConfig(r, i, j, cnt) ==
  IF j < i /\ cnt[j] = 0 THEN MatchConfig(r, i, j + 1, cnt)
  ELSE IF j < i /\ r[i] = r[j] THEN [cnt EXCEPT ![j] = @ + 1]
  ELSE IF j = i THEN [cnt EXCEPT ![i] = 1]
  ELSE MatchConfig(r, i, j + 1, cnt)

\* The outer loop over i, skipping nodes where GetConfig failed.
RECURSIVE CountConfigs(_, _, _)
CountConfigs(r, i, cnt) ==
  IF i > Len(r) THEN cnt
  ELSE IF r[i] = Err THEN CountConfigs(r, i + 1, cnt)
  ELSE CountConfigs(r, i + 1, MatchConfig(r, i, 1, cnt))

\* The maximally occurring config: the first index with the largest count.
RECURSIVE MaxOccurrence(_, _, _, _)
MaxOccurrence(r, cnt, i, best) ==
  IF i > Len(r) THEN best
  ELSE IF best[1] < cnt[i] THEN MaxOccurrence(r, cnt, i + 1, <<cnt[i], r[i]>>)
  ELSE MaxOccurrence(r, cnt, i + 1, best)

\* Mutant: quorum is len/2 instead of len/2 + 1.
ConfigQuorumHalf(r) == Len(r) \div 2

ConfigQuorum(r) == Len(r) \div 2 + 1

ValidServerConfig(r) ==
  LET best == MaxOccurrence(r, CountConfigs(r, 1, [i \in 1..Len(r) |-> 0]),
                            1, <<0, Err>>)
  IN IF best[1] < ConfigQuorum(r) THEN Err ELSE best[2]

\* Reference: the config returned by more than half of all peers, if any.
RefMajorityConfig(r) ==
  IF \E c \in Configs : 2 * Cardinality({i \in DOMAIN r : r[i] = c}) > Len(r)
    THEN CHOOSE c \in Configs : 2 * Cardinality({i \in DOMAIN r : r[i] = c}) > Len(r)
    ELSE Err

\* Mutant: the single-node shortcut (line 471) taken in distributed XL:
\* the first peer's reply is returned as it is.
PeerConfigFirstPeer(r) == r[1]

\* getPeerConfig (lines 470-515) after wg.Wait(): any reply that does not
\* unmarshal makes it return that error; otherwise getValidServerConfig.
PeerConfig(r) ==
  IF \E i \in DOMAIN r : r[i] = Corrupt THEN Err ELSE ValidServerConfig(r)

(***************************************************************************)
(* getPeerUptimes                                                          *)
(***************************************************************************)
\* The zero Duration of a failed ServerInfoData call sorts first.
UptimeOf(x) == IF x = Err THEN 0 ELSE x
UptimeLT(a, b) == UptimeOf(a) < UptimeOf(b)

\* admin-rpc-client.go.orig lines 416-466: sort ascending, then take the
\* readQuorum'th successful uptime, readQuorum = len/2.
RECURSIVE PickUptime(_, _, _)
PickUptime(s, rq, valid) ==
  IF s = <<>> THEN IF valid < rq THEN Err ELSE 0
  ELSE IF Head(s) = Err THEN PickUptime(Tail(s), rq, valid)
  ELSE IF valid + 1 >= rq THEN Head(s)
  ELSE PickUptime(Tail(s), rq, valid + 1)

OrigPeerUptimes(r) == PickUptime(SortSeq(r, UptimeLT), Len(r) \div 2, 0)

\* peer-rpc-server.go lines 291-313: sort the successful uptimes and
\* return times[0], which panics when there are none.
LivePeerUptimes(r) ==
  LET times == SelectSeq(r, LAMBDA x : x # Err)
  IN IF times = <<>> THEN Panic ELSE SortSeq(times, UptimeLT)[1]

\* Reference for the comment of the .orig version: the longest duration for
\* which at least readQuorum of the responding servers have been up.
RefQuorumUptime(r) ==
  LET ok == {i \in DOMAIN r : r[i] # Err}
      rq == Len(r) \div 2
      upFor(t) == Cardinality({i \in ok : r[i] >= t}) >= rq
  IN IF Cardinality(ok) < rq THEN Err
     ELSE CHOOSE t \in {r[i] : i \in ok} \cup {0} :
            upFor(t) /\ \A t2 \in {r[i] : i \in ok} : upFor(t2) => t2 <= t

(***************************************************************************)
(* The fan-out                                                             *)
(***************************************************************************)
\* Any divergence of the peers' configs and uptimes.
Init ==
  /\ n \in PeerCounts
  /\ nodeCfg \in [1..n -> Configs]
  /\ nodeUp \in [1..n -> UptimeVals]
  /\ cfgReply = [i \in 1..n |-> Pending]
  /\ upReply = [i \in 1..n |-> Pending]
  /\ pc = "gather"
  /\ cfgResult = Pending /\ origUp = Pending /\ liveUp = Pending

\* adminCmd.GetConfig on peer i: an authentication failure or a nil
\* globalServerConfig is an error, otherwise the marshalled config.json.
GetConfigReplies(i) == {nodeCfg[i], Err}

\* adminCmd.ServerInfoData on peer i: an authentication failure, a zero
\* boot time or a nil object layer is errServerNotInitialized, otherwise
\* the uptime.
ServerInfoDataReplies(i) == {nodeUp[i], Err}

\* peerRPCReceiver.ServerInfo on peer i, which getPeerUptimes of
\* peer-rpc-server.go reduces: a zero boot time or a nil object layer is
\* errServerNotInitialized, otherwise the uptime.  The same replies as
\* ServerInfoData, so one reply per peer serves both reductions.
ServerInfoReplies(i) == {nodeUp[i], Err}

\* The goroutine of peer i: the GetConfig reply, which may also fail to
\* parse at the caller (Corrupt) or be lost (Err), and the ServerInfoData
\* reply.
PeerReply(i) ==
  /\ pc = "gather" /\ cfgReply[i] = Pending
  /\ cfgReply' \in {[cfgReply EXCEPT ![i] = x] : x \in GetConfigReplies(i) \cup {Corrupt}}
  /\ upReply' \in {[upReply EXCEPT ![i] = x] :
                    x \in ServerInfoDataReplies(i) \cup ServerInfoReplies(i)}
  /\ UNCHANGED <<n, nodeCfg, nodeUp, pc, cfgResult, origUp, liveUp>>

\* wg.Wait() returned: the replies are reduced.
Reduce ==
  /\ pc = "gather"
  /\ \A i \in Peers : cfgReply[i] # Pending
  /\ pc' = "done"
  /\ cfgResult' = PeerConfig(cfgReply)
  /\ origUp' = OrigPeerUptimes(upReply)
  /\ liveUp' = LivePeerUptimes(upReply)
  /\ UNCHANGED <<n, nodeCfg, nodeUp, cfgReply, upReply>>

Next == (\E i \in Peers : PeerReply(i)) \/ Reduce

Spec == Init /\ [][Next]_vars

(***************************************************************************)
(* Properties                                                              *)
(***************************************************************************)

TypeOK ==
  /\ n \in PeerCounts
  /\ nodeCfg \in [Peers -> Configs] /\ nodeUp \in [Peers -> UptimeVals]
  /\ cfgReply \in [Peers -> Configs \cup {Corrupt, Err, Pending}]
  /\ upReply \in [Peers -> UptimeVals \cup {Err, Pending}]
  /\ pc \in {"gather", "done"}
  /\ cfgResult \in Configs \cup {Err, Pending}
  /\ origUp \in UptimeVals \cup {0, Err, Pending}
  /\ liveUp \in UptimeVals \cup {Panic, Pending}

\* getPeerConfig returns the config that more than half of all peers
\* returned, and an error when there is none (errXLWriteQuorum) or a reply
\* does not parse: getValidServerConfig's counter loop groups equal configs
\* under their lowest index whatever the positions of errors and duplicates.
ConfigChoiceIsMajority ==
  pc = "done" =>
    cfgResult = IF \E i \in Peers : cfgReply[i] = Corrupt THEN Err
                ELSE RefMajorityConfig(cfgReply)

\* getPeerUptimes (.orig) returns the uptime since read quorum was last
\* established, as its comment says.
OrigUptimeIsQuorumTime == pc = "done" => origUp = RefQuorumUptime(upReply)

\* getPeerUptimes (peer-rpc-server.go) returns an uptime for every input.
LiveUptimeDefined == pc = "done" => liveUp # Panic
=============================================================================
