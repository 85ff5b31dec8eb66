------------------------------ MODULE DsyncNodes ------------------------------
(***************************************************************************)
(* newDsyncNodes (src/cmd/namespace-lock.go): in a distributed setup, one  *)
(* dsync lock client per distinct host of the endpoint list, in the order  *)
(* hosts first appear; the local host gets the in-process locker, which    *)
(* becomes globalLockServer, and its index is myNode.  The server starts   *)
(* with any endpoint list of bounded length (the variables); the loop is   *)
(* translated as a RECURSIVE operator and compared with a reference         *)
(* definition in every such state.                                         *)
(***************************************************************************)
EXTENDS Integers, Sequences, SequencesExt

CONSTANTS
  Hosts,        \* host:port names of the servers
  MaxEndpoints  \* longest endpoint list checked

VARIABLES
  endpoints,    \* the EndpointList the server was started with
  localHosts    \* the hosts among them that are this server

dsyncVars == <<endpoints, localHosts>>

\* Endpoint lists in which the hosts of Local are this server: every
\* endpoint of a host has the same IsLocal.
EndpointLists(Local) ==
  UNION {[1..n -> {[host |-> h, isLocal |-> h \in Local] : h \in Hosts}] :
           n \in 1..MaxEndpoints}

\* Mutant: the seenHosts check is missing, every endpoint gets a locker.
RECURSIVE DsyncLoopNoDedupe(_, _, _, _, _, _)
DsyncLoopNoDedupe(eps, i, seen, clnts, myNode, server) ==
  IF i > Len(eps) THEN [clnts |-> clnts, myNode |-> myNode, server |-> server]
  ELSE LET e == eps[i]
           c == [host |-> e.host, local |-> e.isLocal]
       IN IF e.isLocal
            THEN DsyncLoopNoDedupe(eps, i + 1, seen, Append(clnts, c),
                                   Len(clnts), e.host)
          ELSE DsyncLoopNoDedupe(eps, i + 1, seen, Append(clnts, c),
                                 myNode, server)

\* The range loop: skip hosts already seen; otherwise append a locker for
\* the host, local (myNode = len(clnts), globalLockServer set) or remote.
RECURSIVE DsyncLoop(_, _, _, _, _, _)
DsyncLoop(eps, i, seen, clnts, myNode, server) ==
  IF i > Len(eps) THEN [clnts |-> clnts, myNode |-> myNode, server |-> server]
  ELSE LET e == eps[i]
           c == [host |-> e.host, local |-> e.isLocal]
       IN IF e.host \in seen
            THEN DsyncLoop(eps, i + 1, seen, clnts, myNode, server)
          ELSE IF e.isLocal
            THEN DsyncLoop(eps, i + 1, seen \cup {e.host}, Append(clnts, c),
                           Len(clnts), e.host)
          ELSE DsyncLoop(eps, i + 1, seen \cup {e.host}, Append(clnts, c),
                         myNode, server)

\* No lock server yet.
NoServer == "none"

NewDsyncNodes(eps) == DsyncLoop(eps, 1, {}, <<>>, -1, NoServer)

\* Reference: the distinct hosts, ordered by their first endpoint.
RefLockerHosts(eps) ==
  LET first(h) == SelectInSeq(eps, LAMBDA e : e.host = h)
  IN SetToSortSeq({e.host : e \in ToSet(eps)},
                  LAMBDA a, b : first(a) < first(b))

\* At most one host of the list is this server.
DsyncInit ==
  /\ localHosts \in {{}} \cup {{h} : h \in Hosts}
  /\ endpoints \in EndpointLists(localHosts)

\* newDsyncNodes returns one lock client per distinct host, in the order
\* the hosts first appear in the endpoint list, the in-process locker for
\* this server's host only, myNode as the (0-based) index of that locker
\* or -1 when no endpoint is local, and globalLockServer serving it: for
\* every endpoint list, whatever the repetitions and the position of the
\* local host.
DsyncNodesMatchReference ==
  LET r == NewDsyncNodes(endpoints)
      hs == RefLockerHosts(endpoints)
      me == SelectInSeq(hs, LAMBDA h : h \in localHosts) - 1
  IN /\ [i \in DOMAIN r.clnts |-> r.clnts[i].host] = hs
     /\ \A i \in DOMAIN r.clnts : r.clnts[i].local = (hs[i] \in localHosts)
     /\ r.myNode = me
     /\ r.server = IF me >= 0 THEN hs[me + 1] ELSE NoServer
=============================================================================
