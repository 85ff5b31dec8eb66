----------------------------- MODULE AdminConfig -----------------------------
(***************************************************************************)
(* Setting config.json on every node in two phases: writeTmpConfigPeers    *)
(* writes the new config into a temporary file on all nodes, then          *)
(* commitConfigPeers renames it onto config.json on all nodes.  The admin  *)
(* caller commits a round only when every write succeeded (as               *)
(* TestWriteAndCommitConfig does).  The server's CommitConfig handler does *)
(* not authenticate its caller, so any client that reaches the RPC can     *)
(* rename any temporary file left in the config directory.                 *)
(***************************************************************************)
EXTENDS FiniteSets

CONSTANTS
  Nodes,    \* the admin peers
  Names,    \* temporary file names, one per round (mustGetUUID)
  Configs,  \* config contents an admin may set
  Init0,    \* the config every node starts with
  Partial,  \* what a failed ioutil.WriteFile leaves behind
  None      \* no such file

VARIABLES
  cfg,      \* config.json of each node
  tmp,      \* tmp[i][f]: temporary file f in node i's config dir
  round,    \* round[f]: the admin round that uses file name f
  committed \* configs an admin round decided to commit, per node (ghost)

vars == <<cfg, tmp, round, committed>>

Unused == [pc |-> "unused"]

Init ==
  /\ cfg = [i \in Nodes |-> Init0]
  /\ tmp = [i \in Nodes |-> [f \in Names |-> None]]
  /\ round = [f \in Names |-> Unused]
  /\ committed = [i \in Nodes |-> {Init0}]

\* The admin starts writeTmpConfigPeers with a fresh name and config.
StartRound(f, c) ==
  /\ round[f] = Unused
  /\ round' = [round EXCEPT ![f] = [pc |-> "write", conf |-> c,
                                     w |-> [i \in Nodes |-> "pending"],
                                     cm |-> [i \in Nodes |-> "pending"]]]
  /\ UNCHANGED <<cfg, tmp, committed>>

\* The goroutine for node i: WriteTmpConfig succeeds, or
\* ioutil.WriteFile fails, which may leave a partial file, or the RPC fails
\* before the server wrote anything.
WriteTmp(f, i) ==
  /\ round[f].pc = "write" /\ round[f].w[i] = "pending"
  /\ \/ /\ tmp' = [tmp EXCEPT ![i][f] = round[f].conf]
        /\ round' = [round EXCEPT ![f].w[i] = "ok"]
     \/ /\ tmp' \in {[tmp EXCEPT ![i][f] = x] : x \in {Partial, None}}
        /\ round' = [round EXCEPT ![f].w[i] = "err"]
  /\ UNCHANGED <<cfg, committed>>

\* After wg.Wait(): commit when no write failed, else give the round up
\* and leave the temporary files where they are.
EndWrites(f) ==
  /\ round[f].pc = "write" /\ \A i \in Nodes : round[f].w[i] # "pending"
  /\ IF \A i \in Nodes : round[f].w[i] = "ok"
       THEN /\ round' = [round EXCEPT ![f].pc = "commit"]
            /\ committed' = [i \in Nodes |-> committed[i] \cup {round[f].conf}]
       ELSE /\ round' = [round EXCEPT ![f].pc = "abandoned"]
            /\ UNCHANGED committed
  /\ UNCHANGED <<cfg, tmp>>

\* os.Rename(tmpConfigFile, configFile) on node i: it fails when the file
\* is gone; a renamed file's reply may still be lost on the way back.
Rename(i, f) ==
  /\ tmp[i][f] # None
  /\ cfg' = [cfg EXCEPT ![i] = tmp[i][f]]
  /\ tmp' = [tmp EXCEPT ![i][f] = None]

CommitPeer(f, i) ==
  /\ round[f].pc = "commit" /\ round[f].cm[i] = "pending"
  /\ \/ Rename(i, f) /\ round' \in {[round EXCEPT ![f].cm[i] = x] : x \in {"ok", "err"}}
     \/ UNCHANGED <<cfg, tmp>> /\ round' = [round EXCEPT ![f].cm[i] = "err"]
  /\ UNCHANGED committed

\* The CommitConfig handler called without credentials for an existing
\* temporary file.
UnauthCommit(i, f) ==
  /\ Rename(i, f)
  /\ UNCHANGED <<round, committed>>

Next ==
  \/ \E f \in Names, c \in Configs : StartRound(f, c)
  \/ \E f \in Names, i \in Nodes : WriteTmp(f, i) \/ CommitPeer(f, i)
  \/ \E f \in Names : EndWrites(f)
  \/ \E f \in Names, i \in Nodes : UnauthCommit(i, f)

Spec == Init /\ [][Next]_vars

\* Every node's config.json holds the initial config or one an admin round
\* decided to commit: a round given up after a failed write never reaches a
\* config.json, and neither do partial files.
ConfigOnlyFromCommittedRounds == \A i \in Nodes : cfg[i] \in committed[i]
=============================================================================
