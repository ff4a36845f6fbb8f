------------------------------ MODULE Cluster ------------------------------
(***************************************************************************)
(* internal/cluster: the in-memory cluster of settlement nodes, with a     *)
(* leader that replicates commands, crashes, recoveries and elections.     *)
(*                                                                         *)
(* The lock c.mu guards LeaderID and is held through an election; it is    *)
(* not held while nodes are read and written one by one under their own    *)
(* locks.  A step is what happens under one lock.  CommitIdx is only       *)
(* reported by GetStatus and is left out.                                  *)
(***************************************************************************)
EXTENDS Integers, Sequences, FiniteSets

CONSTANTS
  Nodes,        \* node-a, node-b and node-c
  FirstLeader,  \* node-a
  Proposals,    \* calls of ProposeCommand, and the commands they carry
  Recoveries,   \* calls of RecoverNode
  MaxCrashes    \* bound: calls of CrashNode

NoNode == "no_node"

ASSUME ClusterAssumption == FirstLeader \in Nodes /\ MaxCrashes \in Nat /\ NoNode \notin Nodes

VARIABLES
  crashed,     \* Crashed of every node
  isLeader,    \* IsLeader of every node
  log,         \* Log of every node
  leaderId,    \* LeaderID
  ppc,         \* ppc[p]: the step of proposal p
  lead,        \* lead[p]: the node p took for the leader
  followers,   \* followers[p]: the nodes its goroutines have not dealt with
  acks,        \* acks[p]: who acknowledged p, and in which role
  rpc,         \* rpc[r]: the step of recovery r
  target,      \* target[r]: the node r recovers
  source,      \* source[r]: the leader r copies from
  copy,        \* copy[r]: the log it has copied
  elections,   \* elections that have been started and wait for c.mu
  unscanned,   \* nodes the running election has not looked at
  resetting,   \* the node it has looked at last, while it still has its flag
  best,        \* its best candidate so far
  locked,      \* whether an election runs, and holds c.mu
  crashes      \* calls of CrashNode so far

nodeVars == <<crashed, isLeader, log, leaderId>>
proposalVars == <<ppc, lead, followers, acks>>
recoveryVars == <<rpc, target, source, copy>>
electionVars == <<elections, unscanned, resetting, best, locked>>
vars == <<nodeVars, proposalVars, recoveryVars, electionVars, crashes>>

NoCandidate == [node |-> NoNode, size |-> -1]

Init ==
  /\ crashed = [n \in Nodes |-> FALSE]
  /\ isLeader = [n \in Nodes |-> n = FirstLeader]
  /\ log = [n \in Nodes |-> <<>>]
  /\ leaderId = FirstLeader
  /\ ppc = [p \in Proposals |-> "idle"]
  /\ lead = [p \in Proposals |-> NoNode]
  /\ followers = [p \in Proposals |-> {}]
  /\ acks = [p \in Proposals |-> {}]
  /\ rpc = [r \in Recoveries |-> "idle"]
  /\ target = [r \in Recoveries |-> NoNode]
  /\ source = [r \in Recoveries |-> NoNode]
  /\ copy = [r \in Recoveries |-> <<>>]
  /\ elections = 0 /\ unscanned = {} /\ resetting = NoNode /\ best = NoCandidate
  /\ locked = FALSE
  /\ crashes = 0
-----------------------------------------------------------------------------
(***************************************************************************)
(* ProposeCommand                                                          *)
(***************************************************************************)
ProposalAt(p, step) == ppc' = [ppc EXCEPT ![p] = step]
Append1(n, p) == log' = [log EXCEPT ![n] = Append(@, p)]

PickLeader(p) ==
  /\ ppc[p] = "idle" /\ ~locked
  /\ lead' = [lead EXCEPT ![p] = leaderId]
  /\ ProposalAt(p, "check")
  /\ UNCHANGED <<nodeVars, followers, acks, recoveryVars, electionVars, crashes>>

CheckLeader(p) ==
  /\ ppc[p] = "check"
  /\ ProposalAt(p, IF crashed[lead[p]] \/ ~isLeader[lead[p]] THEN "refused" ELSE "append")
  /\ UNCHANGED <<nodeVars, lead, followers, acks, recoveryVars, electionVars, crashes>>

\* The leader appends and acknowledges, whether or not it still is one.
AppendOwn(p) ==
  /\ ppc[p] = "append"
  /\ Append1(lead[p], p)
  /\ acks' = [acks EXCEPT ![p] = {<<lead[p], "leader">>}]
  /\ ProposalAt(p, "fanout")
  /\ UNCHANGED <<crashed, isLeader, leaderId, lead, followers, recoveryVars, electionVars,
                 crashes>>

\* A goroutine for every node but the one that is the leader by now.
FanOut(p) ==
  /\ ppc[p] = "fanout" /\ ~locked
  /\ followers' = [followers EXCEPT ![p] = Nodes \ {leaderId}]
  /\ ProposalAt(p, "wait")
  /\ UNCHANGED <<nodeVars, lead, acks, recoveryVars, electionVars, crashes>>

\* The goroutine for node n; it runs on when the caller has given up.
Replicate(p, n) ==
  /\ n \in followers[p]
  /\ followers' = [followers EXCEPT ![p] = @ \ {n}]
  /\ IF crashed[n] THEN UNCHANGED <<log, acks>>
     ELSE Append1(n, p) /\ acks' = [acks EXCEPT ![p] = @ \cup {<<n, "follower">>}]
  /\ UNCHANGED <<crashed, isLeader, leaderId, ppc, lead, recoveryVars, electionVars, crashes>>

\* All goroutines are through, or the context is done.
Return(p) ==
  /\ ppc[p] = "wait"
  /\ \/ /\ followers[p] = {}
        /\ ProposalAt(p, IF Cardinality(acks[p]) >= 2 THEN "committed" ELSE "no_quorum")
     \/ ProposalAt(p, "timeout")
  /\ UNCHANGED <<nodeVars, lead, followers, acks, recoveryVars, electionVars, crashes>>
-----------------------------------------------------------------------------
(***************************************************************************)
(* CrashNode and RecoverNode                                               *)
(***************************************************************************)

\* Broken variant of CanCrash: c.mu is not taken.
CanCrashAnytime == crashes < MaxCrashes

\* CrashNode takes c.mu.
CanCrash == crashes < MaxCrashes /\ ~locked

\* A crash of the leader starts an election.
CrashNode(n) ==
  /\ CanCrash
  /\ crashes' = crashes + 1
  /\ crashed' = [crashed EXCEPT ![n] = TRUE]
  /\ elections' = IF n = leaderId THEN elections + 1 ELSE elections
  /\ UNCHANGED <<isLeader, log, leaderId, proposalVars, recoveryVars, unscanned, resetting,
                 best, locked>>

RecoveryAt(r, step) == rpc' = [rpc EXCEPT ![r] = step]

\* RecoverNode finds its node under c.mu, revives it, looks up the leader under
\* c.mu, copies the leader's log and installs the copy.
FindNode(r, n) ==
  /\ rpc[r] = "idle" /\ ~locked
  /\ target' = [target EXCEPT ![r] = n]
  /\ RecoveryAt(r, "revive")
  /\ UNCHANGED <<nodeVars, proposalVars, source, copy, electionVars, crashes>>

Revive(r) ==
  /\ rpc[r] = "revive"
  /\ crashed' = [crashed EXCEPT ![target[r]] = FALSE]
  /\ RecoveryAt(r, "pick")
  /\ UNCHANGED <<isLeader, log, leaderId, proposalVars, target, source, copy, electionVars,
                 crashes>>

PickSource(r) ==
  /\ rpc[r] = "pick" /\ ~locked
  /\ source' = [source EXCEPT ![r] = leaderId]
  /\ RecoveryAt(r, "copy")
  /\ UNCHANGED <<nodeVars, proposalVars, target, copy, electionVars, crashes>>

CopyLog(r) ==
  /\ rpc[r] = "copy"
  /\ copy' = [copy EXCEPT ![r] = log[source[r]]]
  /\ RecoveryAt(r, "install")
  /\ UNCHANGED <<nodeVars, proposalVars, target, source, electionVars, crashes>>

InstallLog(r) ==
  /\ rpc[r] = "install"
  /\ log' = [log EXCEPT ![target[r]] = copy[r]]
  /\ RecoveryAt(r, "done")
  /\ target' = [target EXCEPT ![r] = NoNode]
  /\ source' = [source EXCEPT ![r] = NoNode]
  /\ copy' = [copy EXCEPT ![r] = <<>>]
  /\ UNCHANGED <<crashed, isLeader, leaderId, proposalVars, electionVars, crashes>>
-----------------------------------------------------------------------------
(***************************************************************************)
(* runElection                                                             *)
(***************************************************************************)
BeginElection ==
  /\ elections > 0 /\ ~locked
  /\ elections' = elections - 1
  /\ locked' = TRUE
  /\ unscanned' = Nodes
  /\ best' = NoCandidate
  /\ UNCHANGED <<nodeVars, proposalVars, recoveryVars, resetting, crashes>>

\* Broken variants of the next two: a node with an empty log is no candidate; a
\* node that is up keeps its flag.
BetterIfNonEmpty(n) == ~crashed[n] /\ Len(log[n]) > best.size /\ log[n] # <<>>
ResetFlagIfCrashed(n) == isLeader' = [isLeader EXCEPT ![n] = @ /\ ~crashed[n]]

Better(n) == ~crashed[n] /\ Len(log[n]) > best.size
ResetFlag(n) == isLeader' = [isLeader EXCEPT ![n] = FALSE]

\* The nodes are looked at in any order (a Go map).  A node is read under its read
\* lock, and loses its flag under its write lock, taken afterwards.
LookAt(n) ==
  /\ locked /\ resetting = NoNode /\ n \in unscanned
  /\ unscanned' = unscanned \ {n}
  /\ best' = IF Better(n) THEN [node |-> n, size |-> Len(log[n])] ELSE best
  /\ resetting' = n
  /\ UNCHANGED <<nodeVars, proposalVars, recoveryVars, elections, locked, crashes>>

TakeFlag ==
  /\ locked /\ resetting # NoNode
  /\ ResetFlag(resetting)
  /\ resetting' = NoNode
  /\ UNCHANGED <<crashed, log, leaderId, proposalVars, recoveryVars, elections, unscanned,
                 best, locked, crashes>>

Found == best.node # NoNode

EndElection ==
  /\ locked /\ unscanned = {} /\ resetting = NoNode
  /\ IF Found
     THEN /\ isLeader' = [isLeader EXCEPT ![best.node] = TRUE]
          /\ leaderId' = best.node
     ELSE UNCHANGED <<isLeader, leaderId>>
  /\ locked' = FALSE
  /\ best' = NoCandidate
  /\ UNCHANGED <<crashed, log, proposalVars, recoveryVars, elections, unscanned, resetting,
                 crashes>>
-----------------------------------------------------------------------------
ProposalStep(p) ==
  \/ PickLeader(p) \/ CheckLeader(p) \/ AppendOwn(p) \/ FanOut(p) \/ Return(p)
  \/ \E n \in Nodes : Replicate(p, n)

RecoveryStep(r) == Revive(r) \/ PickSource(r) \/ CopyLog(r) \/ InstallLog(r)

ElectionStep == BeginElection \/ (\E n \in Nodes : LookAt(n)) \/ TakeFlag \/ EndElection

Next ==
  \/ \E p \in Proposals : ProposalStep(p)
  \/ \E n \in Nodes : CrashNode(n)
  \/ \E r \in Recoveries, n \in Nodes : FindNode(r, n)
  \/ \E r \in Recoveries : RecoveryStep(r)
  \/ ElectionStep

Spec == Init /\ [][Next]_vars

\* An election that has been started is run: its goroutine gets the lock.
FairSpec == Spec /\ WF_vars(ElectionStep)
-----------------------------------------------------------------------------
\* At most one node takes itself for the leader, and outside of an election it is
\* the one LeaderID names, however crashes, recoveries and elections overlap: a
\* leader that was revived before its election must not stay one.
OneLeader ==
  \A m, n \in Nodes :
    /\ isLeader[m] /\ isLeader[n] => m = n
    /\ isLeader[m] /\ ~locked => m = leaderId

\* A node is elected only while it is up.  It was looked at before the election
\* ended, so this rests on CrashNode waiting for c.mu.
ElectedIsAlive == [][leaderId' # leaderId => ~crashed[leaderId']]_vars

\* An election that a crash of the leader has started gives the cluster a working
\* leader, unless all nodes are down at once: no interleaving with further crashes
\* and recoveries swallows it.
FailoverCompletes ==
  elections > 0 ~>
    \/ isLeader[leaderId] /\ ~crashed[leaderId]
    \/ \A n \in Nodes : crashed[n]
=============================================================================
