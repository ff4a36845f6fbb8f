--------------------------- MODULE ClusterProofs ----------------------------
(***************************************************************************)
(* The elections of Cluster, for any number of nodes, proposals, recoveries*)
(* and crashes.                                                            *)
(***************************************************************************)
EXTENDS Cluster, TLAPS

\* The flags, LeaderID and the candidate are what they should be.
LeaderTypeOK ==
  /\ crashed \in [Nodes -> BOOLEAN]
  /\ isLeader \in [Nodes -> BOOLEAN]
  /\ leaderId \in Nodes
  /\ best.node \in Nodes \cup {NoNode}

\* OneLeader alone is not inductive: it does not say that the election has taken
\* the flag from every node it has looked at, nor that its candidate, which is
\* kept only while c.mu is held, is still up.
ElectionInv ==
  /\ LeaderTypeOK
  /\ \A n \in Nodes : isLeader[n] =>
       n = leaderId /\ (locked => n \in unscanned \cup {resetting})
  /\ Found => locked /\ ~crashed[best.node]

\* Steps of proposals, and those of recoveries that revive nobody, leave the
\* leadership alone.
LEMMA Elsewhere ==
  ASSUME ElectionInv, UNCHANGED <<crashed, isLeader, leaderId, unscanned, resetting, best, locked>>
  PROVE  ElectionInv' /\ leaderId' = leaderId
BY Zenon DEF ElectionInv, LeaderTypeOK, Found

LEMMA ProposalElsewhere ==
  ASSUME ElectionInv, NEW p \in Proposals, ProposalStep(p)
  PROVE  ElectionInv' /\ leaderId' = leaderId
<1> USE DEF nodeVars, electionVars
<1>1. CASE PickLeader(p) \/ CheckLeader(p) \/ AppendOwn(p) \/ FanOut(p) \/ Return(p)
  BY <1>1, Elsewhere, Zenon DEF PickLeader, CheckLeader, AppendOwn, FanOut, Return
<1>2. ASSUME NEW n \in Nodes, Replicate(p, n) PROVE ElectionInv' /\ leaderId' = leaderId
  BY <1>2, Elsewhere, Zenon DEF Replicate
<1> QED BY <1>1, <1>2, Zenon DEF ProposalStep

LEMMA RecoveryKeeps ==
  ASSUME ElectionInv, NEW r \in Recoveries,
         RecoveryStep(r) \/ \E n \in Nodes : FindNode(r, n)
  PROVE  ElectionInv' /\ leaderId' = leaderId
<1> USE DEF nodeVars, electionVars
<1>1. CASE Revive(r)
  <2>1. /\ crashed' = [crashed EXCEPT ![target[r]] = FALSE]
        /\ UNCHANGED <<isLeader, leaderId, unscanned, resetting, best, locked>>
    BY <1>1, Zenon DEF Revive
  <2> QED BY <2>1, Zenon DEF ElectionInv, LeaderTypeOK, Found
<1>2. CASE PickSource(r) \/ CopyLog(r) \/ InstallLog(r)
  BY <1>2, Elsewhere, Zenon DEF PickSource, CopyLog, InstallLog
<1>3. ASSUME NEW n \in Nodes, FindNode(r, n) PROVE ElectionInv' /\ leaderId' = leaderId
  BY <1>3, Elsewhere, Zenon DEF FindNode
<1> QED BY <1>1, <1>2, <1>3, Zenon DEF RecoveryStep

\* The whole step, and what it does to LeaderID.
LEMMA ElectionStepInv ==
  ASSUME ElectionInv, [Next]_vars
  PROVE  ElectionInv' /\ (leaderId' # leaderId => ~crashed[leaderId'])
<1>1. ASSUME NEW p \in Proposals, ProposalStep(p)
      PROVE  ElectionInv' /\ leaderId' = leaderId
  BY <1>1, ProposalElsewhere, Zenon
<1>2. ASSUME NEW n \in Nodes, CrashNode(n)
      PROVE  ElectionInv' /\ leaderId' = leaderId
  <2>1. ~locked /\ ~Found
    BY <1>2, Zenon DEF CrashNode, CanCrash, ElectionInv
  <2>2. UNCHANGED <<isLeader, leaderId, unscanned, resetting, best, locked>>
    BY <1>2, Zenon DEF CrashNode
  <2>3. crashed' \in [Nodes -> BOOLEAN]
    BY <1>2, Zenon DEF CrashNode, ElectionInv, LeaderTypeOK
  <2> QED BY <2>1, <2>2, <2>3, Zenon DEF ElectionInv, LeaderTypeOK, Found
<1>3. ASSUME NEW r \in Recoveries, RecoveryStep(r) \/ \E n \in Nodes : FindNode(r, n)
      PROVE  ElectionInv' /\ leaderId' = leaderId
  BY <1>3, RecoveryKeeps, Zenon
<1>4. CASE BeginElection
  BY <1>4, Zenon DEF BeginElection, nodeVars, ElectionInv, LeaderTypeOK, Found, NoCandidate
<1>5. ASSUME NEW n \in Nodes, LookAt(n)
      PROVE  ElectionInv' /\ leaderId' = leaderId
  <2>1. /\ UNCHANGED <<crashed, isLeader, leaderId, locked>> /\ locked
        /\ unscanned' = unscanned \ {n} /\ resetting = NoNode /\ resetting' = n
    BY <1>5, Zenon DEF LookAt, nodeVars
  <2>2. best'.node = best.node \/ (best'.node = n /\ ~crashed[n])
    BY <1>5, Zenon DEF LookAt, Better
  <2> QED BY <2>1, <2>2, ClusterAssumption, Zenon DEF ElectionInv, LeaderTypeOK, Found
<1>6. CASE TakeFlag
  <2>1. /\ UNCHANGED <<crashed, leaderId, unscanned, best, locked>>
        /\ isLeader' = [isLeader EXCEPT ![resetting] = FALSE]
    BY <1>6, Zenon DEF TakeFlag, ResetFlag
  <2> QED BY <2>1, Zenon DEF ElectionInv, LeaderTypeOK, Found
<1>7. CASE EndElection
  <2>1. /\ locked /\ unscanned = {} /\ resetting = NoNode /\ ~locked' /\ crashed' = crashed
        /\ best' = NoCandidate
    BY <1>7, Zenon DEF EndElection
  <2>2. \A n \in Nodes : ~isLeader[n]
    BY <2>1, ClusterAssumption, Zenon DEF ElectionInv
  <2>3. CASE Found
    <3>1. best.node \in Nodes /\ ~crashed[best.node]
      BY <2>3, Zenon DEF ElectionInv, LeaderTypeOK, Found
    <3>2. isLeader' = [isLeader EXCEPT ![best.node] = TRUE] /\ leaderId' = best.node
      BY <1>7, <2>3, Zenon DEF EndElection
    <3> QED BY <2>1, <2>2, <3>1, <3>2, Zenon DEF ElectionInv, LeaderTypeOK, Found,
               NoCandidate
  <2>4. CASE ~Found
    <3>1. UNCHANGED <<isLeader, leaderId>>
      BY <1>7, <2>4, Zenon DEF EndElection
    <3> QED BY <2>1, <2>2, <3>1, Zenon DEF ElectionInv, LeaderTypeOK, Found, NoCandidate
  <2> QED BY <2>3, <2>4, Zenon
<1>8. CASE UNCHANGED vars
  BY <1>8, Elsewhere, Zenon DEF vars, nodeVars, electionVars
<1> QED BY <1>1, <1>2, <1>3, <1>4, <1>5, <1>6, <1>7, <1>8, Zenon DEF Next, ElectionStep

\* The invariant holds whenever the lock of the cluster is free or taken.
LEMMA ElectionCorrect == Spec => []ElectionInv
<1>1. Init => ElectionInv
  <2> SUFFICES ASSUME Init PROVE ElectionInv
    BY Zenon
  <2>1. /\ crashed = [n \in Nodes |-> FALSE] /\ leaderId = FirstLeader
        /\ best.node = NoNode /\ locked = FALSE
    BY Zenon DEF Init, NoCandidate
  <2>2. isLeader \in [Nodes -> BOOLEAN] /\ \A n \in Nodes : isLeader[n] => n = FirstLeader
    BY Zenon DEF Init
  <2> QED BY <2>1, <2>2, ClusterAssumption, Zenon DEF ElectionInv, LeaderTypeOK, Found
<1>2. ElectionInv /\ [Next]_vars => ElectionInv'
  BY ElectionStepInv, Zenon
<1> QED BY <1>1, <1>2, PTL DEF Spec

\* No two nodes ever take themselves for the leader, and between elections only
\* the node that LeaderID names does: runElection takes the flag from a node it
\* finds down or up, and sets one only after it has looked at all of them.
THEOREM NeverTwoLeaders == Spec => []OneLeader
<1>1. ElectionInv => OneLeader
  BY Zenon DEF ElectionInv, OneLeader
<1> QED BY <1>1, ElectionCorrect, PTL

\* Whoever becomes the leader is up at that moment, because CrashNode waits for
\* the lock under which runElection has found it up.
THEOREM NoDeadNodeElected == Spec => ElectedIsAlive
<1>1. ElectionInv /\ [Next]_vars => [leaderId' # leaderId => ~crashed[leaderId']]_vars
  BY ElectionStepInv, Zenon DEF vars, nodeVars
<1> QED BY <1>1, ElectionCorrect, PTL DEF Spec, ElectedIsAlive
=============================================================================
