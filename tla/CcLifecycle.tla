----------------------------- MODULE CcLifecycle -----------------------------
(***************************************************************************)
(* How the scripts of the peers install a chaincode on a channel and       *)
(* change its endorsement policy: install_and_approve_cc.sh followed by    *)
(* cc_commit.sh (install-chaincode.sh), update-sig-policy.sh, and          *)
(* cc_commit_custom_policy.sh.  Each is run in the pod of one organisation *)
(* with a peer, numbers its definition from what it reads of the channel,  *)
(* and goes on whatever a command returns.  The lifecycle of the peers and *)
(* the orderer is external; the channel lets any one organisation endorse  *)
(* a commit (LifecycleEndorsement, orderer/configtx.yaml).                 *)
(***************************************************************************)
EXTENDS Naturals

CONSTANTS
    Org,
    Default,    \* the policy of a definition without one: any one organisation
    Custom,     \* the policy of update-sig-policy.sh: all the organisations
    NoPolicy,
    MaxSequence \* bound: the sequence of the last committed definition

ASSUME ConstantAssumption ==
    Default # Custom /\ NoPolicy \notin {Default, Custom} /\ MaxSequence \in Nat

VARIABLES
    committed,  \* the sequence and the policy of the definition in force
    approved,   \* the policy every organisation approved for a sequence
    pc,         \* the next command of the script every organisation runs
    policy,     \* the policy that script works for
    sequence,   \* its NEXT_SEQUENCE; 0 where the query gave none
    trouble     \* auxiliary: what disturbed the last script

vars == <<committed, approved, pc, policy, sequence, trouble>>

Policy == {Default, Custom}

Goto(o, label) == pc' = [pc EXCEPT ![o] = label]

-----------------------------------------------------------------------------
(* What the peers answer.                                                  *)

\* querycommitted; it fails while nothing is committed.  "jq" then prints
\* nothing, for which the shell computes with 0.
QueryCommitted == committed.sequence

\* Mutant: the approval of the definition in force comes first.
QueryApprovedOld(o) ==
    IF approved[o][committed.sequence] # NoPolicy THEN committed.sequence
    ELSE IF approved[o][committed.sequence + 1] # NoPolicy THEN committed.sequence + 1
    ELSE 0

\* queryapproved: the approval for the next definition, if there is one, else for
\* the one in force, else an error.
QueryApproved(o) ==
    IF approved[o][committed.sequence + 1] # NoPolicy THEN committed.sequence + 1
    ELSE IF approved[o][committed.sequence] # NoPolicy THEN committed.sequence
    ELSE 0

\* approveformyorg, for the next definition or once more for the one in force.
MayApprove(p, s) ==
    \/ s = committed.sequence + 1
    \/ s = committed.sequence /\ s > 0 /\ p = committed.policy

\* Mutant: a definition older than the one in force is committed, too.
MayCommitAny(o, p, s) == approved[o][s] = p

\* commit, endorsed by the organisation itself, which must have approved it.
MayCommit(o, p, s) == s = committed.sequence + 1 /\ approved[o][s] = p

\* An organisation whose approval is of the definition in force runs the
\* chaincode; the others' peers refuse to.
CanEndorse(o) == committed.sequence > 0 /\ approved[o][committed.sequence] = committed.policy

\* Enough of them do.
Usable ==
    IF committed.policy = Custom THEN \A o \in Org : CanEndorse(o)
    ELSE \E o \in Org : CanEndorse(o)

-----------------------------------------------------------------------------
(* The scripts.  A command that fails has no effect, and a query none      *)
(* answers like one of an empty channel.                                   *)

Begin(o, p, label) ==
    /\ Goto(o, label)
    /\ policy' = [policy EXCEPT ![o] = p]

\* Mutant: the sequence in force is not raised.
NextSequenceSame(s) == s

\* Lines 33-34 of install_and_approve_cc.sh, 11-12 of update-sig-policy.sh.
NextSequence(s) == s + 1

BeginApproving(o, p, label) ==
    /\ pc[o] = "idle" /\ committed.sequence < MaxSequence
    /\ Begin(o, p, label)
    /\ \E failure \in SUBSET {"failure"} :
          /\ sequence' = [sequence EXCEPT ![o] = NextSequence(
                             IF failure = {} THEN QueryCommitted ELSE 0)]
          /\ trouble' = [trouble EXCEPT ![o] = failure]
    /\ UNCHANGED <<committed, approved>>

Install(o) == BeginApproving(o, Default, "approve")

UpdateSigPolicy(o) == BeginApproving(o, Custom, "approve only")

Approve(o) ==
    /\ pc[o] \in {"approve", "approve only"}
    /\ \/ /\ approved' = IF MayApprove(policy[o], sequence[o])
                         THEN [approved EXCEPT ![o][sequence[o]] = policy[o]] ELSE approved
          /\ UNCHANGED trouble
       \/ UNCHANGED approved /\ trouble' = [trouble EXCEPT ![o] = @ \union {"failure"}]
    /\ Goto(o, IF pc[o] = "approve" THEN "query" ELSE "idle")
    /\ UNCHANGED <<committed, policy, sequence>>

\* Line 11 of cc_commit.sh; line 12 of cc_commit_custom_policy.sh begins that one.
ReadApproved(o, before) ==
    \E failure \in SUBSET {"failure"} :
        /\ sequence' = [sequence EXCEPT ![o] = IF failure = {} THEN QueryApproved(o) ELSE 0]
        /\ trouble' = [trouble EXCEPT ![o] = before \union failure]

\* Mutant: it waits until every organisation has approved.
ReadForCommitWaiting(o) ==
    /\ pc[o] = "query"
    /\ \A q \in Org : approved[q][committed.sequence + 1] = policy[o]
    /\ ReadApproved(o, trouble[o])
    /\ Goto(o, "commit")
    /\ UNCHANGED <<committed, approved, policy>>

ReadForCommit(o) ==
    /\ pc[o] = "query"
    /\ ReadApproved(o, trouble[o])
    /\ Goto(o, "commit")
    /\ UNCHANGED <<committed, approved, policy>>

CommitCustomPolicy(o) ==
    /\ pc[o] = "idle" /\ committed.sequence < MaxSequence
    /\ Begin(o, Custom, "commit")
    /\ ReadApproved(o, {})
    /\ UNCHANGED <<committed, approved>>

Commit(o) ==
    /\ pc[o] = "commit"
    /\ \/ /\ MayCommit(o, policy[o], sequence[o])
          /\ committed' = [sequence |-> sequence[o], policy |-> policy[o]]
          /\ trouble' = [q \in Org |-> IF q = o \/ pc[q] = "idle" THEN trouble[q]
                                       ELSE trouble[q] \union {"commit"}]
       \/ ~MayCommit(o, policy[o], sequence[o]) /\ UNCHANGED <<committed, trouble>>
       \/ UNCHANGED committed /\ trouble' = [trouble EXCEPT ![o] = @ \union {"failure"}]
    /\ Goto(o, "idle")
    /\ UNCHANGED <<approved, policy, sequence>>

-----------------------------------------------------------------------------

Init ==
    /\ committed = [sequence |-> 0, policy |-> NoPolicy]
    /\ approved = [o \in Org |-> [s \in 0 .. MaxSequence + 1 |-> NoPolicy]]
    /\ pc = [o \in Org |-> "idle"]
    /\ policy = [o \in Org |-> Default]
    /\ sequence = [o \in Org |-> 0]
    /\ trouble = [o \in Org |-> {}]

Step(o) == Approve(o) \/ ReadForCommit(o) \/ Commit(o)

Next == \E o \in Org : Install(o) \/ UpdateSigPolicy(o) \/ CommitCustomPolicy(o) \/ Step(o)

\* A script that runs goes on; nobody has to start one.
Spec == Init /\ [][Next]_vars /\ \A o \in Org : WF_vars(Step(o))

-----------------------------------------------------------------------------
(* Properties                                                              *)

\* Nothing is approved beyond the definition that comes next.
TypeOK ==
    /\ committed \in [sequence : 0 .. MaxSequence, policy : Policy \union {NoPolicy}]
    /\ committed.policy = NoPolicy <=> committed.sequence = 0
    /\ approved \in [Org -> [0 .. MaxSequence + 1 -> Policy \union {NoPolicy}]]
    /\ \A o \in Org, s \in 0 .. MaxSequence + 1 :
          approved[o][s] # NoPolicy => s \in 1 .. committed.sequence + 1
    /\ pc \in [Org -> {"idle", "approve", "approve only", "query", "commit"}]
    /\ policy \in [Org -> Policy]
    /\ sequence \in [Org -> 0 .. MaxSequence + 1]
    /\ trouble \in [Org -> SUBSET {"failure", "commit"}]

\* An install or an update-sig-policy.sh that nothing disturbed leaves the
\* organisation's approval, under the policy of the script, where a commit will
\* look for it: at the definition that comes next when the approval is made, and
\* not at the one that came next when the script asked for the sequence.
ApprovalCounts ==
    [][\A o \in Org :
          (/\ pc[o] \in {"approve", "approve only"} /\ pc'[o] # pc[o] /\ trouble'[o] = {}) =>
              approved'[o][committed'.sequence + 1] = policy[o]]_vars

\* install-chaincode.sh that nothing disturbed leaves a chaincode its own peer
\* runs, whatever earlier and unfinished scripts left approved or committed.
InstalledIsUsable ==
    [][\A o \in Org :
          (pc[o] = "commit" /\ pc'[o] = "idle" /\ policy[o] = Default /\ trouble'[o] = {}) =>
              CanEndorse(o)' /\ committed'.policy = Default]_vars

\* The procedure of use-cases/update-channel-policy: where every organisation has
\* approved the new policy for the next sequence, the commit of any one of
\* them puts it in force, and each can give the endorsement it asks for.
NewPolicyIsUsable ==
    [][\A o \in Org :
          (/\ pc[o] = "commit" /\ pc'[o] = "idle" /\ policy[o] = Custom /\ trouble'[o] = {}
           /\ \A q \in Org : approved[q][committed.sequence + 1] = Custom) =>
              committed'.policy = Custom /\ Usable']_vars

\* Every script ends.
ScriptsEnd == \A o \in Org : pc[o] # "idle" ~> pc[o] = "idle"
=============================================================================
