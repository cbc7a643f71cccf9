-------------------------- MODULE CcLifecycleProof --------------------------
(***************************************************************************)
(* Proofs about CcLifecycle, for any number of organisations, any two      *)
(* policies and any bound on the definitions: what an undisturbed script   *)
(* promises holds.                                                         *)
(***************************************************************************)
EXTENDS CcLifecycle, TLAPS

(***************************************************************************)
(* A script works with a sequence it read before.  The invariant says what *)
(* remains true of it as long as nothing disturbed the script: nobody else *)
(* approves for its organisation, and a commit of another one counts as a  *)
(* disturbance.                                                            *)
(***************************************************************************)

\* Scripts are started below the bound, so that none passes it.
Bounded ==
    /\ sequence \in [Org -> 0 .. MaxSequence]
    /\ \A o \in Org : approved[o][MaxSequence + 1] = NoPolicy

Undisturbed(o) == trouble[o] = {}
Upcoming == committed.sequence + 1

WhileApproving ==
    \A o \in Org : pc[o] \in {"approve", "approve only"} /\ Undisturbed(o) =>
        sequence[o] = Upcoming

WhileQuerying ==
    \A o \in Org : pc[o] = "query" /\ Undisturbed(o) =>
        policy[o] = approved[o][Upcoming]

WhileCommitting ==
    \A o \in Org : pc[o] = "commit" /\ Undisturbed(o) =>
        /\ approved[o][Upcoming] # NoPolicy => sequence[o] = Upcoming
        /\ policy[o] = Default => approved[o][Upcoming] = Default

IInv ==
    /\ TypeOK
    /\ Bounded
    /\ WhileApproving
    /\ WhileQuerying
    /\ WhileCommitting

-----------------------------------------------------------------------------

\* The ranges of the variables, one by one.
LEMMA Ranges ==
    ASSUME IInv
    PROVE  /\ TypeOK /\ Bounded
           /\ MaxSequence \in Nat /\ Default # Custom /\ NoPolicy \notin Policy
           /\ committed.sequence \in 0 .. MaxSequence
           /\ Upcoming > 0 /\ Upcoming \in 0 .. MaxSequence + 1 /\ Upcoming # committed.sequence
           /\ 0 .. MaxSequence \subseteq 0 .. MaxSequence + 1
           /\ MaxSequence + 1 \in 0 .. MaxSequence + 1 /\ MaxSequence + 1 \notin 0 .. MaxSequence
           /\ committed.sequence < MaxSequence => {0 + 1, Upcoming} \subseteq 0 .. MaxSequence
           /\ \A s \in 0 .. MaxSequence : s \in {Upcoming, committed.sequence} /\ s > 0 =>
                 s \in 1 .. Upcoming
           /\ \A o \in Org : /\ policy[o] \in Policy
                             /\ sequence[o] \in 0 .. MaxSequence
           /\ pc \in [Org -> {"idle", "approve", "approve only", "query", "commit"}]
           /\ trouble \in [Org -> SUBSET {"failure", "commit"}]
<1>1. TypeOK /\ Bounded
  BY DEF IInv
<1>2. MaxSequence \in Nat /\ Default # Custom /\ NoPolicy \notin Policy
  BY ConstantAssumption DEF Policy
<1>3. committed.sequence \in 0 .. MaxSequence
  BY <1>1 DEF TypeOK
<1>4. /\ Upcoming > 0 /\ Upcoming \in 0 .. MaxSequence + 1 /\ Upcoming # committed.sequence
      /\ 0 .. MaxSequence \subseteq 0 .. MaxSequence + 1
      /\ MaxSequence + 1 \in 0 .. MaxSequence + 1 /\ MaxSequence + 1 \notin 0 .. MaxSequence
      /\ committed.sequence < MaxSequence => {0 + 1, Upcoming} \subseteq 0 .. MaxSequence
      /\ \A s \in 0 .. MaxSequence : s \in {Upcoming, committed.sequence} /\ s > 0 =>
            s \in 1 .. Upcoming
  BY <1>2, <1>3 DEF Upcoming
<1>5. \A o \in Org : policy[o] \in Policy /\ sequence[o] \in 0 .. MaxSequence
  BY <1>1 DEF TypeOK, Bounded
<1>6. /\ pc \in [Org -> {"idle", "approve", "approve only", "query", "commit"}]
      /\ trouble \in [Org -> SUBSET {"failure", "commit"}]
  BY <1>1 DEF TypeOK
<1> QED
  BY <1>1, <1>2, <1>3, <1>4, <1>5, <1>6

\* What queryapproved answers is 0 or a sequence the organisation approved.
LEMMA AnswerIsApproved ==
    ASSUME TypeOK, Bounded, NEW o \in Org
    PROVE  /\ QueryApproved(o) \in 0 .. MaxSequence
           /\ approved[o][Upcoming] # NoPolicy => QueryApproved(o) = Upcoming
<1>1. MaxSequence \in Nat
  BY ConstantAssumption
<1>2. committed.sequence \in 0 .. MaxSequence
  BY DEF TypeOK
<1>3. approved[o][Upcoming] # NoPolicy => Upcoming \in 0 .. MaxSequence
  BY <1>1, <1>2 DEF Bounded, Upcoming
<1> QED
  BY <1>1, <1>2, <1>3 DEF QueryApproved, Upcoming

\* Nothing is approved or committed yet.
LEMMA InitInv == Init => IInv
<1> SUFFICES ASSUME Init PROVE IInv
  OBVIOUS
<1>1. TypeOK
  BY ConstantAssumption DEF Init, TypeOK, Policy
<1>2. Bounded
  BY ConstantAssumption DEF Init, Bounded
<1> QED
  BY <1>1, <1>2 DEF Init, IInv, WhileApproving, WhileQuerying, WhileCommitting

\* A script that begins to approve.
LEMMA BeginStep ==
    ASSUME IInv, NEW o \in Org, NEW p \in Policy, NEW label \in {"approve", "approve only"},
           BeginApproving(o, p, label)
    PROVE  IInv'
<1>1. /\ committed.sequence < MaxSequence
      /\ pc' = [pc EXCEPT ![o] = label]
      /\ policy' = [policy EXCEPT ![o] = p]
      /\ UNCHANGED <<committed, approved>>
  BY DEF BeginApproving, Begin, Goto
<1>2. PICK failure \in SUBSET {"failure"} :
         /\ sequence' = [sequence EXCEPT ![o] = (IF failure = {} THEN committed.sequence ELSE 0) + 1]
         /\ trouble' = [trouble EXCEPT ![o] = failure]
  BY DEF BeginApproving, NextSequence, QueryCommitted
<1> DEFINE next == IF failure = {} THEN Upcoming ELSE 0 + 1
<1>3. sequence' = [sequence EXCEPT ![o] = next]
  <2>1. (IF failure = {} THEN committed.sequence ELSE 0) + 1 = next
    BY Zenon DEF Upcoming
  <2> QED
    BY <1>2, <2>1, Zenon
<1>4. next \in 0 .. MaxSequence /\ next \in 0 .. MaxSequence + 1
  BY <1>1, Ranges
<1>5. failure = {} => next = Upcoming
  OBVIOUS
<1> HIDE DEF next
<1>6. Bounded'
  BY <1>1, <1>4, <1>3, Ranges DEF Bounded
<1>7. trouble' \in [Org -> SUBSET {"failure", "commit"}]
  BY <1>2, Ranges
<1>8. TypeOK'
  BY <1>1, <1>3, <1>4, <1>7, Ranges DEF TypeOK
<1>10. pc'[o] = label /\ trouble'[o] = failure /\ sequence'[o] = next
  BY <1>1, <1>2, <1>3, Ranges DEF TypeOK
<1>11. \A q \in Org \ {o} : /\ pc'[q] = pc[q] /\ trouble'[q] = trouble[q]
                            /\ sequence'[q] = sequence[q] /\ policy'[q] = policy[q]
  BY <1>1, <1>2, <1>3, Ranges DEF TypeOK
<1>12. WhileApproving'
  BY <1>1, <1>5, <1>10, <1>11 DEF IInv, WhileApproving, Undisturbed, Upcoming
<1>13. label \notin {"query", "commit"}
  OBVIOUS
<1>14. WhileQuerying'
  BY ZenonT(60), <1>1, <1>10, <1>11, <1>13 DEF IInv, WhileQuerying, Undisturbed, Upcoming
<1>15. WhileCommitting'
  <2> SUFFICES ASSUME NEW q \in Org, pc'[q] = "commit", trouble'[q] = {}
               PROVE  /\ approved[q][Upcoming] # NoPolicy => sequence'[q] = Upcoming
                      /\ policy'[q] = Default => approved[q][Upcoming] = Default
    BY <1>1 DEF WhileCommitting, Undisturbed, Upcoming
  <2>1. q # o
    BY <1>10, <1>13
  <2> QED
    BY <1>11, <2>1 DEF IInv, WhileCommitting, Undisturbed
<1> QED
  BY <1>6, <1>8, <1>12, <1>14, <1>15 DEF IInv

\* An approval, of an install or of a new policy.
LEMMA ApproveStep ==
    ASSUME IInv, NEW o \in Org, Approve(o)
    PROVE  IInv'
<1>0. TypeOK /\ Bounded /\ MaxSequence \in Nat
  BY ConstantAssumption DEF IInv
<1> /\ pc[o] \in {"approve", "approve only"}
    /\ pc' = [pc EXCEPT ![o] = IF pc[o] = "approve" THEN "query" ELSE "idle"]
    /\ UNCHANGED <<committed, policy, sequence>>
  BY DEF Approve, Goto
<1>1. CASE UNCHANGED approved /\ trouble' = [trouble EXCEPT ![o] = @ \union {"failure"}]
  <2>1. TypeOK' /\ Bounded'
    BY <1>0, <1>1 DEF IInv, TypeOK, Bounded
  <2>2. WhileApproving' /\ WhileQuerying' /\ WhileCommitting'
    BY <1>0, <1>1 DEF IInv, WhileApproving, WhileQuerying, WhileCommitting,
                      Undisturbed, Upcoming, TypeOK
  <2> QED
    BY <2>1, <2>2 DEF IInv
<1>2. CASE ~MayApprove(policy[o], sequence[o]) /\ UNCHANGED <<approved, trouble>>
  <2>1. TypeOK' /\ Bounded'
    BY <1>0, <1>2 DEF IInv, TypeOK, Bounded
  <2>2. ~Undisturbed(o)
    BY <1>0, <1>2 DEF IInv, WhileApproving, Upcoming, MayApprove, TypeOK
  <2>3. WhileApproving' /\ WhileQuerying' /\ WhileCommitting'
    BY <1>0, <1>2, <2>2 DEF IInv, WhileApproving, WhileQuerying, WhileCommitting,
                            Undisturbed, Upcoming, TypeOK
  <2> QED
    BY <2>1, <2>3 DEF IInv
<1>3. CASE /\ MayApprove(policy[o], sequence[o])
           /\ approved' = [approved EXCEPT ![o][sequence[o]] = policy[o]]
           /\ UNCHANGED trouble
  <2>1. /\ sequence[o] \in 1 .. committed.sequence + 1
        /\ sequence[o] \in 0 .. MaxSequence
        /\ policy[o] \in Policy
        /\ committed.sequence \in 0 .. MaxSequence
    <3>1. sequence[o] > 0 /\ sequence[o] \in {Upcoming, committed.sequence}
      BY <1>3, Ranges DEF MayApprove, Upcoming
    <3> QED
      BY <3>1, Ranges DEF Upcoming
  <2>2. /\ approved' \in [Org -> [0 .. MaxSequence + 1 -> Policy \union {NoPolicy}]]
        /\ \A q \in Org, s \in 0 .. MaxSequence + 1 :
              approved'[q][s] = IF q = o /\ s = sequence[o] THEN policy[o] ELSE approved[q][s]
    BY <1>0, <1>3, <2>1 DEF TypeOK
  <2>3. Bounded'
    <3>1. MaxSequence + 1 \in 0 .. MaxSequence + 1 /\ sequence[o] # MaxSequence + 1
      BY Ranges
    <3> QED
      BY <1>0, <2>2, <3>1 DEF Bounded
  <2>4. TypeOK'
    BY ZenonT(60), <1>0, <1>3, <2>1, <2>2 DEF TypeOK
  <2>6. WhileApproving'
    BY <1>0, <1>3 DEF IInv, WhileApproving, Undisturbed, Upcoming, TypeOK
  <2>7. Upcoming \in 0 .. MaxSequence + 1
    BY Ranges
  <2>8. WhileQuerying'
    <3>1. SUFFICES ASSUME NEW q \in Org, pc'[q] = "query", trouble[q] = {}
                   PROVE  policy[q] = approved'[q][Upcoming]
      BY <1>3 DEF WhileQuerying, Undisturbed, Upcoming
    <3>2. CASE q = o
      <4>1. pc[o] = "approve"
        BY <1>0, <3>1, <3>2 DEF TypeOK
      <4>2. sequence[o] = Upcoming
        BY <3>1, <3>2, <4>1 DEF IInv, WhileApproving, Undisturbed
      <4> QED
        BY <2>2, <2>7, <3>2, <4>2
    <3>3. CASE q # o
      <4>1. pc[q] = "query"
        BY <1>0, <3>1, <3>3 DEF TypeOK
      <4> QED
        BY <2>2, <2>7, <3>1, <3>3, <4>1 DEF IInv, WhileQuerying, Undisturbed
    <3> QED
      BY <3>2, <3>3
  <2>9. WhileCommitting'
    BY <1>0, <1>3, <2>2, <2>7 DEF IInv, WhileCommitting, Undisturbed, Upcoming, TypeOK
  <2> QED
    BY <2>3, <2>4, <2>6, <2>8, <2>9 DEF IInv
<1> QED
  BY <1>1, <1>2, <1>3 DEF Approve

\* A script that reads what it is going to commit.
LEMMA ReadStep ==
    ASSUME IInv, NEW o \in Org, ReadForCommit(o) \/ CommitCustomPolicy(o)
    PROVE  IInv'
<1> USE DEF Goto, Begin
<1>0. TypeOK /\ Bounded /\ MaxSequence \in Nat /\ Default # Custom
  BY ConstantAssumption DEF IInv
<1>1. PICK before \in SUBSET {"failure", "commit"} :
         /\ ReadApproved(o, before)
         /\ \/ pc[o] = "query" /\ before = trouble[o] /\ UNCHANGED policy
            \/ policy' = [policy EXCEPT ![o] = Custom]
         /\ pc' = [pc EXCEPT ![o] = "commit"]
         /\ UNCHANGED <<committed, approved>>
  <2>1. CASE ReadForCommit(o)
    BY <1>0, <2>1 DEF ReadForCommit, TypeOK
  <2>2. CASE CommitCustomPolicy(o)
    BY <2>2 DEF CommitCustomPolicy
  <2> QED
    BY <2>1, <2>2
<1>2. PICK failure \in SUBSET {"failure"} :
         /\ sequence' = [sequence EXCEPT ![o] = IF failure = {} THEN QueryApproved(o) ELSE 0]
         /\ trouble' = [trouble EXCEPT ![o] = before \union failure]
  BY <1>1 DEF ReadApproved
<1>3. /\ QueryApproved(o) \in 0 .. MaxSequence
      /\ approved[o][Upcoming] # NoPolicy => QueryApproved(o) = Upcoming
  BY <1>0, AnswerIsApproved
<1>4. Bounded'
  BY <1>0, <1>1, <1>2, <1>3 DEF Bounded
<1>5. TypeOK'
  <2>1. sequence' \in [Org -> 0 .. MaxSequence + 1]
    <3>1. 0 .. MaxSequence \subseteq 0 .. MaxSequence + 1
      BY <1>0
    <3> QED
      BY <1>4, <3>1 DEF Bounded
  <2>2. before \union failure \in SUBSET {"failure", "commit"}
    OBVIOUS
  <2>3. trouble' \in [Org -> SUBSET {"failure", "commit"}]
    BY <1>2, <2>2, Ranges
  <2>4. policy' \in [Org -> Policy]
    BY <1>0, <1>1 DEF TypeOK, Policy
  <2>5. pc' \in [Org -> {"idle", "approve", "approve only", "query", "commit"}]
    BY <1>1, Ranges
  <2> QED
    BY <1>0, <1>1, <2>1, <2>3, <2>4, <2>5 DEF TypeOK
<1>7. WhileApproving' /\ WhileQuerying'
  BY ZenonT(60), <1>0, <1>1, <1>2 DEF IInv, WhileApproving, WhileQuerying, Undisturbed, Upcoming, TypeOK
<1>8. WhileCommitting'
  <2>1. SUFFICES ASSUME NEW q \in Org, pc'[q] = "commit", trouble'[q] = {}
                 PROVE  /\ approved[q][Upcoming] # NoPolicy => sequence'[q] = Upcoming
                        /\ policy'[q] = Default => approved[q][Upcoming] = Default
    BY <1>1 DEF WhileCommitting, Undisturbed, Upcoming
  <2>2. CASE q = o
    <3>1. failure = {} /\ before = {}
      BY <1>2, <2>1, <2>2, Ranges
    <3>2. sequence'[o] = QueryApproved(o)
      BY <1>0, <1>2, <3>1 DEF TypeOK
    <3>3. policy'[o] = Default => approved[o][Upcoming] = Default
      BY <1>0, <1>1, <3>1 DEF IInv, WhileQuerying, Undisturbed, TypeOK
    <3> QED
      BY <1>3, <2>2, <3>2, <3>3
  <2>3. CASE q # o
    <3>1. /\ pc[q] = "commit" /\ trouble[q] = {}
          /\ sequence'[q] = sequence[q] /\ policy'[q] = policy[q]
      BY <1>0, <1>1, <1>2, <2>1, <2>3 DEF TypeOK
    <3> QED
      BY <2>1, <3>1 DEF IInv, WhileCommitting, Undisturbed
  <2> QED
    BY <2>2, <2>3
<1> QED
  BY <1>4, <1>5, <1>7, <1>8 DEF IInv

\* A commit, which fails or puts the next definition in force.
LEMMA CommitStep ==
    ASSUME IInv, NEW o \in Org, Commit(o)
    PROVE  IInv'
<1>1. /\ pc' = [pc EXCEPT ![o] = "idle"]
      /\ UNCHANGED <<approved, policy, sequence>>
  BY DEF Commit, Goto
<1>2. CASE /\ UNCHANGED committed
           /\ \/ UNCHANGED trouble
              \/ trouble' = [trouble EXCEPT ![o] = @ \union {"failure"}]
  <2>1. \A q \in Org : pc'[q] # "idle" => pc'[q] = pc[q] /\ trouble'[q] = trouble[q]
    BY <1>1, <1>2, Ranges
  <2>2. trouble' \in [Org -> SUBSET {"failure", "commit"}]
    <3>1. trouble[o] \union {"failure"} \in SUBSET {"failure", "commit"}
      BY Ranges
    <3> QED
      BY <1>2, <3>1, Ranges
  <2>3. pc' \in [Org -> {"idle", "approve", "approve only", "query", "commit"}]
    BY <1>1, Ranges
  <2>4. TypeOK'
    BY <1>1, <1>2, <2>2, <2>3, Ranges DEF TypeOK
  <2>5. Bounded'
    BY <1>1, <1>2 DEF IInv, Bounded
  <2>6. WhileApproving' /\ WhileQuerying' /\ WhileCommitting'
    BY <1>1, <1>2, <2>1 DEF IInv, WhileApproving, WhileQuerying, WhileCommitting,
                            Undisturbed, Upcoming
  <2> QED
    BY <2>4, <2>5, <2>6 DEF IInv
<1>3. CASE /\ MayCommit(o, policy[o], sequence[o])
           /\ committed' = [sequence |-> sequence[o], policy |-> policy[o]]
           /\ trouble' = [q \in Org |-> IF q = o \/ pc[q] = "idle" THEN trouble[q]
                                        ELSE trouble[q] \union {"commit"}]
  <2>1. /\ sequence[o] = committed.sequence + 1
        /\ approved[o][sequence[o]] = policy[o]
        /\ sequence[o] \in 1 .. MaxSequence
        /\ policy[o] \in Policy /\ policy[o] # NoPolicy
    <3>1. /\ MaxSequence \in Nat /\ committed.sequence \in 0 .. MaxSequence
          /\ sequence[o] \in 0 .. MaxSequence /\ policy[o] \in Policy /\ NoPolicy \notin Policy
      BY Ranges
    <3>2. sequence[o] = committed.sequence + 1 /\ approved[o][sequence[o]] = policy[o]
      BY <1>3 DEF MayCommit
    <3>3. sequence[o] \in 1 .. MaxSequence
      BY <3>1, <3>2
    <3> QED
      BY <3>1, <3>2, <3>3
  <2>2. \A q \in Org : pc'[q] # "idle" => trouble'[q] # {}
    BY <1>1, <1>3, Ranges
  <2>3. trouble' \in [Org -> SUBSET {"failure", "commit"}]
    <3>1. \A q \in Org : trouble[q] \union {"commit"} \in SUBSET {"failure", "commit"}
      BY Ranges
    <3> QED
      BY <1>3, <3>1, Ranges
  <2>4. pc' \in [Org -> {"idle", "approve", "approve only", "query", "commit"}]
    BY <1>1, Ranges
  <2>5. /\ committed' \in [sequence : 0 .. MaxSequence, policy : Policy \union {NoPolicy}]
        /\ committed'.sequence = sequence[o] /\ committed'.policy = policy[o]
    BY <1>3, <2>1, Ranges
  <2>6. \A q \in Org, s \in 0 .. MaxSequence + 1 :
           approved'[q][s] # NoPolicy => s \in 1 .. committed'.sequence + 1
    <3> SUFFICES ASSUME NEW q \in Org, NEW s \in 0 .. MaxSequence + 1, approved[q][s] # NoPolicy
                 PROVE  s \in 1 .. sequence[o] + 1
      BY <1>1, <2>5
    <3>1. s \in 1 .. committed.sequence + 1
      BY Ranges DEF TypeOK
    <3>2. MaxSequence \in Nat /\ committed.sequence \in 0 .. MaxSequence
      BY Ranges
    <3> QED
      BY <2>1, <3>1, <3>2
  <2>7. committed'.policy = NoPolicy <=> committed'.sequence = 0
    <3>1. MaxSequence \in Nat
      BY Ranges
    <3> QED
      BY <2>1, <2>5, <3>1
  <2>8. TypeOK
    BY Ranges
  <2>9. TypeOK'
    BY <1>1, <2>3, <2>4, <2>5, <2>6, <2>7, <2>8 DEF TypeOK
  <2>10. Bounded'
    BY <1>1, Ranges DEF Bounded
  <2>12. WhileApproving' /\ WhileQuerying' /\ WhileCommitting'
    BY <2>2 DEF WhileApproving, WhileQuerying, WhileCommitting, Undisturbed
  <2> QED
    BY <2>9, <2>10, <2>12 DEF IInv
<1> QED
  BY <1>2, <1>3 DEF Commit

\* Every step preserves the invariant.
LEMMA StepInv == IInv /\ [Next]_vars => IInv'
<1> SUFFICES ASSUME IInv, [Next]_vars PROVE IInv'
  OBVIOUS
<1>1. ASSUME NEW o \in Org, Install(o) \/ UpdateSigPolicy(o) PROVE IInv'
  BY <1>1, BeginStep DEF Install, UpdateSigPolicy, Policy
<1>2. ASSUME NEW o \in Org, CommitCustomPolicy(o) \/ ReadForCommit(o) PROVE IInv'
  BY <1>2, ReadStep
<1>3. ASSUME NEW o \in Org, Approve(o) PROVE IInv'
  BY <1>3, ApproveStep
<1>4. ASSUME NEW o \in Org, Commit(o) PROVE IInv'
  BY <1>4, CommitStep
<1>5. CASE UNCHANGED vars
  BY <1>5 DEF vars, IInv, TypeOK, Bounded, WhileApproving,
              WhileQuerying, WhileCommitting, Undisturbed, Upcoming
<1> QED
  BY <1>1, <1>2, <1>3, <1>4, <1>5 DEF Next, Step

-----------------------------------------------------------------------------

\* The invariant holds of every behaviour of the scripts.
THEOREM Inductive == Spec => []IInv
BY InitInv, StepInv, PTL DEF Spec

\* The variables keep their types, and nobody approves beyond the definition that
\* comes next.
THEOREM TypeCorrect == Spec => []TypeOK
<1>1. IInv => TypeOK
  BY DEF IInv
<1> QED
  BY <1>1, Inductive, PTL

\* A step out of "approve" is the approval of the script.
LEMMA ApprovalStep ==
    ASSUME IInv, [Next]_vars, NEW o \in Org, pc[o] \in {"approve", "approve only"},
           pc'[o] # pc[o]
    PROVE  Approve(o)
<1>0. TypeOK
  BY DEF IInv
<1>1. PICK q \in Org : Install(q) \/ UpdateSigPolicy(q) \/ CommitCustomPolicy(q) \/ Step(q)
  BY DEF Next, vars
<1>2. \E label : pc' = [pc EXCEPT ![q] = label]
  BY <1>1 DEF Install, UpdateSigPolicy, CommitCustomPolicy, BeginApproving, Begin, Goto,
              Step, Approve, ReadForCommit, Commit
<1>3. q = o
  BY <1>0, <1>2 DEF TypeOK
<1> QED
  BY <1>1, <1>3 DEF Install, UpdateSigPolicy, CommitCustomPolicy, BeginApproving, Step,
                    ReadForCommit, Commit

\* The sequence an undisturbed script approves is still the one that comes next.
THEOREM ApprovalPromise == Spec => ApprovalCounts
<1> DEFINE Counts == \A o \in Org :
       (/\ pc[o] \in {"approve", "approve only"} /\ pc'[o] # pc[o] /\ trouble'[o] = {}) =>
           approved'[o][committed'.sequence + 1] = policy[o]
<1>1. IInv /\ [Next]_vars => [Counts]_vars
  <2> SUFFICES ASSUME IInv, [Next]_vars, NEW o \in Org, pc[o] \in {"approve", "approve only"},
                      pc'[o] # pc[o], trouble'[o] = {}
               PROVE  approved'[o][committed'.sequence + 1] = policy[o]
    OBVIOUS
  <2>1. Approve(o)
    BY ApprovalStep
  <2>2. committed' = committed
    BY <2>1 DEF Approve
  <2>3. trouble' # [trouble EXCEPT ![o] = @ \union {"failure"}]
    <3>1. SUFFICES ASSUME trouble' = [trouble EXCEPT ![o] = @ \union {"failure"}] PROVE FALSE
      OBVIOUS
    <3>2. trouble'[o] = trouble[o] \union {"failure"}
      BY <3>1, Ranges
    <3> QED
      BY <3>2
  <2>4. /\ trouble' = trouble
        /\ approved' = IF MayApprove(policy[o], sequence[o])
                       THEN [approved EXCEPT ![o][sequence[o]] = policy[o]] ELSE approved
    BY <2>1, <2>3 DEF Approve
  <2>5. sequence[o] = Upcoming
    BY <2>4 DEF IInv, WhileApproving, Undisturbed
  <2>6. MayApprove(policy[o], sequence[o])
    BY <2>5 DEF MayApprove, Upcoming
  <2>7. Upcoming \in 0 .. MaxSequence + 1
    BY Ranges
  <2>8. approved \in [Org -> [0 .. MaxSequence + 1 -> Policy \union {NoPolicy}]]
    BY DEF IInv, TypeOK
  <2>9. approved'[o][Upcoming] = policy[o]
    BY <2>4, <2>5, <2>6, <2>7, <2>8
  <2> QED
    BY <2>2, <2>9 DEF Upcoming
<1> QED
  BY <1>1, Inductive, PTL DEF Spec, ApprovalCounts

\* Where a script ends with its commit and nothing disturbed it, the commit
\* succeeded if its organisation approved the next definition under the policy
\* it commits.
LEMMA UndisturbedCommit ==
    ASSUME IInv, [Next]_vars, NEW o \in Org, pc[o] = "commit", pc'[o] = "idle", trouble'[o] = {}
    PROVE  /\ Undisturbed(o)
           /\ approved[o][Upcoming] = policy[o] =>
                 /\ committed' = [sequence |-> Upcoming, policy |-> policy[o]]
                 /\ approved' = approved
<1>0. TypeOK /\ policy[o] # NoPolicy
  BY ConstantAssumption DEF IInv, TypeOK, Policy
<1>1. Commit(o)
  <2>1. PICK q \in Org : Install(q) \/ UpdateSigPolicy(q) \/ CommitCustomPolicy(q) \/ Step(q)
    BY DEF Next, vars
  <2>2. \E label : pc' = [pc EXCEPT ![q] = label]
    BY <2>1 DEF Install, UpdateSigPolicy, CommitCustomPolicy, BeginApproving, Begin, Goto,
                Step, Approve, ReadForCommit, Commit
  <2>3. q = o
    BY <1>0, <2>2 DEF TypeOK
  <2> QED
    BY <2>1, <2>3 DEF Install, UpdateSigPolicy, CommitCustomPolicy, BeginApproving, Step,
                      Approve, ReadForCommit
<1>2. trouble[o] = {} /\ trouble' # [trouble EXCEPT ![o] = @ \union {"failure"}]
  <2>1. CASE trouble' = [trouble EXCEPT ![o] = @ \union {"failure"}]
    <3>1. trouble'[o] = trouble[o] \union {"failure"}
      BY <2>1, Ranges
    <3> QED
      BY <3>1
  <2>2. CASE trouble'[o] = trouble[o]
    <3>1. "failure" \notin trouble'[o]
      OBVIOUS
    <3>2. trouble' = [trouble EXCEPT ![o] = @ \union {"failure"}] => "failure" \in trouble'[o]
      BY Ranges
    <3> QED
      BY <2>2, <3>1, <3>2
  <2> QED
    BY <1>1, <2>1, <2>2 DEF Commit
<1>3. ASSUME approved[o][Upcoming] = policy[o]
      PROVE  committed' = [sequence |-> Upcoming, policy |-> policy[o]] /\ approved' = approved
  <2>1. sequence[o] = Upcoming
    BY <1>0, <1>2, <1>3 DEF IInv, WhileCommitting, Undisturbed
  <2>2. MayCommit(o, policy[o], sequence[o])
    BY <1>3, <2>1 DEF MayCommit, Upcoming
  <2> QED
    BY <1>1, <1>2, <2>1, <2>2 DEF Commit
<1> QED
  BY <1>2, <1>3 DEF Undisturbed

\* An install that nothing disturbed leaves a chaincode its own peer runs.
THEOREM InstallPromise == Spec => InstalledIsUsable
<1> DEFINE Kept == \A o \in Org :
       (pc[o] = "commit" /\ pc'[o] = "idle" /\ policy[o] = Default /\ trouble'[o] = {}) =>
           CanEndorse(o)' /\ committed'.policy = Default
<1>1. IInv /\ [Next]_vars => [Kept]_vars
  <2> SUFFICES ASSUME IInv, Next, NEW o \in Org, pc[o] = "commit", pc'[o] = "idle",
                      policy[o] = Default, trouble'[o] = {}
               PROVE  CanEndorse(o)' /\ committed'.policy = Default
    OBVIOUS
  <2>1. approved[o][Upcoming] = policy[o]
    BY UndisturbedCommit DEF IInv, WhileCommitting
  <2>2. committed' = [sequence |-> Upcoming, policy |-> policy[o]] /\ approved' = approved
    BY <2>1, UndisturbedCommit
  <2>3. Upcoming > 0
    BY Ranges
  <2> QED
    BY <2>1, <2>2, <2>3 DEF CanEndorse
<1> QED
  BY <1>1, Inductive, PTL DEF Spec, InstalledIsUsable

\* Where all have approved the new policy, an undisturbed commit of any one of
\* them puts it in force, and all can endorse.
THEOREM PolicyPromise == Spec => NewPolicyIsUsable
<1> DEFINE Kept == \A o \in Org :
       (/\ pc[o] = "commit" /\ pc'[o] = "idle" /\ policy[o] = Custom /\ trouble'[o] = {}
        /\ \A q \in Org : approved[q][committed.sequence + 1] = Custom) =>
           committed'.policy = Custom /\ Usable'
<1>1. IInv /\ [Next]_vars => [Kept]_vars
  <2> SUFFICES ASSUME IInv, Next, NEW o \in Org, pc[o] = "commit", pc'[o] = "idle",
                      policy[o] = Custom, trouble'[o] = {},
                      \A q \in Org : approved[q][Upcoming] = Custom
               PROVE  committed'.policy = Custom /\ Usable'
    BY DEF Upcoming
  <2>1. committed' = [sequence |-> Upcoming, policy |-> policy[o]] /\ approved' = approved
    BY UndisturbedCommit
  <2>2. Upcoming > 0
    BY Ranges
  <2>3. \A q \in Org : CanEndorse(q)'
    BY <2>1, <2>2 DEF CanEndorse
  <2> QED
    BY <2>1, <2>3 DEF Usable
<1> QED
  BY <1>1, Inductive, PTL DEF Spec, NewPolicyIsUsable
=============================================================================
