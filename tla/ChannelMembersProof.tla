------------------------ MODULE ChannelMembersProof ------------------------
(***************************************************************************)
(* Proofs about ChannelMembers, for any finite set of peers and number of  *)
(* runs.                                                                   *)
(***************************************************************************)
EXTENDS ChannelMembers, FiniteSetTheorems, TLAPS

-----------------------------------------------------------------------------
(* The inductive invariant.                                                *)

Informers == {p \in Peer : Informing(p)}

\* Every change of the channel is the one submission of a run that has ended.
VersionBound == channel.version + Cardinality(Informers) <= adds

\* As long as any admin may not change the members, there is one; every update
\* ends that.
OneMemberFirst ==
    /\ channel.admins = "MAJORITY" => channel.members = [m \in {AdminOrg} |-> AdminOrg]
    /\ modified # Broken => modified.admins = "ANY"
    /\ update # Broken => update.admins = "ANY"

\* config.json holds what the channel was, and under the number in force what it is.
ConfigIsPast ==
    config # Broken =>
        /\ config.version <= channel.version
        /\ config.version = channel.version => config = channel

\* Runs that are in progress together both know it, and so does a peer that waits
\* to join while others are.
OverlapIsNoticed ==
    \A p \in Peer : "overlap" \notin trouble[p] =>
        /\ Informing(p) => \A q \in Peer \ {p} : ~Informing(q)
        /\ pc[p] = "join" => \A q \in Peer : Informing(q) => "overlap" \notin trouble[q]

\* What a run that is alone has left in the files: the definition of its peer and
\* nobody else's, added to a configuration the channel had.
FilesOf(p) ==
    "overlap" \notin trouble[p] =>
        /\ pc[p] = "edit" =>
              request = Broken \/ (request = p /\ p \in share)
        /\ pc[p] = "compute" =>
              modified = Broken \/ (/\ config # Broken /\ p \in share
                                    /\ modified = WithMember(config, p, p))
        /\ pc[p] = "submit" =>
              update = Broken \/ (/\ config # Broken /\ p \in share
                                  /\ update = WithMember(config, p, p))

\* Nothing was lost on the way of a run that nothing disturbed, and after it the
\* peer is a member.
NothingLost(p) ==
    trouble[p] = {} =>
        /\ Informing(p) => config = channel
        /\ pc[p] = "edit" => request = p
        /\ pc[p] = "compute" => modified = WithMember(channel, p, p)
        /\ pc[p] = "submit" => update = WithMember(channel, p, p) \/ p \in DOMAIN channel.members
        /\ pc[p] = "join" => p \in DOMAIN channel.members

IInv ==
    /\ TypeOK
    /\ VersionBound
    /\ OneMemberFirst
    /\ ConfigIsPast
    /\ OverlapIsNoticed
    /\ \A p \in Peer : FilesOf(p) /\ NothingLost(p)

-----------------------------------------------------------------------------
(* Configurations.                                                         *)

\* The parts of a configuration.
LEMMA ConfigFacts ==
    ASSUME NEW c \in Config
    PROVE  /\ c.version \in 0 .. MaxAdds /\ c.version \in Nat
           /\ c.admins \in {"MAJORITY", "ANY"}
           /\ c.members \in [DOMAIN c.members -> Organisation]
           /\ DOMAIN c.members \subseteq Organisation
           /\ AdminOrg \in DOMAIN c.members /\ c.members[AdminOrg] = AdminOrg
           /\ c # Broken
<1>1. /\ c.version \in 0 .. MaxAdds
      /\ c.admins \in {"MAJORITY", "ANY"}
      /\ c.members \in UNION {[S -> Organisation] : S \in SUBSET Organisation}
      /\ AdminOrg \in DOMAIN c.members /\ c.members[AdminOrg] = AdminOrg
  BY DEF Config
<1>2. PICK S \in SUBSET Organisation : c.members \in [S -> Organisation]
  BY <1>1
<1>3. c.version \in Nat
  BY <1>1, ConstantAssumption
<1> QED
  BY <1>1, <1>2, <1>3, BrokenAssumption

\* A record of such parts is a configuration.
LEMMA ConfigIntro ==
    ASSUME NEW S \in SUBSET Organisation, NEW m \in [S -> Organisation],
           AdminOrg \in S, m[AdminOrg] = AdminOrg,
           NEW v \in 0 .. MaxAdds, NEW a \in {"MAJORITY", "ANY"}
    PROVE  [members |-> m, version |-> v, admins |-> a] \in Config
<1>1. m \in UNION {[T -> Organisation] : T \in SUBSET Organisation}
  OBVIOUS
<1> QED
  BY <1>1 DEF Config

\* A configuration with one more member.
LEMMA WithMemberFacts ==
    ASSUME NEW c \in Config, NEW p \in Peer, NEW d \in Peer
    PROVE  /\ WithMember(c, p, d) \in Config
           /\ WithMember(c, p, d).version = c.version
           /\ WithMember(c, p, d).admins = "ANY"
           /\ WithMember(c, p, d).members = Registered(c.members, p, d)
<1> DEFINE m == Registered(c.members, p, d)
<1>1. WithMember(c, p, d) = [members |-> m, version |-> c.version, admins |-> "ANY"]
  BY DEF WithMember
<1>2. p # AdminOrg /\ p \in Organisation /\ d \in Organisation
  BY ConstantAssumption DEF Organisation
<1>3. /\ m \in [DOMAIN c.members \union {p} -> Organisation]
      /\ DOMAIN c.members \union {p} \subseteq Organisation
      /\ AdminOrg \in DOMAIN c.members \union {p}
      /\ m[AdminOrg] = AdminOrg
  <2>1. /\ c.members \in [DOMAIN c.members -> Organisation]
        /\ DOMAIN c.members \subseteq Organisation
        /\ AdminOrg \in DOMAIN c.members /\ c.members[AdminOrg] = AdminOrg
    BY ConfigFacts
  <2> QED
    BY <1>2, <2>1 DEF Registered
<1>4. [members |-> m, version |-> c.version, admins |-> "ANY"] \in Config
  <2> HIDE DEF m
  <2> QED
    BY <1>3, ConfigFacts, ConfigIntro
<1> QED
  BY <1>1, <1>4

\* A configuration under another number.
LEMMA WithVersionFacts ==
    ASSUME NEW c \in Config, NEW v \in 0 .. MaxAdds
    PROVE  /\ [c EXCEPT !.version = v] \in Config
           /\ [c EXCEPT !.version = v].version = v
           /\ [c EXCEPT !.version = v].admins = c.admins
           /\ [c EXCEPT !.version = v].members = c.members
BY DEF Config

-----------------------------------------------------------------------------
(* The scripts that run, and those that wait.                              *)

\* What the steps need of the numbers.
LEMMA Numbers ==
    ASSUME IInv
    PROVE  /\ IsFiniteSet(Informers) /\ Cardinality(Informers) \in Nat
           /\ adds \in Nat /\ MaxAdds \in Nat /\ adds <= MaxAdds
           /\ channel.version \in Nat
           /\ channel.version + Cardinality(Informers) <= adds
<1>1. IsFiniteSet(Informers)
  BY ConstantAssumption, FS_Subset DEF Informers
<1>2. Cardinality(Informers) \in Nat
  BY <1>1, FS_CardinalityType
<1>3. adds \in 0 .. MaxAdds /\ MaxAdds \in Nat
  BY ConstantAssumption DEF IInv, TypeOK
<1>4. channel.version \in Nat
  BY ConfigFacts DEF IInv, TypeOK
<1> QED
  BY <1>1, <1>2, <1>3, <1>4 DEF IInv, VersionBound

\* A run that is alone sees its own files.
LEMMA SeenAlone ==
    ASSUME NEW p \in Peer, NEW file, \A q \in Peer \ {p} : ~Informing(q)
    PROVE  Seen(p, file) = {file}
BY DEF Seen

\* A script finds the file, or one that is half written.
LEMMA SeenFacts ==
    ASSUME NEW p \in Peer, NEW file, NEW seen \in Seen(p, file)
    PROVE  seen = file \/ seen = Broken
BY DEF Seen

\* One script moves on; its troubles stay or grow by a failure.
Moves(p, label) ==
    /\ pc' = [pc EXCEPT ![p] = label]
    /\ trouble' = trouble \/ trouble' = [trouble EXCEPT ![p] = @ \union {"failure"}]

\* What a script that moves on leaves of the other scripts.
LEMMA MovesFacts ==
    ASSUME IInv, NEW p \in Peer,
           NEW label \in {"idle", "get", "edit", "compute", "submit", "join"},
           Moves(p, label)
    PROVE  /\ pc' \in [Peer -> {"idle", "get", "edit", "compute", "submit", "join"}]
           /\ trouble' \in [Peer -> SUBSET {"overlap", "failure"}]
           /\ pc'[p] = label
           /\ \A q \in Peer \ {p} : pc'[q] = pc[q] /\ trouble'[q] = trouble[q]
           /\ \A q \in Peer : "overlap" \in trouble'[q] <=> "overlap" \in trouble[q]
           /\ trouble'[p] = {} => trouble[p] = {}
<1>1. /\ pc \in [Peer -> {"idle", "get", "edit", "compute", "submit", "join"}]
      /\ trouble \in [Peer -> SUBSET {"overlap", "failure"}]
  BY DEF IInv, TypeOK
<1>2. pc' = [pc EXCEPT ![p] = label]
  BY DEF Moves
<1>3. CASE trouble' = trouble
  BY <1>1, <1>2, <1>3
<1>4. CASE trouble' = [trouble EXCEPT ![p] = trouble[p] \union {"failure"}]
  <2>1. trouble[p] \union {"failure"} \in SUBSET {"overlap", "failure"}
    BY <1>1
  <2>2. trouble' \in [Peer -> SUBSET {"overlap", "failure"}]
    BY <1>1, <1>4, <2>1
  <2>3. trouble'[p] = trouble[p] \union {"failure"}
    BY <1>1, <1>4
  <2>4. \A q \in Peer \ {p} : trouble'[q] = trouble[q]
    BY <1>1, <1>4
  <2>5. /\ pc' \in [Peer -> {"idle", "get", "edit", "compute", "submit", "join"}]
        /\ pc'[p] = label
        /\ \A q \in Peer \ {p} : pc'[q] = pc[q]
    BY <1>1, <1>2
  <2>6. "overlap" # "failure"
    OBVIOUS
  <2> QED
    BY <2>2, <2>3, <2>4, <2>5, <2>6
<1> QED
  BY <1>3, <1>4 DEF Moves

\* A script goes to its next command.
LEMMA GoesOn ==
    ASSUME IInv, NEW p \in Peer, Informing(p),
           NEW label \in {"edit", "compute", "submit"}, Moves(p, label),
           UNCHANGED <<channel, adds>>
    PROVE  /\ VersionBound'
           /\ OverlapIsNoticed'
           /\ \A q \in Peer \ {p} : Informing(q)' => "overlap" \in trouble'[q]
<1>1. \A q \in Peer : Informing(q)' <=> Informing(q)
  BY MovesFacts DEF Informing
<1>2. VersionBound'
  <2>1. Informers' = Informers
    BY <1>1 DEF Informers
  <2> QED
    BY <2>1 DEF IInv, VersionBound
<1>3. \A q \in Peer \ {p} : Informing(q)' => "overlap" \in trouble'[q]
  BY <1>1, MovesFacts DEF IInv, OverlapIsNoticed
<1>4. OverlapIsNoticed'
  <2> SUFFICES ASSUME NEW q \in Peer, "overlap" \notin trouble'[q]
               PROVE  /\ Informing(q)' => \A r \in Peer \ {q} : ~Informing(r)'
                      /\ pc'[q] = "join" => \A r \in Peer : Informing(r)' => "overlap" \notin trouble'[r]
    BY DEF OverlapIsNoticed
  <2>1. "overlap" \notin trouble[q]
    BY MovesFacts
  <2>2. pc'[q] = "join" => pc[q] = "join"
    BY MovesFacts
  <2> QED
    BY <1>1, <2>1, <2>2, MovesFacts DEF IInv, OverlapIsNoticed
<1> QED
  BY <1>2, <1>3, <1>4

\* A script ends, whatever became of its update.
LEMMA StopsInforming ==
    ASSUME IInv, NEW p \in Peer, Informing(p), Moves(p, "join")
    PROVE  /\ OverlapIsNoticed'
           /\ Cardinality(Informers') = Cardinality(Informers) - 1
           /\ \A q \in Peer \ {p} : Informing(q)' => "overlap" \in trouble'[q]
<1>1. \A q \in Peer \ {p} : Informing(q)' <=> Informing(q)
  BY MovesFacts DEF Informing
<1>2. ~Informing(p)'
  BY MovesFacts DEF Informing
<1>3. Cardinality(Informers') = Cardinality(Informers) - 1
  <2>1. Informers' = Informers \ {p} /\ p \in Informers
    BY <1>1, <1>2 DEF Informers
  <2> QED
    BY <2>1, Numbers, FS_RemoveElement
<1>4. \A q \in Peer \ {p} : Informing(q)' => "overlap" \in trouble'[q]
  BY <1>1, MovesFacts DEF IInv, OverlapIsNoticed
<1>5. OverlapIsNoticed'
  <2> SUFFICES ASSUME NEW q \in Peer, "overlap" \notin trouble'[q]
               PROVE  /\ Informing(q)' => \A r \in Peer \ {q} : ~Informing(r)'
                      /\ pc'[q] = "join" => \A r \in Peer : Informing(r)' => "overlap" \notin trouble'[r]
    BY DEF OverlapIsNoticed
  <2>1. "overlap" \notin trouble[q]
    BY MovesFacts
  <2>2. CASE q = p
    BY <1>1, <1>2, <2>1, <2>2 DEF IInv, OverlapIsNoticed
  <2>3. CASE q # p
    <3>1. pc'[q] = "join" => pc[q] = "join"
      BY <2>3, MovesFacts
    <3> QED
      BY <1>1, <1>2, <2>1, <2>3, <3>1, MovesFacts DEF IInv, OverlapIsNoticed
  <2> QED
    BY <2>2, <2>3
<1> QED
  BY <1>3, <1>4, <1>5

\* Peers that wait keep what they have as long as they stay members.
LEMMA OthersKept ==
    ASSUME IInv, NEW p \in Peer,
           NEW label \in {"idle", "get", "edit", "compute", "submit", "join"},
           Moves(p, label),
           \A q \in Peer \ {p} : Informing(q)' => "overlap" \in trouble'[q],
           \A q \in Peer \ {p} : pc[q] = "join" /\ trouble[q] = {} /\ q \in DOMAIN channel.members
                                    => q \in DOMAIN channel'.members
    PROVE  \A q \in Peer \ {p} : FilesOf(q)' /\ NothingLost(q)'
<1> SUFFICES ASSUME NEW q \in Peer \ {p}
             PROVE  FilesOf(q)' /\ NothingLost(q)'
  OBVIOUS
<1>1. pc'[q] = pc[q] /\ trouble'[q] = trouble[q]
  BY MovesFacts
<1>2. CASE Informing(q)'
  BY <1>2 DEF FilesOf, NothingLost
<1>3. CASE ~Informing(q)'
  <2>1. pc[q] \notin {"get", "edit", "compute", "submit"}
    BY <1>1, <1>3 DEF Informing
  <2> QED
    BY <1>1, <1>3, <2>1 DEF FilesOf, NothingLost, IInv
<1> QED
  BY <1>2, <1>3

-----------------------------------------------------------------------------
(* One lemma per step.                                                     *)

\* A channel of the creating organisation, and no script.
LEMMA InitInv == Init => IInv
<1> SUFFICES ASSUME Init PROVE IInv
  OBVIOUS
<1>1. channel \in Config
  <2>1. /\ {AdminOrg} \in SUBSET Organisation
        /\ [m \in {AdminOrg} |-> AdminOrg] \in [{AdminOrg} -> Organisation]
        /\ [m \in {AdminOrg} |-> AdminOrg][AdminOrg] = AdminOrg
    BY DEF Organisation
  <2>2. 0 \in 0 .. MaxAdds
    BY ConstantAssumption
  <2> QED
    BY <2>1, <2>2, ConfigIntro DEF Init
<1>2. TypeOK
  <2>1. 0 \in 0 .. MaxAdds
    BY ConstantAssumption
  <2> QED
    BY <1>1, <2>1 DEF Init, TypeOK
<1>3. VersionBound
  <2>1. Informers = {}
    BY DEF Init, Informers, Informing
  <2>2. Cardinality(Informers) = 0
    BY <2>1, FS_EmptySet
  <2> QED
    BY <2>2 DEF Init, VersionBound
<1>4. OneMemberFirst /\ ConfigIsPast
  BY DEF Init, OneMemberFirst, ConfigIsPast
<1>5. OverlapIsNoticed
  BY DEF Init, OverlapIsNoticed, Informing
<1>6. \A p \in Peer : FilesOf(p) /\ NothingLost(p)
  BY DEF Init, FilesOf, NothingLost, Informing
<1> QED
  BY <1>2, <1>3, <1>4, <1>5, <1>6 DEF IInv

\* The init container changes nothing the scripts rely on.
LEMMA NodeInv ==
    ASSUME IInv, NEW p \in Peer, NEW state \in {"configuring", "done"},
           node' = [node EXCEPT ![p] = state],
           share' = share \/ share' = share \union {p},
           UNCHANGED <<channel, files, pc, joined, adds, trouble>>
    PROVE  IInv'
<1>1. TypeOK'
  BY DEF IInv, TypeOK, files
<1>2. VersionBound' /\ OneMemberFirst' /\ ConfigIsPast' /\ OverlapIsNoticed'
  BY DEF IInv, VersionBound, OneMemberFirst, ConfigIsPast, OverlapIsNoticed, Informers,
         Informing, files
<1>3. \A q \in Peer : FilesOf(q)' /\ NothingLost(q)'
  BY DEF IInv, FilesOf, NothingLost, Informing, files
<1> QED
  BY <1>1, <1>2, <1>3 DEF IInv

\* A run that begins beside others puts overlap on all that are not idle; one that
\* begins alone has the channel in config.json unless it failed.
LEMMA FetchInv == ASSUME IInv, NEW p \in Peer, Fetch(p) PROVE IInv'
<1> DEFINE others == {q \in Peer \ {p} : Informing(q)}
<1> DEFINE overlap == {"overlap" : q \in others}
<1>1. PICK failure \in SUBSET {"failure"} :
        /\ config' = IF failure = {} THEN channel ELSE config
        /\ trouble' = [q \in Peer |-> IF q = p THEN overlap \union failure
                                      ELSE IF pc[q] # "idle" THEN trouble[q] \union overlap
                                      ELSE trouble[q]]
  BY DEF Fetch
<1>2. /\ pc[p] = "idle" /\ adds < MaxAdds
      /\ adds' = adds + 1
      /\ pc' = [pc EXCEPT ![p] = "get"]
      /\ UNCHANGED <<node, share, channel, request, modified, update, joined>>
  BY DEF Fetch, Goto
<1>3. /\ pc'[p] = "get"
      /\ \A q \in Peer \ {p} : pc'[q] = pc[q]
  BY <1>2 DEF IInv, TypeOK
<1>4. TypeOK'
  <2>1. adds' \in 0 .. MaxAdds
    BY <1>2, Numbers
  <2>2. overlap \union failure \in SUBSET {"overlap", "failure"}
    BY <1>1
  <2>3. trouble' \in [Peer -> SUBSET {"overlap", "failure"}]
    BY <1>1, <2>2 DEF IInv, TypeOK
  <2>4. config' \in Config \union {Broken}
    BY <1>1 DEF IInv, TypeOK
  <2>5. pc' \in [Peer -> {"idle", "get", "edit", "compute", "submit", "join"}]
    BY <1>2 DEF IInv, TypeOK
  <2> QED
    BY <1>2, <2>1, <2>3, <2>4, <2>5 DEF IInv, TypeOK
<1>5. VersionBound'
  <2>1. Informers' = Informers \union {p} /\ p \notin Informers
    BY <1>2, <1>3 DEF Informers, Informing
  <2>2. Cardinality(Informers') = Cardinality(Informers) + 1
    BY <2>1, Numbers, FS_AddElement
  <2> QED
    BY <1>2, <2>2, Numbers DEF VersionBound
<1>6. OneMemberFirst'
  BY <1>2 DEF IInv, OneMemberFirst
<1>7. ConfigIsPast'
  BY <1>1, <1>2, Numbers DEF IInv, ConfigIsPast
<1>8. CASE others = {}
  <2>1. /\ trouble'[p] = failure
        /\ \A q \in Peer \ {p} : trouble'[q] = trouble[q]
    BY <1>1, <1>8
  <2>2. \A q \in Peer \ {p} : ~Informing(q) /\ ~Informing(q)'
    BY <1>3, <1>8 DEF Informing
  <2>3. "overlap" \notin failure
    OBVIOUS
  <2>4. OverlapIsNoticed'
    BY <1>3, <2>1, <2>2, <2>3 DEF OverlapIsNoticed
  <2>5. \A q \in Peer \ {p} : FilesOf(q)' /\ NothingLost(q)'
    BY <1>2, <1>3, <2>1, <2>2 DEF FilesOf, NothingLost, Informing, IInv
  <2>6. FilesOf(p)' /\ NothingLost(p)'
    BY <1>1, <1>2, <1>3, <2>1 DEF FilesOf, NothingLost
  <2> QED
    BY <1>4, <1>5, <1>6, <1>7, <2>4, <2>5, <2>6 DEF IInv
<1>9. CASE others # {}
  <2>1. \A q \in Peer : pc'[q] # "idle" => "overlap" \in trouble'[q]
    BY <1>1, <1>3, <1>9
  <2>2. OverlapIsNoticed'
    BY <2>1 DEF OverlapIsNoticed, Informing
  <2>3. \A q \in Peer : FilesOf(q)' /\ NothingLost(q)'
    BY <2>1 DEF FilesOf, NothingLost, Informing
  <2> QED
    BY <1>4, <1>5, <1>6, <1>7, <2>2, <2>3 DEF IInv
<1> QED
  BY <1>8, <1>9

\* A definition that is not there is no definition, and the run knows.
LEMMA GetRequestInv == ASSUME IInv, NEW p \in Peer, GetRequest(p) PROVE IInv'
<1>1. /\ pc[p] = "get"
      /\ IF p \in share THEN request' = p /\ UNCHANGED trouble
         ELSE request' = Broken /\ trouble' = [trouble EXCEPT ![p] = @ \union {"failure"}]
      /\ Moves(p, "edit")
      /\ UNCHANGED <<node, share, channel, config, modified, update, joined, adds>>
  BY DEF GetRequest, Goto, Fail, Moves
<1>2. Informing(p)
  BY <1>1 DEF Informing
<1>3. /\ VersionBound' /\ OverlapIsNoticed'
      /\ \A q \in Peer \ {p} : Informing(q)' => "overlap" \in trouble'[q]
  BY <1>1, <1>2, GoesOn
<1>4. TypeOK'
  BY <1>1, MovesFacts DEF IInv, TypeOK
<1>5. OneMemberFirst' /\ ConfigIsPast'
  BY <1>1 DEF IInv, OneMemberFirst, ConfigIsPast
<1>6. \A q \in Peer \ {p} : FilesOf(q)' /\ NothingLost(q)'
  BY <1>1, <1>3, OthersKept
<1>7. FilesOf(p)'
  BY <1>1, MovesFacts DEF FilesOf
<1>8. NothingLost(p)'
  <2> SUFFICES ASSUME trouble'[p] = {} PROVE config' = channel' /\ request' = p
    BY <1>1, MovesFacts DEF NothingLost
  <2>1. p \in share
    BY <1>1 DEF IInv, TypeOK
  <2>2. config = channel
    BY <1>1, <1>2, MovesFacts DEF IInv, NothingLost
  <2> QED
    BY <1>1, <2>1, <2>2
<1> QED
  BY <1>3, <1>4, <1>5, <1>6, <1>7, <1>8 DEF IInv

\* Alone, the run adds what it got for its own peer, to the file it fetched.
LEMMA EditInv == ASSUME IInv, NEW p \in Peer, Edit(p) PROVE IInv'
<1>1. PICK c \in Seen(p, config), definition \in Seen(p, request) :
        modified' = IF Broken \in {c, definition} THEN Broken
                    ELSE WithMember(c, p, definition)
  BY DEF Edit
<1>2. /\ pc[p] = "edit"
      /\ Moves(p, "compute")
      /\ UNCHANGED <<node, share, channel, config, request, update, joined, adds, trouble>>
  BY DEF Edit, Goto, Moves
<1>3. Informing(p)
  BY <1>2 DEF Informing
<1>4. /\ VersionBound' /\ OverlapIsNoticed'
      /\ \A q \in Peer \ {p} : Informing(q)' => "overlap" \in trouble'[q]
  BY <1>2, <1>3, GoesOn
<1>5. modified' \in Config \union {Broken} /\ (modified' # Broken => modified'.admins = "ANY")
  <2>1. CASE Broken \in {c, definition}
    BY <1>1, <2>1
  <2>2. CASE Broken \notin {c, definition}
    <3>1. c \in Config /\ definition \in Peer
      BY <2>2, SeenFacts DEF IInv, TypeOK
    <3> QED
      BY <1>1, <2>2, <3>1, WithMemberFacts
  <2> QED
    BY <2>1, <2>2
<1>6. TypeOK'
  BY <1>2, <1>5, MovesFacts DEF IInv, TypeOK
<1>7. OneMemberFirst' /\ ConfigIsPast'
  BY <1>2, <1>5 DEF IInv, OneMemberFirst, ConfigIsPast
<1>8. \A q \in Peer \ {p} : FilesOf(q)' /\ NothingLost(q)'
  BY <1>2, <1>4, OthersKept
<1>9. ASSUME "overlap" \notin trouble[p]
      PROVE  c = config /\ definition = request
  <2>1. \A q \in Peer \ {p} : ~Informing(q)
    BY <1>3, <1>9 DEF IInv, OverlapIsNoticed
  <2> QED
    BY <2>1, SeenAlone
<1>10. FilesOf(p)'
  <2> SUFFICES ASSUME "overlap" \notin trouble[p]
               PROVE  modified' = Broken \/ (/\ config # Broken /\ p \in share
                                             /\ modified' = WithMember(config, p, p))
    BY <1>2, MovesFacts DEF FilesOf
  <2>1. request = Broken \/ (request = p /\ p \in share)
    BY <1>2 DEF IInv, FilesOf
  <2> QED
    BY <1>1, <1>9, <2>1
<1>11. NothingLost(p)'
  <2> SUFFICES ASSUME trouble[p] = {}
               PROVE  config = channel /\ modified' = WithMember(channel, p, p)
    BY <1>2, MovesFacts DEF NothingLost
  <2>1. config = channel /\ request = p
    BY <1>2, <1>3 DEF IInv, NothingLost
  <2>2. channel # Broken /\ p # Broken
    BY ConfigFacts, ConstantAssumption DEF IInv, TypeOK
  <2> QED
    BY <1>1, <1>9, <2>1, <2>2
<1> QED
  BY <1>4, <1>6, <1>7, <1>8, <1>10, <1>11 DEF IInv

\* Alone, the update is what the run has edited; it is empty only for a member.
LEMMA ComputeInv == ASSUME IInv, NEW p \in Peer, Compute(p) PROVE IInv'
<1>1. PICK c \in Seen(p, config), m \in Seen(p, modified) :
        update' = IF Broken \in {c, m} THEN Broken
                  ELSE IF m.members = c.members /\ m.admins = c.admins THEN Broken
                  ELSE [m EXCEPT !.version = c.version]
  BY DEF Compute
<1>2. /\ pc[p] = "compute"
      /\ Moves(p, "submit")
      /\ UNCHANGED <<node, share, channel, config, request, modified, joined, adds, trouble>>
  BY DEF Compute, Goto, Moves
<1>3. Informing(p)
  BY <1>2 DEF Informing
<1>4. /\ VersionBound' /\ OverlapIsNoticed'
      /\ \A q \in Peer \ {p} : Informing(q)' => "overlap" \in trouble'[q]
  BY <1>2, <1>3, GoesOn
<1>5. update' \in Config \union {Broken} /\ (update' # Broken => update'.admins = "ANY")
  <2>1. CASE update' = Broken
    BY <2>1
  <2>2. CASE update' # Broken
    <3>1. update' = [m EXCEPT !.version = c.version] /\ c # Broken /\ m # Broken
      BY <1>1, <2>2
    <3>2. c \in Config /\ m \in Config /\ m = modified
      BY <3>1, SeenFacts DEF IInv, TypeOK
    <3>3. m.admins = "ANY" /\ c.version \in 0 .. MaxAdds
      BY <3>1, <3>2, ConfigFacts DEF IInv, OneMemberFirst
    <3> QED
      BY <3>1, <3>2, <3>3, WithVersionFacts
  <2> QED
    BY <2>1, <2>2
<1>6. TypeOK'
  BY <1>2, <1>5, MovesFacts DEF IInv, TypeOK
<1>7. OneMemberFirst' /\ ConfigIsPast'
  BY <1>2, <1>5 DEF IInv, OneMemberFirst, ConfigIsPast
<1>8. \A q \in Peer \ {p} : FilesOf(q)' /\ NothingLost(q)'
  BY <1>2, <1>4, OthersKept
<1>9. ASSUME "overlap" \notin trouble[p]
      PROVE  c = config /\ m = modified
  <2>1. \A q \in Peer \ {p} : ~Informing(q)
    BY <1>3, <1>9 DEF IInv, OverlapIsNoticed
  <2> QED
    BY <2>1, SeenAlone
<1>10. ASSUME "overlap" \notin trouble[p], config # Broken, modified = WithMember(config, p, p)
       PROVE  \/ update' = Broken /\ p \in DOMAIN config.members
              \/ update' = WithMember(config, p, p)
  <2>1. config \in Config
    BY <1>10 DEF IInv, TypeOK
  <2>2. /\ modified.version = config.version
        /\ modified.members = Registered(config.members, p, p)
        /\ modified # Broken
    BY <1>10, <2>1, WithMemberFacts, ConfigFacts
  <2>3. [modified EXCEPT !.version = config.version] = modified
    <3>1. PICK x : modified = [members |-> x, version |-> config.version, admins |-> "ANY"]
      BY <1>10 DEF WithMember
    <3>2. \A v : [[members |-> x, version |-> v, admins |-> "ANY"] EXCEPT !.version = v]
                 = [members |-> x, version |-> v, admins |-> "ANY"]
      OBVIOUS
    <3> QED
      BY <2>2, <3>1, <3>2
  <2>4. modified.members = config.members => p \in DOMAIN config.members
    BY <2>2 DEF Registered
  <2> QED
    BY <1>1, <1>9, <1>10, <2>2, <2>3, <2>4
<1>11. FilesOf(p)'
  <2> SUFFICES ASSUME "overlap" \notin trouble[p]
               PROVE  update' = Broken \/ (/\ config # Broken /\ p \in share
                                           /\ update' = WithMember(config, p, p))
    BY <1>2, MovesFacts DEF FilesOf
  <2>1. modified = Broken \/ (/\ config # Broken /\ p \in share
                              /\ modified = WithMember(config, p, p))
    BY <1>2 DEF IInv, FilesOf
  <2>2. CASE modified = Broken
    BY <1>1, <1>9, <2>2
  <2> QED
    BY <1>10, <2>1, <2>2
<1>12. NothingLost(p)'
  <2> SUFFICES ASSUME trouble[p] = {}
               PROVE  /\ config = channel
                      /\ update' = WithMember(channel, p, p) \/ p \in DOMAIN channel.members
    BY <1>2, MovesFacts DEF NothingLost
  <2>1. config = channel /\ modified = WithMember(channel, p, p)
    BY <1>2, <1>3 DEF IInv, NothingLost
  <2>2. channel # Broken
    BY ConfigFacts DEF IInv, TypeOK
  <2> QED
    BY <1>10, <2>1, <2>2
<1> QED
  BY <1>4, <1>6, <1>7, <1>8, <1>11, <1>12 DEF IInv

\* Alone, a run changes the channel only by adding its own peer.
LEMMA SubmitAlone ==
    ASSUME IInv, NEW p \in Peer, Submit(p), "overlap" \notin trouble[p], channel' # channel
    PROVE  p \in share /\ channel'.members = Registered(channel.members, p, p)
<1>1. pc[p] = "submit" /\ Informing(p)
  BY DEF Submit, Informing
<1>2. \A q \in Peer \ {p} : ~Informing(q)
  BY <1>1 DEF IInv, OverlapIsNoticed
<1>3. Accepted(update) /\ channel' = [update EXCEPT !.version = update.version + 1]
  BY <1>2, SeenAlone DEF Submit
<1>4. update # Broken /\ update.version = channel.version
  BY <1>3 DEF Accepted
<1>5. config # Broken /\ p \in share /\ update = WithMember(config, p, p)
  BY <1>1, <1>4 DEF IInv, FilesOf
<1>6. config \in Config
  BY <1>5 DEF IInv, TypeOK
<1>7. /\ update.version = config.version
      /\ update.members = Registered(config.members, p, p)
  BY <1>5, <1>6, WithMemberFacts
<1>8. config = channel
  BY <1>4, <1>5, <1>7 DEF IInv, ConfigIsPast
<1>9. channel'.members = update.members
  <2>1. PICK x, y : update = [members |-> x, version |-> y, admins |-> "ANY"]
    BY <1>5 DEF WithMember
  <2> QED
    BY <1>3, <2>1
<1> QED
  BY <1>5, <1>7, <1>8, <1>9

\* What the orderer takes counts the configuration up by one.
LEMMA SubmitChannel ==
    ASSUME IInv, NEW p \in Peer, Submit(p)
    PROVE  \/ channel' = channel
           \/ /\ channel' \in Config
              /\ channel'.version = channel.version + 1
              /\ channel'.admins = "ANY"
<1>1. CASE channel' = channel
  BY <1>1
<1>2. CASE channel' # channel
  <2>1. PICK u \in Seen(p, update) : channel' = IF Accepted(u) THEN [u EXCEPT !.version = u.version + 1]
                                                ELSE channel
    BY <1>2 DEF Submit
  <2>2. Accepted(u) /\ channel' = [u EXCEPT !.version = u.version + 1]
    BY <1>2, <2>1
  <2>3. u # Broken /\ u = update /\ u.version = channel.version
    BY <2>2, SeenFacts DEF Accepted
  <2>4. u \in Config /\ u.admins = "ANY"
    BY <2>3 DEF IInv, TypeOK, OneMemberFirst
  <2>5. p \in Informers
    BY DEF Submit, Informers, Informing
  <2>6. Cardinality(Informers) > 0
    BY <2>5, Numbers, FS_EmptySet
  <2>7. u.version + 1 \in 0 .. MaxAdds
    BY <2>3, <2>6, Numbers
  <2> QED
    BY <2>2, <2>3, <2>4, <2>7, WithVersionFacts
<1> QED
  BY <1>1, <1>2

\* The update of a run that nothing disturbed is refused only because its peer is a
\* member already.
LEMMA SubmitSucceeds ==
    ASSUME IInv, NEW p \in Peer, Submit(p), trouble[p] = {}, trouble'[p] = {}
    PROVE  p \in DOMAIN channel'.members
<1>1. pc[p] = "submit" /\ Informing(p)
  BY DEF Submit, Informing
<1>2. \A q \in Peer \ {p} : ~Informing(q)
  BY <1>1 DEF IInv, OverlapIsNoticed
<1>3. ~Fail(p)
  BY DEF Fail, IInv, TypeOK
<1>4. channel' = IF Accepted(update) THEN [update EXCEPT !.version = update.version + 1] ELSE channel
  BY <1>2, <1>3, SeenAlone DEF Submit
<1>5. update = WithMember(channel, p, p) \/ p \in DOMAIN channel.members
  BY <1>1 DEF IInv, NothingLost
<1>6. CASE channel' # channel
  <2>1. channel'.members = Registered(channel.members, p, p)
    BY <1>6, SubmitAlone
  <2> QED
    BY <2>1 DEF Registered
<1>7. CASE channel' = channel /\ p \notin DOMAIN channel.members
  <2>1. channel \in Config
    BY DEF IInv, TypeOK
  <2>2. /\ update \in Config /\ update # Broken
        /\ update.version = channel.version
        /\ update.members = Registered(channel.members, p, p)
    BY <1>5, <1>7, <2>1, WithMemberFacts, ConfigFacts
  <2>3. channel.admins = "ANY" \/ Cardinality(DOMAIN channel.members) = 1
    <3>1. CASE channel.admins = "MAJORITY"
      <4>1. DOMAIN channel.members = {AdminOrg}
        BY <3>1 DEF IInv, OneMemberFirst
      <4> QED
        BY <4>1, FS_Singleton
    <3>2. channel.admins \in {"MAJORITY", "ANY"}
      BY <2>1, ConfigFacts
    <3> QED
      BY <3>1, <3>2
  <2>4. \A q \in DOMAIN channel.members : update.members[q] = channel.members[q]
    BY <1>7, <2>2 DEF Registered
  <2>5. Accepted(update)
    BY <2>2, <2>3, <2>4 DEF Accepted
  <2>6. channel' = [update EXCEPT !.version = update.version + 1]
    BY <1>4, <2>5
  <2>7. channel.version \in Nat /\ update.version + 1 # channel.version
    BY <2>1, <2>2, ConfigFacts
  <2>8. channel'.version = update.version + 1
    BY <2>2, <2>6 DEF Config
  <2> QED
    BY <1>7, <2>7, <2>8
<1> QED
  BY <1>6, <1>7

\* The update is sent to the orderer.
LEMMA SubmitInv == ASSUME IInv, NEW p \in Peer, Submit(p) PROVE IInv'
<1>1. /\ pc[p] = "submit" /\ Informing(p)
      /\ Moves(p, "join")
      /\ UNCHANGED <<node, share, config, request, modified, update, joined, adds>>
  BY DEF Submit, Goto, Fail, Moves, files, Informing
<1>2. /\ OverlapIsNoticed'
      /\ Cardinality(Informers') = Cardinality(Informers) - 1
      /\ \A q \in Peer \ {p} : Informing(q)' => "overlap" \in trouble'[q]
  BY <1>1, StopsInforming
<1>3. TypeOK'
  BY <1>1, MovesFacts, SubmitChannel DEF IInv, TypeOK
<1>4. VersionBound'
  <2>1. channel'.version = channel.version \/ channel'.version = channel.version + 1
    BY SubmitChannel
  <2> QED
    BY <1>1, <1>2, <2>1, Numbers DEF VersionBound
<1>5. OneMemberFirst'
  BY <1>1, SubmitChannel DEF IInv, OneMemberFirst
<1>6. ConfigIsPast'
  <2>1. CASE channel' = channel
    BY <1>1, <2>1 DEF IInv, ConfigIsPast
  <2>2. CASE channel' # channel
    <3>1. channel'.version = channel.version + 1
      BY <2>2, SubmitChannel
    <3>2. config # Broken => config.version \in Nat /\ config.version <= channel.version
      BY ConfigFacts DEF IInv, TypeOK, ConfigIsPast
    <3> QED
      BY <1>1, <3>1, <3>2, Numbers DEF ConfigIsPast
  <2> QED
    BY <2>1, <2>2
<1>7. \A q \in Peer \ {p} : FilesOf(q)' /\ NothingLost(q)'
  <2>1. ASSUME NEW q \in Peer \ {p}, pc[q] = "join", trouble[q] = {},
               q \in DOMAIN channel.members
        PROVE  q \in DOMAIN channel'.members
    <3>1. CASE channel' = channel
      BY <2>1, <3>1
    <3>2. CASE channel' # channel
      <4>1. "overlap" \notin trouble[p]
        BY <1>1, <2>1 DEF IInv, OverlapIsNoticed
      <4>2. channel'.members = Registered(channel.members, p, p)
        BY <3>2, <4>1, SubmitAlone
      <4>3. DOMAIN channel'.members = DOMAIN channel.members \union {p}
        BY <4>2 DEF Registered
      <4> QED
        BY <2>1, <4>3
    <3> QED
      BY <3>1, <3>2
  <2> QED
    BY <1>1, <1>2, <2>1, OthersKept
<1>8. FilesOf(p)'
  BY <1>1, MovesFacts DEF FilesOf
<1>9. NothingLost(p)'
  <2> SUFFICES ASSUME trouble'[p] = {} PROVE p \in DOMAIN channel'.members
    BY <1>1, MovesFacts DEF NothingLost, Informing
  <2>1. trouble[p] = {}
    BY <1>1, MovesFacts
  <2> QED
    BY <2>1, SubmitSucceeds
<1> QED
  BY <1>2, <1>3, <1>4, <1>5, <1>6, <1>7, <1>8, <1>9 DEF IInv

\* A script is cut off.
LEMMA InterruptInv == ASSUME IInv, NEW p \in Peer, Interrupt(p) PROVE IInv'
<1>1. /\ Informing(p)
      /\ Moves(p, "join")
      /\ trouble' = [trouble EXCEPT ![p] = trouble[p] \union {"failure"}]
      /\ UNCHANGED <<node, share, channel, config, request, modified, update, joined, adds>>
  BY DEF Interrupt, Goto, Fail, Moves, files
<1>2. /\ OverlapIsNoticed'
      /\ Cardinality(Informers') = Cardinality(Informers) - 1
      /\ \A q \in Peer \ {p} : Informing(q)' => "overlap" \in trouble'[q]
  BY <1>1, StopsInforming
<1>3. TypeOK'
  BY <1>1, MovesFacts DEF IInv, TypeOK
<1>4. VersionBound'
  BY <1>1, <1>2, Numbers DEF VersionBound
<1>5. OneMemberFirst' /\ ConfigIsPast'
  BY <1>1 DEF IInv, OneMemberFirst, ConfigIsPast
<1>6. \A q \in Peer \ {p} : FilesOf(q)' /\ NothingLost(q)'
  BY <1>1, <1>2, OthersKept
<1>7. FilesOf(p)'
  BY <1>1, MovesFacts DEF FilesOf
<1>8. NothingLost(p)'
  BY <1>1 DEF NothingLost, IInv, TypeOK
<1> QED
  BY <1>2, <1>3, <1>4, <1>5, <1>6, <1>7, <1>8 DEF IInv

\* The peer tries to join the channel.
LEMMA JoinInv == ASSUME IInv, NEW p \in Peer, Join(p) PROVE IInv'
<1>1. /\ pc[p] = "join"
      /\ joined' \subseteq joined \union {p}
      /\ Moves(p, "idle")
      /\ UNCHANGED <<node, share, channel, config, request, modified, update, adds>>
  BY DEF Join, Goto, Fail, Moves, files
<1>2. \A q \in Peer : Informing(q)' <=> Informing(q)
  BY <1>1, MovesFacts DEF Informing
<1>3. TypeOK'
  BY <1>1, MovesFacts DEF IInv, TypeOK
<1>4. VersionBound'
  <2>1. Informers' = Informers
    BY <1>2 DEF Informers
  <2> QED
    BY <1>1, <2>1 DEF IInv, VersionBound
<1>5. OneMemberFirst' /\ ConfigIsPast'
  BY <1>1 DEF IInv, OneMemberFirst, ConfigIsPast
<1>6. OverlapIsNoticed'
  <2> SUFFICES ASSUME NEW q \in Peer, "overlap" \notin trouble'[q]
               PROVE  /\ Informing(q)' => \A r \in Peer \ {q} : ~Informing(r)'
                      /\ pc'[q] = "join" => \A r \in Peer : Informing(r)' => "overlap" \notin trouble'[r]
    BY DEF OverlapIsNoticed
  <2>1. "overlap" \notin trouble[q] /\ (pc'[q] = "join" => pc[q] = "join")
    BY <1>1, MovesFacts
  <2> QED
    BY <1>1, <1>2, <2>1, MovesFacts DEF IInv, OverlapIsNoticed
<1>7. \A q \in Peer : FilesOf(q)' /\ NothingLost(q)'
  <2> SUFFICES ASSUME NEW q \in Peer PROVE FilesOf(q)' /\ NothingLost(q)'
    OBVIOUS
  <2>1. CASE q = p
    BY <1>1, <2>1, MovesFacts DEF FilesOf, NothingLost, Informing
  <2>2. CASE q # p
    <3>1. pc'[q] = pc[q] /\ trouble'[q] = trouble[q]
      BY <1>1, <2>2, MovesFacts
    <3> QED
      BY <1>1, <3>1 DEF IInv, FilesOf, NothingLost, Informing
  <2> QED
    BY <2>1, <2>2
<1> QED
  BY <1>3, <1>4, <1>5, <1>6, <1>7 DEF IInv

-----------------------------------------------------------------------------
(* The theorems.                                                           *)

\* The invariant holds in every reachable state.
THEOREM Inductive == Spec => []IInv
<1>1. Init => IInv
  BY InitInv
<1>2. IInv /\ [Next]_vars => IInv'
  <2> SUFFICES ASSUME IInv, [Next]_vars PROVE IInv'
    OBVIOUS
  <2>1. CASE UNCHANGED vars
    BY <2>1 DEF vars, files, IInv, TypeOK, VersionBound, OneMemberFirst, ConfigIsPast,
                OverlapIsNoticed, FilesOf, NothingLost, Informers, Informing
  <2>2. ASSUME NEW p \in Peer, Configure(p) \/ Publish(p) \/ RestartNode(p) PROVE IInv'
    BY <2>2, NodeInv DEF Configure, Publish, RestartNode
  <2>3. ASSUME NEW p \in Peer, AddPeer(p) PROVE IInv'
    BY <2>3, GetRequestInv, EditInv, ComputeInv, SubmitInv, JoinInv DEF AddPeer
  <2> QED
    BY <2>1, <2>2, <2>3, FetchInv, InterruptInv DEF Next
<1> QED
  BY <1>1, <1>2, PTL DEF Spec

\* The files hold configurations of the channel, its creator stays a member, and its
\* number never passes the runs there were.
THEOREM TypeCorrect == Spec => []TypeOK
<1>1. IInv => TypeOK
  BY DEF IInv
<1> QED
  BY <1>1, Inductive, PTL

\* Only the submission of a peer's own run moves it from submitting to joining, or
\* changes the channel.
LEMMA StepOf ==
    ASSUME IInv, [Next]_vars, NEW p \in Peer
    PROVE  /\ pc[p] = "submit" /\ "overlap" \notin trouble[p] /\ channel' # channel => Submit(p)
           /\ pc[p] = "join" /\ pc'[p] = "idle" => Join(p)
<1>1. \A q \in Peer : Configure(q) \/ Publish(q) \/ RestartNode(q) =>
         UNCHANGED channel /\ UNCHANGED pc
  BY DEF Configure, Publish, RestartNode
<1>2. \A q \in Peer : Fetch(q) \/ GetRequest(q) \/ Edit(q) \/ Compute(q) \/ Interrupt(q) =>
         UNCHANGED channel /\ pc'[p] \in {pc[p], "get", "edit", "compute", "submit", "join"}
  BY DEF Fetch, GetRequest, Edit, Compute, Interrupt, Goto, IInv, TypeOK
<1>3. \A q \in Peer : Submit(q) =>
         pc[q] = "submit" /\ pc'[p] \in {pc[p], "join"}
  BY DEF Submit, Goto, IInv, TypeOK
<1>4. \A q \in Peer : Join(q) => UNCHANGED channel /\ (pc'[p] # pc[p] => q = p)
  BY DEF Join, Goto, IInv, TypeOK
<1>5. UNCHANGED vars => UNCHANGED channel /\ UNCHANGED pc
  BY DEF vars
<1>6. \A q \in Peer : pc[p] = "submit" /\ pc[q] = "submit" /\ "overlap" \notin trouble[p] => q = p
  BY DEF IInv, OverlapIsNoticed, Informing
<1> QED
  BY <1>1, <1>2, <1>3, <1>4, <1>5, <1>6 DEF Next, AddPeer

\* A run that was alone adds its peer under its own definition and nothing else.
THEOREM AddsOnlyItself == Spec => AddsOnlyItsPeer
<1> DEFINE Adds(p) == pc[p] = "submit" /\ "overlap" \notin trouble[p] /\ channel' # channel =>
                         /\ p \in share
                         /\ channel'.members = Registered(channel.members, p, p)
<1> DEFINE P == \A p \in Peer : Adds(p)
<1>1. IInv /\ [Next]_vars => [P]_vars
  <2>1. ASSUME IInv, [Next]_vars, NEW p \in Peer PROVE Adds(p)
    BY <2>1, StepOf, SubmitAlone
  <2> QED
    BY <2>1
<1>2. Spec => [][P]_vars
  BY <1>1, Inductive, PTL DEF Spec
<1> QED
  BY <1>2 DEF AddsOnlyItsPeer

\* A run that nothing disturbed until its join ends with the peer on the channel.
THEOREM UndisturbedJoins == Spec => JoinsUnlessDisturbed
<1> DEFINE Joins(p) == (pc[p] = "join" /\ pc'[p] = "idle" /\ trouble'[p] = {}) =>
                          \/ p \in joined'
                          \/ p \in DOMAIN channel.members /\ channel.members[p] # p
<1> DEFINE P == \A p \in Peer : Joins(p)
<1>1. IInv /\ [Next]_vars => [P]_vars
  <2>1. ASSUME IInv, [Next]_vars, NEW p \in Peer PROVE Joins(p)
    <3> SUFFICES ASSUME pc[p] = "join", Join(p), trouble'[p] = {}
                 PROVE  \/ p \in joined'
                        \/ p \in DOMAIN channel.members /\ channel.members[p] # p
      BY <2>1, StepOf
    <3>1. ~Fail(p) /\ UNCHANGED trouble
      BY <2>1 DEF Join, Fail, IInv, TypeOK
    <3>2. p \in DOMAIN channel.members
      BY <2>1, <3>1 DEF IInv, NothingLost
    <3>3. joined' = joined \union {q \in {p} : \E m \in DOMAIN channel.members :
                                                 channel.members[m] = q}
      BY <3>1 DEF Join
    <3> QED
      BY <3>2, <3>3
  <2> QED
    BY <2>1
<1>2. Spec => [][P]_vars
  BY <1>1, Inductive, PTL DEF Spec
<1> QED
  BY <1>2 DEF JoinsUnlessDisturbed
=============================================================================
