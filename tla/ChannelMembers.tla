--------------------------- MODULE ChannelMembers ---------------------------
(***************************************************************************)
(* How peers become members of a channel.  The init container of a peer    *)
(* makes its certificates and publishes the definition of its organisation *)
(* on the data share (check-configuration.sh, run.sh).  The operator's     *)
(* add-peer.sh then runs inform_existing_nodes.sh in the pod of the        *)
(* orderer, which edits the channel's configuration, and after ten seconds *)
(* peer_join.sh in the pod of the peer.                                    *)
(*                                                                         *)
(* Every inform_existing_nodes.sh works on files of the same names in the  *)
(* same directory of the same container, and no script looks at the exit   *)
(* code of a command.  The orderer is external.                            *)
(*                                                                         *)
(* A definition is named by the peer that made it: the init container      *)
(* never makes a second one.                                               *)
(***************************************************************************)
EXTENDS FiniteSets, Naturals

CONSTANTS
    Peer,
    AdminOrg,   \* the organisation the channel is created with
    Broken,     \* the content of a file that cannot be used
    MaxAdds     \* bound: how often add-peer.sh is run

ASSUME ConstantAssumption ==
    IsFiniteSet(Peer) /\ AdminOrg \notin Peer /\ Broken \notin Peer /\ MaxAdds \in Nat

VARIABLES
    node,       \* the init container of a peer: "new", "configuring", "done"
    share,      \* the definitions on the data share
    channel,    \* the channel's configuration
    config,     \* file config.json
    request,    \* file new_member_org.json
    modified,   \* file modified_config.json
    update,     \* file org3_update_in_envelope.pb
    pc,         \* where the add-peer.sh of every peer is
    joined,     \* the peers that joined the channel
    adds,       \* how often add-peer.sh was run
    trouble     \* auxiliary: what disturbed the last run for a peer, until it joined

files == <<config, request, modified, update>>
vars == <<node, share, channel, files, pc, joined, adds, trouble>>

Organisation == Peer \union {AdminOrg}

\* The definitions of the members, the number of the configuration, and who must
\* sign a change of the members: a majority of the members' admins, or any one.
Config == [members : {m \in UNION {[S -> Organisation] : S \in SUBSET Organisation} :
                         AdminOrg \in DOMAIN m /\ m[AdminOrg] = AdminOrg},
           version : 0 .. MaxAdds,
           admins : {"MAJORITY", "ANY"}]

ASSUME BrokenAssumption == Broken \notin Config

-----------------------------------------------------------------------------
(* The init container of a peer.  It configures only where nothing was     *)
(* configured before: one that stops on the way never publishes.           *)

Configure(p) ==
    /\ node[p] = "new"
    /\ node' = [node EXCEPT ![p] = "configuring"]
    /\ UNCHANGED <<share, channel, files, pc, joined, adds, trouble>>

Publish(p) ==
    /\ node[p] = "configuring"
    /\ node' = [node EXCEPT ![p] = "done"]
    /\ share' = share \union {p}
    /\ UNCHANGED <<channel, files, pc, joined, adds, trouble>>

RestartNode(p) ==
    /\ node[p] = "configuring"
    /\ node' = [node EXCEPT ![p] = "done"]
    /\ UNCHANGED <<share, channel, files, pc, joined, adds, trouble>>

-----------------------------------------------------------------------------
(* inform_existing_nodes.sh                                                *)

Informing(p) == pc[p] \in {"get", "edit", "compute", "submit"}

\* What a step of p finds in a file: another run may be writing it.
Seen(p, file) == {file} \union {Broken : q \in {q \in Peer \ {p} : Informing(q)}}

Goto(p, label) == pc' = [pc EXCEPT ![p] = label]

Fail(p) == trouble' = [trouble EXCEPT ![p] = @ \union {"failure"}]

\* Lines 24-25.  A fetch that fails leaves the block of the last one.
Fetch(p) ==
    LET others == {q \in Peer \ {p} : Informing(q)}
        overlap == {"overlap" : q \in others}
    IN
    /\ pc[p] = "idle" /\ adds < MaxAdds
    /\ adds' = adds + 1
    /\ \E failure \in SUBSET {"failure"} :
          /\ config' = IF failure = {} THEN channel ELSE config
          /\ trouble' = [q \in Peer |-> IF q = p THEN overlap \union failure
                                        ELSE IF pc[q] # "idle" THEN trouble[q] \union overlap
                                        ELSE trouble[q]]
    /\ Goto(p, "get")
    /\ UNCHANGED <<node, share, channel, request, modified, update, joined>>

\* Mutants: the file of an earlier run is kept; the script waits for the request.
GetRequestKeeping(p) ==
    /\ pc[p] = "get"
    /\ IF p \in share THEN request' = p /\ UNCHANGED trouble
       ELSE request' = request /\ Fail(p)
    /\ Goto(p, "edit")
    /\ UNCHANGED <<node, share, channel, config, modified, update, joined, adds>>

GetRequestWaiting(p) ==
    /\ pc[p] = "get" /\ p \in share
    /\ request' = p
    /\ Goto(p, "edit")
    /\ UNCHANGED <<node, share, channel, config, modified, update, joined, adds, trouble>>

\* Line 36.  The answer for a missing file is not a definition.
GetRequest(p) ==
    /\ pc[p] = "get"
    /\ IF p \in share THEN request' = p /\ UNCHANGED trouble
       ELSE request' = Broken /\ Fail(p)
    /\ Goto(p, "edit")
    /\ UNCHANGED <<node, share, channel, config, modified, update, joined, adds>>

Registered(members, p, definition) ==
    [q \in DOMAIN members \union {p} |-> IF q = p THEN definition ELSE members[q]]

\* Mutants: the new member replaces the others; the policy stays as it is.
WithOnlyMember(c, p, definition) ==
    [members |-> [q \in {p} |-> definition], version |-> c.version, admins |-> "ANY"]

WithMemberOnly(c, p, definition) ==
    [c EXCEPT !.members = Registered(c.members, p, definition)]

\* Lines 40-44: the new member is merged into the configuration, and from now on
\* any admin may change the members.
WithMember(c, p, definition) ==
    [members |-> Registered(c.members, p, definition), version |-> c.version, admins |-> "ANY"]

Edit(p) ==
    /\ pc[p] = "edit"
    /\ \E c \in Seen(p, config), definition \in Seen(p, request) :
          modified' = IF Broken \in {c, definition} THEN Broken
                      ELSE WithMember(c, p, definition)
    /\ Goto(p, "compute")
    /\ UNCHANGED <<node, share, channel, config, request, update, joined, adds, trouble>>

\* Lines 46-54.  The update is the difference between the two files as they are
\* now; it names the version of the configuration it was computed from.
Compute(p) ==
    /\ pc[p] = "compute"
    /\ \E c \in Seen(p, config), m \in Seen(p, modified) :
          update' = IF Broken \in {c, m} THEN Broken
                    ELSE IF m.members = c.members /\ m.admins = c.admins THEN Broken
                    ELSE [m EXCEPT !.version = c.version]
    /\ Goto(p, "submit")
    /\ UNCHANGED <<node, share, channel, config, request, modified, joined, adds, trouble>>

\* The orderer: the update must be computed from the configuration in force and
\* be signed as that configuration demands.  AdminOrg signs: alone it is a
\* majority only of itself, and it is not an admin of another member.
Accepted(u) ==
    /\ u # Broken
    /\ u.version = channel.version
    /\ channel.admins = "ANY" \/ Cardinality(DOMAIN channel.members) = 1
    /\ \A q \in DOMAIN u.members \intersect DOMAIN channel.members :
          u.members[q] = channel.members[q]

\* Line 62.  The command may fail, too.
Submit(p) ==
    /\ pc[p] = "submit"
    /\ \/ /\ \E u \in Seen(p, update) :
                channel' = IF Accepted(u) THEN [u EXCEPT !.version = @ + 1] ELSE channel
          /\ UNCHANGED trouble
       \/ Fail(p) /\ UNCHANGED channel
    /\ Goto(p, "join")
    /\ UNCHANGED <<node, share, files, joined, adds>>

\* The script is cut off; add-peer.sh goes on.
Interrupt(p) ==
    /\ Informing(p)
    /\ Goto(p, "join")
    /\ Fail(p)
    /\ UNCHANGED <<node, share, channel, files, joined, adds>>

-----------------------------------------------------------------------------
(* peer_join.sh: the orderer hands the first block to a peer whose         *)
(* certificates belong to a member.                                        *)

Join(p) ==
    /\ pc[p] = "join"
    /\ \/ /\ joined' = joined \union {q \in {p} : \E m \in DOMAIN channel.members :
                                                    channel.members[m] = q}
          /\ UNCHANGED trouble
       \/ UNCHANGED joined /\ Fail(p)
    /\ Goto(p, "idle")
    /\ UNCHANGED <<node, share, channel, files, adds>>

-----------------------------------------------------------------------------

Init ==
    /\ node = [p \in Peer |-> "new"]
    /\ share = {}
    /\ channel = [members |-> [m \in {AdminOrg} |-> AdminOrg], version |-> 0, admins |-> "MAJORITY"]
    /\ config = Broken /\ request = Broken /\ modified = Broken /\ update = Broken
    /\ pc = [p \in Peer |-> "idle"]
    /\ joined = {}
    /\ adds = 0
    /\ trouble = [p \in Peer |-> {}]

AddPeer(p) == GetRequest(p) \/ Edit(p) \/ Compute(p) \/ Submit(p) \/ Join(p)

Next ==
    \E p \in Peer :
        \/ Configure(p) \/ Publish(p) \/ RestartNode(p)
        \/ Fetch(p) \/ AddPeer(p) \/ Interrupt(p)

\* A script that runs goes on; nobody has to start one.
Spec == Init /\ [][Next]_vars /\ \A p \in Peer : WF_vars(AddPeer(p))

-----------------------------------------------------------------------------
(* Properties                                                              *)

\* The files hold configurations of the channel, and the organisation the channel
\* was created with stays a member under its own definition.
TypeOK ==
    /\ node \in [Peer -> {"new", "configuring", "done"}]
    /\ share \subseteq Peer
    /\ channel \in Config
    /\ {config, modified, update} \subseteq Config \union {Broken}
    /\ request \in Peer \union {Broken}
    /\ pc \in [Peer -> {"idle", "get", "edit", "compute", "submit", "join"}]
    /\ joined \subseteq Peer
    /\ adds \in 0 .. MaxAdds
    /\ trouble \in [Peer -> SUBSET {"overlap", "failure"}]

\* An inform_existing_nodes.sh that ran alone changes the channel in one way: its
\* peer becomes a member, under the definition that peer published.  Whatever
\* failed in it, no member is lost and nobody is registered under the
\* definition of another.
AddsOnlyItsPeer ==
    [][\A p \in Peer :
          pc[p] = "submit" /\ "overlap" \notin trouble[p] /\ channel' # channel =>
              /\ p \in share
              /\ channel'.members = Registered(channel.members, p, p)]_vars

\* An add-peer.sh that nothing disturbed, of a peer that is published, joins the
\* peer to the channel, however many runs went before it; unless one that was
\* disturbed has left the peer registered under another's definition, which no
\* later run repairs.  Two inform_existing_nodes.sh that overlap while the peer
\* waits to join do disturb it: the second may find config.json fetched again
\* since the first edited it, and take the new member out again.
JoinsUnlessDisturbed ==
    [][\A p \in Peer :
          (pc[p] = "join" /\ pc'[p] = "idle" /\ trouble'[p] = {}) =>
              \/ p \in joined'
              \/ p \in DOMAIN channel.members /\ channel.members[p] # p]_vars

\* Every add-peer.sh ends, also for a peer that never publishes.
AddEnds == \A p \in Peer : pc[p] # "idle" ~> pc[p] = "idle"
=============================================================================
