---------------------------- MODULE TokenRegistry ----------------------------
(***************************************************************************)
(* What the non-fungible token contract promises, with no ledger under it: *)
(* every function happens at once, on the state it finds.  It is the       *)
(* reading a user has of chaincode/erc-721/chaincode/erc721-contract.go.   *)
(***************************************************************************)
CONSTANTS Client, Minter, Token, Zero, NoOne

VARIABLES
    owner,      \* who owns a token, NoOne if it does not exist
    approved,   \* the one client that may also transfer it
    operators   \* pairs <<owner, operator>>

Account == Client \union {Zero}
Exists(t) == owner[t] # NoOne
Manages(c, t) == c = owner[t] \/ <<owner[t], c>> \in operators

Init ==
    /\ owner = [t \in Token |-> NoOne]
    /\ approved = [t \in Token |-> NoOne]
    /\ operators = {}

Mint(minter, t) ==
    /\ minter \in Minter
    /\ ~Exists(t)
    /\ owner' = [owner EXCEPT ![t] = minter]
    /\ UNCHANGED <<approved, operators>>

Approve(sender, c, t) ==
    /\ Exists(t)
    /\ Manages(sender, t)
    /\ approved' = [approved EXCEPT ![t] = c]
    /\ UNCHANGED <<owner, operators>>

Transfer(sender, to, t) ==
    /\ Exists(t)
    /\ Manages(sender, t) \/ sender = approved[t]
    /\ owner' = [owner EXCEPT ![t] = to]
    /\ approved' = [approved EXCEPT ![t] = NoOne]
    /\ UNCHANGED operators

Burn(sender, t) ==
    /\ Exists(t)
    /\ sender = owner[t]
    /\ owner' = [owner EXCEPT ![t] = NoOne]
    /\ approved' = [approved EXCEPT ![t] = NoOne]
    /\ UNCHANGED operators

SetApprovalForAll(sender, operator, on) ==
    /\ operators' = IF on THEN operators \union {<<sender, operator>>}
                    ELSE operators \ {<<sender, operator>>}
    /\ UNCHANGED <<owner, approved>>

Next ==
    \E sender \in Client :
        \/ \E t \in Token :
              \/ Mint(sender, t)
              \/ Burn(sender, t)
              \/ \E c \in Client \union {NoOne} : Approve(sender, c, t)
              \/ \E to \in Account : Transfer(sender, to, t)
        \/ \E operator \in Client, on \in BOOLEAN : SetApprovalForAll(sender, operator, on)

vars == <<owner, approved, operators>>

Spec == Init /\ [][Next]_vars
===============================================================================
