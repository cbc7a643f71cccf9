---------------------------- MODULE TokenAccounts ----------------------------
(***************************************************************************)
(* What the fungible token contracts promise (UTXO tokens and ERC-1155),   *)
(* with no ledger, keys or coins under it: accounts with a balance of each *)
(* token.  A call does exactly what it says, at once, on the balances and  *)
(* approvals it finds.  Minters issue tokens, and retire anybody's; else   *)
(* an account is charged by its owner, or by an operator it approves then. *)
(*                                                                         *)
(* A call is a record of the caller and the function, with `from` and the  *)
(* payments, records [to, token, amount], of those that move tokens, and   *)
(* with the operator and the decision of an approval.                      *)
(***************************************************************************)
EXTENDS ContractCalls, Integers, Functions

CONSTANTS Client, Minter, Token

VARIABLES
    balance,    \* of every account and token
    operators   \* pairs <<holder, operator>>

\* What the payments p take of a token, and what an account gets of it.
Need(p, t) ==
    SumFunction([i \in DOMAIN p |-> IF p[i].token = t THEN p[i].amount ELSE 0])
Share(p, c, t) ==
    SumFunction([i \in DOMAIN p |->
                    IF p[i].to = c /\ p[i].token = t THEN p[i].amount ELSE 0])

Init ==
    /\ CallsInit
    /\ balance = [c \in Client |-> [t \in Token |-> 0]]
    /\ operators = {}

\* The recipients get what the payments name, and the payers pay all of it.
Move(payers, p) ==
    balance' = [c \in Client |-> [t \in Token |->
                  balance[c][t] + Share(p, c, t) - IF c \in payers THEN Need(p, t) ELSE 0]]

Covers(payer, p) ==
    payer \in Client /\ \A t \in Token : Need(p, t) <= balance[payer][t]

Mint(caller, p) ==
    /\ caller \in Minter
    /\ Move({}, p)
    /\ UNCHANGED operators

Burn(caller, from, p) ==
    /\ caller \in Minter
    /\ Covers(from, p)
    /\ Move({from}, p)
    /\ UNCHANGED operators

Transfer(caller, from, p) ==
    /\ caller = from \/ <<from, caller>> \in operators
    /\ Covers(from, p)
    /\ Move({from}, p)
    /\ UNCHANGED operators

SetApprovalForAll(caller, operator, approved) ==
    /\ operators' = IF approved THEN operators \union {<<caller, operator>>}
                    ELSE operators \ {<<caller, operator>>}
    /\ UNCHANGED balance

Run(call) ==
    \/ call.function = "Mint" /\ Mint(call.caller, call.payments)
    \/ call.function = "Burn" /\ Burn(call.caller, call.from, call.payments)
    \/ call.function = "Transfer" /\ Transfer(call.caller, call.from, call.payments)
    \/ /\ call.function = "SetApprovalForAll"
       /\ SetApprovalForAll(call.caller, call.operator, call.approved)
    \/ call.function = "none" /\ UNCHANGED <<balance, operators>>

Next ==
    \E r \in Request :
        \/ Submit(r) /\ UNCHANGED <<balance, operators>>
        \/ Serve(r) /\ Run(calls[r])
        \/ Refuse(r) /\ UNCHANGED <<balance, operators>>

vars == <<balance, operators, calls, served>>

Spec == Init /\ [][Next]_vars
==============================================================================
