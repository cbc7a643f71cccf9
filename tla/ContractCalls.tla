---------------------------- MODULE ContractCalls ----------------------------
(***************************************************************************)
(* How a contract is called, for the specifications that have no ledger    *)
(* under them: a client makes a call, which waits, and then takes effect   *)
(* at one moment, or is refused or lost and has no effect at all.          *)
(***************************************************************************)
EXTENDS Naturals

CONSTANT Request    \* names of the calls that may wait at a time

VARIABLES
    calls,          \* the calls that wait, by name: who calls what
    served          \* how many calls have taken effect

callVars == <<calls, served>>

CallsInit == DOMAIN calls = {} /\ served = 0

OthersWait(r) == \A q \in DOMAIN calls \ {r} : calls'[q] = calls[q]

\* Any call may be made; it is not changed while it waits.
Submit(r) ==
    /\ r \notin DOMAIN calls
    /\ DOMAIN calls' = DOMAIN calls \union {r}
    /\ OthersWait(r)
    /\ UNCHANGED served

\* The call takes effect: what that is, is said beside.
Serve(r) ==
    /\ r \in DOMAIN calls
    /\ DOMAIN calls' = DOMAIN calls \ {r}
    /\ OthersWait(r)
    /\ served' = served + 1

Refuse(r) ==
    /\ r \in DOMAIN calls
    /\ DOMAIN calls' = DOMAIN calls \ {r}
    /\ OthersWait(r)
    /\ UNCHANGED served
===============================================================================
