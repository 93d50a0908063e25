--------------------------- MODULE CommandLedger ---------------------------
(***************************************************************************)
(* What the command interface promises a client: a command, identified by  *)
(* the device that sends it and its idempotency key, is decided at most    *)
(* once, and everybody who is told an outcome is told the decided one, for *)
(* the material that was decided.  CommandGateway.tla implements it.       *)
(***************************************************************************)
CONSTANTS
    Commands,   \* identities: a device and one of its keys
    Undecided

VARIABLES
    ledger,     \* the decision of every command: request hash and receipt
    told        \* the answers clients were given: identity and decision

ledgerVars == <<ledger, told>>

LedgerInit ==
    /\ ledger = [c \in Commands |-> Undecided]
    /\ told = {}

\* A command is decided, whatever the decision is; no other is touched.
Decide(c) ==
    /\ ledger[c] = Undecided
    /\ ledger'[c] # Undecided
    /\ ledger' = [ledger EXCEPT ![c] = ledger'[c]]
    /\ UNCHANGED told

Tell(c) ==
    /\ ledger[c] # Undecided
    /\ told' = told \cup {<<c, ledger[c]>>}
    /\ UNCHANGED ledger

LedgerNext ==
    \E c \in Commands : Decide(c) \/ Tell(c)

LedgerSpec == LedgerInit /\ [][LedgerNext]_ledgerVars
=============================================================================
