------------------------------ MODULE MCCommands ------------------------------
(*****************************************************************************)
(* Where messages and cancellations come in: the command gateway of the      *)
(* native clients and the Telegram ingress, in one run. Every behaviour is a *)
(* behaviour of one instance, which `part` names:                            *)
(*   "retries"   the gateway under three requests with two keys;             *)
(*   "restart"   the gateway under two requests over two restarts, with      *)
(*               malformed ones and works and conversations that do not      *)
(*               exist;                                                      *)
(*   "ingress"   the ingress under three texts and controls, with a store    *)
(*               fault and a stop;                                           *)
(*   "provider"  the ingress under every other shape, with three faults of   *)
(*               the provider or the store.                                  *)
(*****************************************************************************)
EXTENDS CommandGateway, TLC

VARIABLES
    part,  \* the component that moves in this behaviour
    provider, sent, poller, cause, inbox, bound, account, admitted, cancels, acks,
    now, faults, stops

\* The value of a variable that the component has not.
Off == "off"

Symmetry == Permutations(Keys)

Ingress == INSTANCE TelegramIngress WITH
    works <- admitted,
    Shapes <- {"text", "control"}, StorageFaults <- {"begin"}, Devices <- FALSE,
    CanDisable <- FALSE, FirstId <- 4, BatchLimit <- 2, MaxUpdates <- 3,
    MaxClock <- 2, MaxFaults <- 1, MaxStops <- 1
Provider == INSTANCE TelegramIngress WITH
    works <- admitted,
    Shapes <- {"text", "media", "foreign", "opaque"}, StorageFaults <- {"begin"},
    Devices <- TRUE, CanDisable <- FALSE, FirstId <- 4, BatchLimit <- 2,
    MaxUpdates <- 2, MaxClock <- 1, MaxFaults <- 3, MaxStops <- 0

ASSUME BoundsOK == Ingress!BoundsAssumption /\ Provider!BoundsAssumption

ingressVars == <<provider, sent, poller, cause, inbox, bound, account, admitted,
                 cancels, acks, now, faults, stops>>

NoIngress ==
    provider = Off /\ sent = Off /\ poller = Off /\ cause = Off /\ inbox = Off
    /\ bound = Off /\ account = Off /\ admitted = Off /\ cancels = Off /\ acks = Off
    /\ now = Off /\ faults = Off /\ stops = Off

\* What "retries" and "restart" leave out of each other's inputs.
Plain(q) == q.valid /\ q.conv = Primary /\ q.body # 2
Within ==
    IF part = "restart" THEN Len(requests) <= 2
    ELSE restarts <= 1 /\ AttemptEvents = {} /\ \A i \in 1..Len(requests) : Plain(requests[i])

EntriesInit ==
    \/ part \in {"retries", "restart"} /\ Init /\ NoIngress
    \/ part = "ingress" /\ Ingress!Init /\ Init
    \/ part = "provider" /\ Provider!Init /\ Init

EntriesNext ==
    /\ UNCHANGED part
    /\ \/ part \in {"retries", "restart"} /\ Next /\ Within' /\ UNCHANGED ingressVars
       \/ part = "ingress" /\ Ingress!Next /\ UNCHANGED vars
       \/ part = "provider" /\ Provider!Next /\ UNCHANGED vars

EntriesSpec == EntriesInit /\ [][EntriesNext]_<<part, vars, ingressVars>>

-------------------------------------------------------------------------------
===============================================================================
