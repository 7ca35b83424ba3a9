--------------------------- MODULE ManualFlatten ---------------------------
(***************************************************************************)
(* The commands `flatten` and `cancel-orders`                              *)
(* (crates/trader-cli/src/commands/flatten.rs): an operator closes the     *)
(* position of a symbol no process tracks, at market, and then cancels the *)
(* orders on the exit side; or cancels all there is.                       *)
(*                                                                         *)
(* Beside them the broker: an exit order that works may fill, at the       *)
(* market or, for a leg of an old bracket, at its price.  A close is       *)
(* delivered or not whatever the call answers (PlaceOrder); a delivered    *)
(* one is listed by the next query.  Every order is of the client id that  *)
(* asks and of the size of the position.                                   *)
(***************************************************************************)
EXTENDS Integers, FiniteSets

CONSTANTS
    OldLegs,       \* orders on the exit side from before
    CloseTries     \* TENTATIVAS

Closes == 1 .. CloseTries
ASSUME FlattenAssumption ==
    CloseTries \in Nat \ {0} /\ IsFiniteSet(OldLegs) /\ OldLegs \cap Nat = {}

VARIABLES
    command,     \* flatten or cancel-orders
    stage,       \* where it stands
    try,         \* tentativa
    exitOrder,   \* the orders on the exit side at the broker
    holding,     \* the position, in sizes of what there was; below zero it is inverted
    keep,        \* manter: the close the broker acknowledged
    targets      \* the orders it has still to cancel

flattenVars == <<command, stage, try, exitOrder, holding, keep, targets>>

Working == {o \in OldLegs \cup Closes : exitOrder[o] = "working"}

FlattenInit ==
    /\ command \in {"flatten", "cancel-orders"}
    /\ stage = "look" /\ try = 1
    /\ exitOrder \in [OldLegs \cup Closes -> {"none", "working"}]
    /\ \A o \in Closes : exitOrder[o] = "none"
    /\ holding \in {0, 1} /\ keep = 0 /\ targets = {}

Ends == stage' = "over"

-----------------------------------------------------------------------------
(* run *)

\* The wrong port, no confirmation, a query that fails, or nothing to close.
FlattenStops ==
    /\ command = "flatten" /\ stage = "look"
    /\ Ends
    /\ UNCHANGED <<command, try, exitOrder, holding, keep, targets>>

FlattenStarts ==
    /\ command = "flatten" /\ stage = "look"
    /\ holding > 0
    /\ stage' = "send"
    /\ UNCHANGED <<command, try, exitOrder, holding, keep, targets>>

-----------------------------------------------------------------------------
(* close_at_market *)

SendClose ==
    /\ stage = "send"
    /\ exitOrder' = [exitOrder EXCEPT ![try] = "working"]
    /\ keep' = try
    /\ stage' = "list"
    /\ UNCHANGED <<command, try, holding, targets>>

\* The call failed; the order may be at the broker all the same.
SendCloseFails ==
    /\ stage = "send"
    /\ exitOrder' \in {exitOrder, [exitOrder EXCEPT ![try] = "working"]}
    /\ IF try < CloseTries
       THEN try' = try + 1 /\ stage' = "again"
       ELSE Ends /\ UNCHANGED try
    /\ UNCHANGED <<command, holding, keep, targets>>

\* tem_ordem_de_saida: only a broker without an order on that side allows it.
NothingAsked == TRUE            \* mutant: as before 03/09/2026
MayRepeat == Working = {}

Repeat ==
    /\ stage = "again"
    /\ MayRepeat
    /\ stage' = "send"
    /\ UNCHANGED <<command, try, exitOrder, holding, keep, targets>>

AlreadyThere ==
    /\ stage = "again"
    /\ Working # {}
    /\ stage' = "list"
    /\ UNCHANGED <<command, try, exitOrder, holding, keep, targets>>

RepeatUnknown ==
    /\ stage = "again"
    /\ Ends
    /\ UNCHANGED <<command, try, exitOrder, holding, keep, targets>>

-----------------------------------------------------------------------------
(* cancel_exit_side_orders, cancel_orders *)

ToCancel == Working \ {keep}

List ==
    /\ stage = "list" \/ (command = "cancel-orders" /\ stage = "look")
    /\ targets' = ToCancel
    /\ stage' = "cancel"
    /\ UNCHANGED <<command, try, exitOrder, holding, keep>>

ListFails ==
    /\ stage = "list" \/ (command = "cancel-orders" /\ stage = "look")
    /\ Ends
    /\ UNCHANGED <<command, try, exitOrder, holding, keep, targets>>

CancelNext ==
    /\ stage = "cancel"
    /\ \E o \in targets :
         /\ targets' = targets \ {o}
         /\ exitOrder' = IF o \in Working THEN [exitOrder EXCEPT ![o] = "cancelled"] ELSE exitOrder
    /\ UNCHANGED <<command, stage, try, holding, keep>>

CancelFails ==
    /\ stage = "cancel"
    /\ \E o \in targets : targets' = targets \ {o}
    /\ UNCHANGED <<command, stage, try, exitOrder, holding, keep>>

\* What is left is shown.
ShowRest ==
    /\ stage = "cancel" /\ targets = {}
    /\ Ends
    /\ UNCHANGED <<command, try, exitOrder, holding, keep, targets>>

-----------------------------------------------------------------------------
ExitFills ==
    /\ \E o \in Working : exitOrder' = [exitOrder EXCEPT ![o] = "filled"]
    /\ holding' = holding - 1
    /\ UNCHANGED <<command, stage, try, keep, targets>>

FlattenNext ==
    \/ FlattenStops \/ FlattenStarts
    \/ SendClose \/ SendCloseFails \/ Repeat \/ AlreadyThere \/ RepeatUnknown
    \/ List \/ ListFails \/ CancelNext \/ CancelFails \/ ShowRest
    \/ ExitFills
FlattenSpec == FlattenInit /\ [][FlattenNext]_flattenVars

-----------------------------------------------------------------------------
\* "Numa ordem a mercado, 'nao sei se foi' nunca autoriza mandar de novo": two
\* closes never wait for the market together, however the calls fail and
\* whenever they fill (flatten.rs:99); and the close the broker acknowledged is
\* never among the orders the command cancels (flatten.rs:180).
OneCloseWaits == Cardinality(Working \cap Closes) <= 1
OwnCloseKept == keep # 0 => exitOrder[keep] # "cancelled"
ClosesOnce == OneCloseWaits /\ OwnCloseKept
=============================================================================
