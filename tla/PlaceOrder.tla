----------------------------- MODULE PlaceOrder -----------------------------
(***************************************************************************)
(* One call of place_order of the IBKR adapter                             *)
(* (crates/trader-adapters/src/ibkr/broker.rs): a connection of its own,   *)
(* the legs one by one, the wait for the first word of the gateway, and    *)
(* sixty seconds around it all.  Beside it the gateway, which holds a leg  *)
(* until one that transmits comes, and then works, fills or refuses it.    *)
(*                                                                         *)
(* External: a leg whose send failed did not reach the gateway; a refused  *)
(* parent takes its children with it.                                      *)
(***************************************************************************)
EXTENDS Integers, Sequences

CONSTANTS
    Requests,    \* what may be asked for, among RequestKinds
    Attempts     \* ATTEMPTS of connect

RequestKinds == {"simple", "bracket", "stop_limit", "no_price"}

ASSUME PlaceAssumption == Requests \subseteq RequestKinds /\ Attempts \in Nat \ {0}

VARIABLES
    request,
    at,        \* where the call stands
    tries,     \* handshakes that failed
    sent,      \* legs sent: the parent, the take profit, the stop loss
    leg,       \* each of them at the gateway
    words,     \* what the gateway said of the parent that nobody read
    reply      \* what the caller gets

placeVars == <<request, at, tries, sent, leg, words, reply>>

Parent == 1
Legs == 1 .. 3
LegStatuses == {"absent", "held", "working", "filled", "dead"}

PlaceInit ==
    /\ request \in Requests
    /\ at = "connect" /\ tries = 0 /\ sent = 0
    /\ leg = [l \in Legs |-> "absent"]
    /\ words = <<>> /\ reply = "none"

Answer(r) == at' = "done" /\ reply' = r

-----------------------------------------------------------------------------
(* connect *)

Handshake ==
    /\ at = "connect"
    /\ at' = "build"
    /\ UNCHANGED <<request, tries, sent, leg, words, reply>>

HandshakeFails ==
    /\ at = "connect"
    /\ tries' = tries + 1
    /\ IF tries' = Attempts THEN Answer("failed") ELSE UNCHANGED <<at, reply>>
    /\ UNCHANGED <<request, sent, leg, words>>

-----------------------------------------------------------------------------
(* build_simple_order, build_bracket_orders, build_stop_entry_bracket *)

Built ==
    /\ at = "build"
    /\ request \in {"simple", "bracket"}
    /\ at' = "send"
    /\ UNCHANGED <<request, tries, sent, leg, words, reply>>

NotBuilt ==
    /\ at = "build"
    /\ request \in {"stop_limit", "no_price"}
    /\ Answer("rejected")
    /\ UNCHANGED <<request, tries, sent, leg, words>>

-----------------------------------------------------------------------------
(* submit_and_confirm, submit_bracket_and_confirm *)

LegCount == IF request = "bracket" THEN 3 ELSE 1

FromTheSecond(l) == l > 1 \/ request = "simple"     \* mutant: the target transmits too
Transmits(l) == l = LegCount

\* The last leg releases the chain; the gateway may say nothing of it.
SendLeg ==
    /\ at = "send"
    /\ sent' = sent + 1
    /\ leg' = IF Transmits(sent')
              THEN [l \in Legs |-> IF l <= sent' THEN "working" ELSE "absent"]
              ELSE [leg EXCEPT ![sent'] = "held"]
    /\ words' \in IF Transmits(sent') THEN {words, Append(words, "open")} ELSE {words}
    /\ at' = IF sent' = LegCount THEN "confirm" ELSE "send"
    /\ UNCHANGED <<request, tries, reply>>

SendFails ==
    /\ at = "send"
    /\ Answer("rejected")
    /\ UNCHANGED <<request, tries, sent, leg, words>>

-----------------------------------------------------------------------------
(* confirm_order *)

\* An open order or any other status is an acceptance; Inactive, Cancelled and
\* the notices 2xx but 202 are rejections.
Meaning(word) == IF word = "refused" THEN "rejected" ELSE "accepted"

Confirm ==
    /\ at = "confirm"
    /\ words # <<>>
    /\ words' = Tail(words)
    /\ Answer(Meaning(Head(words)))
    /\ UNCHANGED <<request, tries, sent, leg>>

SilenceFails == "rejected"      \* mutant: as before the orders of 07/08/2026
SilenceMeans == "accepted"

\* The stream ends, or ten seconds pass: the order was transmitted.
NoWord ==
    /\ at = "confirm"
    /\ Answer(SilenceMeans)
    /\ UNCHANGED <<request, tries, sent, leg, words>>

StreamBreaks ==
    /\ at = "confirm"
    /\ Answer("failed")
    /\ UNCHANGED <<request, tries, sent, leg, words>>

\* with_timeout: wherever the call stands.
TimesOut ==
    /\ at # "done"
    /\ Answer("failed")
    /\ UNCHANGED <<request, tries, sent, leg, words>>

-----------------------------------------------------------------------------
(* The gateway *)

Refuse ==
    /\ leg[Parent] = "working"
    /\ leg' = [l \in Legs |-> IF leg[l] \in {"held", "working"} THEN "dead" ELSE leg[l]]
    /\ words' = Append(words, "refused")
    /\ UNCHANGED <<request, at, tries, sent, reply>>

FillParent ==
    /\ leg[Parent] = "working"
    /\ leg' = [leg EXCEPT ![Parent] = "filled"]
    /\ words' = Append(words, "filled")
    /\ UNCHANGED <<request, at, tries, sent, reply>>

PlaceNext ==
    \/ Handshake \/ HandshakeFails \/ Built \/ NotBuilt
    \/ SendLeg \/ SendFails \/ Confirm \/ NoWord \/ StreamBreaks \/ TimesOut
    \/ Refuse \/ FillParent
PlaceSpec == PlaceInit /\ [][PlaceNext]_placeVars

-----------------------------------------------------------------------------
\* An entry that can trade has its two exits at the exchange, whichever send
\* failed and wherever the sixty seconds ran out ("apenas a ultima ordem
\* transmite, o que libera a cadeia inteira", broker.rs:699).
BracketWhole ==
    request = "bracket" /\ leg[Parent] \in {"working", "filled"} =>
        \A l \in Legs \ {Parent} : leg[l] # "absent"

\* The caller forgets an order it is told was rejected: none of them may work
\* or fill ("ausencia de confirmacao nao e rejeicao", broker.rs:793).
RejectedIsDead ==
    reply = "rejected" => \A l \in Legs : leg[l] \in {"absent", "held", "dead"}
=============================================================================
