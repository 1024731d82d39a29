------------------------------- MODULE Escrow -------------------------------
(***************************************************************************)
(* What a pool of equal stakes promises its depositors, whatever phases,    *)
(* counters, proofs and rounding a market keeps it with. Everyone stakes    *)
(* the same and puts at most a wager of it at risk. The pool either decides *)
(* and pays, after one fee, or gives up and refunds every stake in full,    *)
(* never some of both. Each depositor is settled once, and a pool that is   *)
(* done keeps nothing but gifts.                                            *)
(***************************************************************************)
EXTENDS Integers

CONSTANTS Depositors,
          Stake,                 \* what each of them deposits
          Wager,                 \* Wager[d]: the part d may lose
          FeeBps, Denominator,   \* the fee is at most this share of the stakes
          MaxGifts               \* bound: units sent to the pool by strangers

VARIABLES stage,                 \* "before", "open", "paying", "refunding", "closed"
          deposits,              \* who has deposited
          settled,               \* who has been refunded or paid
          received,              \* received[d]: what d got back
          held,                  \* what the pool holds
          taken,                 \* the fee
          gifts

vars == <<stage, deposits, settled, received, held, taken, gifts>>

Init ==
  /\ stage = "before"
  /\ deposits = {} /\ settled = {}
  /\ received = [d \in Depositors |-> 0]
  /\ held = 0 /\ taken = 0 /\ gifts = 0

Open ==
  /\ stage = "before"
  /\ stage' = "open"
  /\ UNCHANGED <<deposits, settled, received, held, taken, gifts>>

Give ==
  /\ stage # "before"
  /\ gifts < MaxGifts
  /\ gifts' = gifts + 1
  /\ held' = held + 1
  /\ UNCHANGED <<stage, deposits, settled, received, taken>>

Deposit(d) ==
  /\ stage = "open"
  /\ d \notin deposits
  /\ deposits' = deposits \cup {d}
  /\ held' = held + Stake
  /\ UNCHANGED <<stage, settled, received, taken, gifts>>

Decide(fee) ==
  /\ stage = "open"
  /\ fee * Denominator <= (held - gifts) * FeeBps
  /\ stage' = "paying"
  /\ taken' = fee
  /\ held' = held - fee
  /\ UNCHANGED <<deposits, settled, received, gifts>>

GiveUp ==
  /\ stage = "open"
  /\ stage' = IF deposits = {} THEN "closed" ELSE "refunding"
  /\ UNCHANGED <<deposits, settled, received, held, taken, gifts>>

\* One depositor gets an amount; the last one to be settled closes the pool.
Settle(d, amount) ==
  /\ d \in deposits \ settled
  /\ settled' = settled \cup {d}
  /\ received' = [received EXCEPT ![d] = amount]
  /\ held' = held - amount
  /\ stage' = IF settled' = deposits THEN "closed" ELSE stage
  /\ UNCHANGED <<deposits, taken, gifts>>

Refund(d) == stage = "refunding" /\ Stake <= held /\ Settle(d, Stake)

\* A decided pool returns at least what a depositor did not wager, and the
\* last payment takes everything that is not a gift.
Pay(d, amount) ==
  /\ stage = "paying"
  /\ Stake - Wager[d] <= amount
  /\ Settle(d, amount)
  /\ stage' = "closed" => held' <= gifts

Next ==
  \/ Open
  \/ Give
  \/ GiveUp
  \/ \E fee \in 0..held : Decide(fee)
  \/ \E d \in Depositors : Deposit(d) \/ Refund(d) \/ \E amount \in 0..held : Pay(d, amount)

Spec == Init /\ [][Next]_vars
=============================================================================
