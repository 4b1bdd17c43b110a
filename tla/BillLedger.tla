----------------------------- MODULE BillLedger -----------------------------
(***************************************************************************)
(* What billing promises about money: one live bill at a time, priced      *)
(* once; payments captured once, at any time, each announced as it is      *)
(* captured; a status that follows the money; and a bill that is voided    *)
(* only while it is unpriced and nothing was captured on it.               *)
(***************************************************************************)
EXTENDS Integers

CONSTANTS
  Bill, Pay,
  None,     \* no bill
  Total,    \* what the service costs
  Sum(_)    \* the sum of a function's values

VARIABLES
  status, total,   \* of each bill
  held,            \* what each payment captured, and for which bill
  announced,       \* how often each capture was announced
  ready            \* how often each bill was

lvars == <<status, total, held, announced, ready>>

Nothing == [bill |-> None, amount |-> 0]

Init ==
  /\ status = [b \in Bill |-> "NONE"]
  /\ total = [b \in Bill |-> 0]
  /\ held = [p \in Pay |-> Nothing]
  /\ announced = [p \in Pay |-> 0]
  /\ ready = [b \in Bill |-> 0]

Live(b) == status[b] \notin {"NONE", "VOID"}
Held(of, b) == Sum([p \in Pay |-> IF of[p].bill = b THEN of[p].amount ELSE 0])
Standing(due, paid) ==
  IF paid >= due THEN "PAID" ELSE IF paid > 0 THEN "PARTIALLY_PAID" ELSE "PENDING"

New(b) == status[b] = "NONE" /\ \A c \in Bill : ~Live(c)

Open(b) ==
  /\ New(b)
  /\ status' = [status EXCEPT ![b] = "OPEN"]
  /\ UNCHANGED <<total, held, announced, ready>>

Price(b) ==
  /\ New(b) \/ status[b] = "OPEN"
  /\ total' = [total EXCEPT ![b] = Total]
  /\ status' = [status EXCEPT ![b] = Standing(Total, Held(held, b))]
  /\ ready' = IF Total > Held(held, b) THEN [ready EXCEPT ![b] = @ + 1] ELSE ready
  /\ UNCHANGED <<held, announced>>

Void(b) ==
  /\ status[b] = "OPEN"
  /\ \A p \in Pay : held[p].bill # b
  /\ status' = [status EXCEPT ![b] = "VOID"]
  /\ UNCHANGED <<total, held, announced, ready>>

Capture(p, b) ==
  /\ held[p] = Nothing
  /\ status[b] # "NONE"
  /\ announced' = [announced EXCEPT ![p] = @ + 1]
  /\ held'[p].amount \in Nat \ {0}
  /\ held' = [held EXCEPT ![p] = [bill |-> b, amount |-> held'[p].amount]]
  /\ status' = IF status[b] \in {"OPEN", "VOID"} THEN status
               ELSE [status EXCEPT ![b] = Standing(total[b], Held(held', b))]
  /\ UNCHANGED <<total, ready>>

Next == \E b \in Bill : \/ Open(b) \/ Price(b) \/ Void(b)
                        \/ \E p \in Pay : Capture(p, b)

Spec == Init /\ [][Next]_lvars
=============================================================================
