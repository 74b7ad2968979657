----------------------------- MODULE MCHandlers -----------------------------
(***************************************************************************)
(* Instances of Handlers for TLC: every amount of up to MaxLength          *)
(* characters in an entry that is otherwise in order, and every            *)
(* combination of the other fields with a few amounts.                     *)
(***************************************************************************)
EXTENDS Handlers

CONSTANT MaxLength   \* bound of the model: the characters of an amount

Amounts == BoundedSeq({"0", "7", ".", " ", "x"}, MaxLength)

MCEntryRequests ==
         [payment : {"pay_1"}, debit : {"a"}, credit : {"b"}, amount : Amounts,
          currency : {"USDC"}]
  \union [payment : {"", "pay_1"}, debit : {"", "a", "b"}, credit : {"", "a", "b"},
          amount : {<<>>, <<"0">>, <<"7">>}, currency : {"", "usdc", "FRAX", "EUR"}]

MCChainNames == Chains \union {"bitcoin"}

=============================================================================
