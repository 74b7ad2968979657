---------------------------- MODULE JournalEntry ----------------------------
(***************************************************************************)
(* What the ledger accepts as a journal entry: the four rules of           *)
(* handleCreateEntry and the parser under its third one, validateAmount    *)
(* (services/ledger/main.go).                                              *)
(*                                                                         *)
(* Only an amount is looked into.  Its characters are "0", "7" (any other  *)
(* digit), ".", " " (any space that strings.TrimSpace removes) and "x"     *)
(* (anything else).                                                        *)
(***************************************************************************)
EXTENDS Naturals, Sequences, SequencesExt

\* The place after the decimal point from which on strconv.ParseFloat reads any
\* digit as zero: 325 for float64, and scaled down by the runs.  (At place 324 it
\* reads a 1 and a 2 as zero too; the digits are not told apart here.)
CONSTANT Underflow

ASSUME JournalAssumption == Underflow \in Nat \ {0}

Digits == {"0", "7"}

Characters == Digits \union {".", " ", "x"}

IsSpace(c) == c = " "

TrimSpace(s) ==
    LET first == SelectInSeq(s, LAMBDA c : ~ IsSpace(c))
        last  == SelectLastInSeq(s, LAMBDA c : ~ IsSpace(c))
    IN  IF first = 0 THEN <<>> ELSE SubSeq(s, first, last)

\* Where the first decimal point is, or 0.
Point(s) == SelectInSeq(s, LAMBDA c : c = ".")

\* strings.SplitN(s, ".", 2)
Parts(s) ==
    IF Point(s) = 0 THEN <<s>>
    ELSE <<SubSeq(s, 1, Point(s) - 1), SubSeq(s, Point(s) + 1, Len(s))>>

\* strconv.ParseFloat of a decimal is 0: of no digits but zeros up to Underflow.
ReadsAsZero(s) ==
    \A i \in DOMAIN s : s[i] = "7" => Point(s) > 0 /\ i >= Point(s) + Underflow

\* A validator that does not ask for digits on both sides of the point.
AmountIsValid_EmptyPart(amount) ==
    LET s == TrimSpace(amount)
    IN  /\ s # <<>>
        /\ \A part \in Range(Parts(s)) : Range(part) \subseteq Digits
        /\ ~ ReadsAsZero(s)

\* validateAmount returns nil.
AmountIsValid(amount) ==
    LET s == TrimSpace(amount)
    IN  /\ s # <<>>
        /\ \A part \in Range(Parts(s)) : part # <<>> /\ Range(part) \subseteq Digits
        /\ ~ ReadsAsZero(s)

ToUpper(currency) == IF currency = "usdc" THEN "USDC" ELSE currency

IsKnownCurrency(currency) ==
    ToUpper(currency) \in {"USDC", "USDT", "DAI", "PYUSD", "USDP", "FRAX", "TUSD"}

\* handleCreateEntry answers 201, not 400.
EntryIsAccepted(req) ==
    /\ req.payment # "" /\ req.debit # "" /\ req.credit # "" /\ req.amount # <<>>
    /\ req.currency # ""
    /\ req.debit # req.credit
    /\ AmountIsValid(req.amount)
    /\ IsKnownCurrency(req.currency)

-----------------------------------------------------------------------------
(***************************************************************************)
(* The reference: a positive decimal, with space around it.                *)
(***************************************************************************)
DecimalFrom(s, from, to) ==
    /\ \A i \in DOMAIN s \ (from .. to) : IsSpace(s[i])
    /\ s[from] \in Digits /\ s[to] \in Digits
    /\ \A i \in from .. to : s[i] \in Digits \union {"."}
    /\ \A i, j \in from .. to : s[i] = "." /\ s[j] = "." => i = j

PositiveDecimal(s) ==
    /\ \E i \in DOMAIN s : s[i] = "7"
    /\ \E from, to \in DOMAIN s : DecimalFrom(s, from, to)

\* A positive decimal whose first non-zero digit is too far behind the point.
IsTiny(s) ==
    /\ PositiveDecimal(s)
    /\ \E p \in DOMAIN s :
          /\ s[p] = "."
          /\ \A i \in DOMAIN s : s[i] = "7" => i >= p + Underflow

=============================================================================
