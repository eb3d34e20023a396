------------------------------- MODULE Ledger --------------------------------
(***************************************************************************)
(* What the order manager promises the pre-trade risk check, with none of  *)
(* its machinery: the orders that can still trade, and for each side of    *)
(* each symbol a number that is always the sum of what they have left.     *)
(***************************************************************************)
EXTENDS Integers, FiniteSets

CONSTANTS Symbol, Side

VARIABLES book,      \* order id -> [symbol, side, leaves], for working orders
          exposure   \* [Symbol -> [Side -> Nat]], as the risk check reads it

ledgerVars == <<book, exposure>>

\* The sum of what the orders of one side of one symbol have left, as the number
\* of their lots.
Total(b, s, d) ==
  Cardinality(UNION {{i} \X (1 .. b[i].leaves) :
                       i \in {j \in DOMAIN b : b[j].symbol = s /\ b[j].side = d}})

ExposureOf(b) == [s \in Symbol |-> [d \in Side |-> Total(b, s, d)]]

Init == book = [i \in {} |-> i] /\ exposure = ExposureOf(book)

\* Every step keeps the published exposure equal to the recomputed one.
Publish == exposure' = ExposureOf(book')

SameTerms(i) == book'[i].symbol = book[i].symbol /\ book'[i].side = book[i].side

\* A new order joins the book; the others are untouched.
Open ==
  /\ \E i \in DOMAIN book' \ DOMAIN book : DOMAIN book' = DOMAIN book \cup {i}
  /\ \A i \in DOMAIN book : book'[i] = book[i]
  /\ Publish

\* One order executes in part.
Work ==
  /\ DOMAIN book' = DOMAIN book
  /\ \E i \in DOMAIN book :
       /\ SameTerms(i)
       /\ book'[i].leaves < book[i].leaves
       /\ \A j \in DOMAIN book \ {i} : book'[j] = book[j]
  /\ Publish

\* Orders leave the book, whatever they had left.
Close ==
  /\ DOMAIN book' \subseteq DOMAIN book
  /\ DOMAIN book' # DOMAIN book
  /\ \A i \in DOMAIN book' : book'[i] = book[i]
  /\ Publish

Next == Open \/ Work \/ Close

Spec == Init /\ [][Next]_ledgerVars
=============================================================================
