----------------------------- MODULE SyncLedger -----------------------------
(***************************************************************************)
(* What the two sync pipelines promise, without batches, runs, savepoints  *)
(* or crashes.  Items of a stream are offered in a keyed source; the       *)
(* ledger (the target database) knows which are replicated, which are      *)
(* reported as failed, and, per stream, the mark below which nothing is    *)
(* ever looked at again.  One entry of the ledger moves all three at once, *)
(* and an entry may only set a mark that leaves nothing unaccounted below. *)
(*                                                                         *)
(* An item offered below a larger key that is already there is `late`: a   *)
(* mark is allowed to have passed it, and the promise does not cover it.   *)
(***************************************************************************)
EXTENDS Integers

CONSTANTS Stream, Item, StreamOf, KeyOf

VARIABLES
  offered,   \* items the source holds
  late,      \* items offered out of key order
  replica,   \* items present in the target
  reported,  \* items with a recorded error
  mark       \* last_cursor of each stream

vars == <<offered, late, replica, reported, mark>>

\* Nothing offered in order at or below key k of stream s is unaccounted for.
Covers(s, k, rep, err) ==
  \A x \in offered \ late : StreamOf[x] = s /\ KeyOf[x] <= k => x \in rep \cup err

Init ==
  /\ offered \in SUBSET Item
  /\ late = {} /\ replica = {} /\ reported = {}
  /\ mark = [s \in Stream |-> 0]

Offer(x) ==
  /\ x \notin offered
  /\ offered' = offered \cup {x}
  /\ late' = IF \E y \in offered : StreamOf[y] = StreamOf[x] /\ KeyOf[y] > KeyOf[x]
             THEN late \cup {x} ELSE late
  /\ UNCHANGED <<replica, reported, mark>>

\* One committed batch of stream s: it adds items of that stream and sets the
\* mark to 0 or to the key of an offered item.
Enter(s) ==
  LET mine == {x \in offered : StreamOf[x] = s} IN
  /\ replica \subseteq replica' /\ replica' \subseteq replica \cup mine
  /\ reported \subseteq reported' /\ reported' \subseteq reported \cup mine
  /\ \E k \in {0} \cup {KeyOf[x] : x \in mine} :
       /\ Covers(s, k, replica', reported')
       /\ mark' = [mark EXCEPT ![s] = k]
  /\ UNCHANGED <<offered, late>>

Next == (\E x \in Item : Offer(x)) \/ (\E s \in Stream : Enter(s))

Spec == Init /\ [][Next]_vars

(* The promise: at or below the mark every item offered in order is either  *)
(* replicated or reported.                                                  *)
Promise == \A s \in Stream : Covers(s, mark[s], replica, reported)

=============================================================================
