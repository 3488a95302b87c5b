---------------------------- MODULE StoredResult ----------------------------
(***************************************************************************)
(* What a stored query promises to whoever reads its rows: they come in    *)
(* order, each once, with no gap, and "complete" is said only at the limit *)
(* or when all were handed over, once and for good.                        *)
(*                                                                         *)
(* The worker's response (StoredStream) and the result of the Python       *)
(* client (StoredQuery), which is made of several such responses, both     *)
(* implement this module.                                                  *)
(***************************************************************************)
EXTENDS Naturals, Sequences, SequencesExt

VARIABLES
  wanted,     (* the rows asked for: <<dataspec or file, place in it>>     *)
  received,   (* the rows handed over                                      *)
  full,       (* the limit is reached                                      *)
  cut,        (* the source withholds rows that nobody was told of         *)
  state       (* open, complete, partial                                   *)

resultVars == <<wanted, received, full, cut, state>>

Before(p, q) == p[1] < q[1] \/ (p[1] = q[1] /\ p[2] < q[2])

(* What "complete" may be said of.                                         *)
Honest(withheld) == withheld \/ full \/ wanted \subseteq ToSet(received)

Init ==
  /\ received = <<>>
  /\ state = "open" \/ (state = "complete" /\ Honest(cut))

(* A limit that was reached stays so, and so do rows that were withheld.   *)
Grows(flag, next) == flag => next

(* The next row: after all that were handed over, and of the wanted ones   *)
(* none is passed by.                                                      *)
Deliver ==
  /\ state = "open" /\ ~full
  /\ \E row \in wanted :
       /\ received' = Append(received, row)
       /\ \A k \in DOMAIN received : Before(received[k], row)
       /\ cut \/ \A w \in wanted : Before(w, row) => w \in ToSet(received)
  /\ Grows(full, full')
  /\ UNCHANGED <<wanted, cut, state>>

(* A record may count without being handed over (it cannot be parsed).     *)
Narrow ==
  /\ state = "open" /\ Grows(full, full') /\ Grows(cut, cut')
  /\ UNCHANGED <<wanted, received, state>>

Complete ==
  /\ state = "open" /\ state' = "complete"
  /\ Grows(cut, cut') /\ Honest(cut')
  /\ UNCHANGED <<wanted, received, full>>

(* An error, a cancellation, or the reader has left.                       *)
GiveUp ==
  /\ state = "open" /\ state' = "partial"
  /\ UNCHANGED <<wanted, received, full, cut>>

Next == Deliver \/ Narrow \/ Complete \/ GiveUp

Spec == Init /\ [][Next]_resultVars
=============================================================================
