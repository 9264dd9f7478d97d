---------------------------- MODULE ReviewLedger ----------------------------
(***************************************************************************)
(* What the review queue promises, without leases, retries or a network:   *)
(* each page has a history of entries; an entry may leave an instruction   *)
(* that stays open until it is answered once; the answer is either a       *)
(* correction, entered directly on top of the entry it corrects in the     *)
(* same step, or a refusal, which leaves the history alone.                *)
(***************************************************************************)
EXTENDS Integers, Sequences

CONSTANTS Pages, MaxGen

VARIABLES history,   \* for each page, the kinds of its entries in order
          open       \* the entries <<page, number>> whose instruction is unanswered

Kinds == {"saved", "ready", "correction"}

Init ==
  /\ history = [p \in Pages |-> <<>>]
  /\ open = {}

Enter(p, kind) == history' = [history EXCEPT ![p] = Append(@, kind)]

Save(p) ==
  /\ Enter(p, "saved")
  /\ open' \in {open, open \cup {<<p, Len(history[p]) + 1>>}}

\* A page is only ready once its last entry has no open instruction.
Ready(p) ==
  /\ history[p] # <<>>
  /\ <<p, Len(history[p])>> \notin open
  /\ Enter(p, "ready")
  /\ UNCHANGED open

Correct(p) ==
  /\ <<p, Len(history[p])>> \in open
  /\ Enter(p, "correction")
  /\ open' = open \ {<<p, Len(history[p])>>}

\* One claim may find several instructions that newer entries have overtaken.
Refuse ==
  /\ \E answered \in SUBSET open : open' = open \ answered
  /\ UNCHANGED history

Next ==
  \/ \E p \in Pages : Len(history[p]) < MaxGen /\ (Save(p) \/ Ready(p) \/ Correct(p))
  \/ Refuse

Spec == Init /\ [][Next]_<<history, open>>
=============================================================================
