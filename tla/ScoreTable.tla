----------------------------- MODULE ScoreTable -----------------------------
(***************************************************************************)
(* One of the two score tables of model/src/models/ip_signer.rs: a tree    *)
(* from ids (ips or signers) to scores and a second tree, the inverse, of  *)
(* (score, id) pairs ordered by score, both of capacity cap.  Scores are   *)
(* integers in units of a hundredth; products and averages round down.     *)
(*                                                                         *)
(* The trees are sokoban red-black trees.  All that is used of their shape *)
(* is where the root may be: in a red-black tree of three or more nodes    *)
(* the root has two children, so it is neither the first nor the last      *)
(* entry.  insert overwrites the value of a present key and does nothing   *)
(* when the key is absent and the tree full.                               *)
(***************************************************************************)
EXTENDS Integers, FiniteSets

\* crate::ONE
ONE == 100

Entry(id, s) == <<s, id>>

\* The derived order on the inverse entries: score first, then id.
Below(e, f) == e[1] < f[1] \/ (e[1] = f[1] /\ e[2] < f[2])

\* The entries that may be at the root of a tree holding the set inv.
Roots(inv) ==
  {e \in inv : Cardinality(inv) >= 3 =>
                 \E lo, hi \in inv : Below(lo, e) /\ Below(e, hi)}

EmptyTable == [score |-> [id \in {} |-> ONE], inverse |-> {}]

Ids(t) == DOMAIN t.score

\* RedBlackTree::insert on the two trees.
InsertScore(score, id, s, cap) ==
  IF id \in DOMAIN score \/ Cardinality(DOMAIN score) < cap
    THEN [i \in DOMAIN score \cup {id} |-> IF i = id THEN s ELSE score[i]]
    ELSE score

InsertInverse(inv, e, cap) ==
  IF e \in inv \/ Cardinality(inv) < cap THEN inv \cup {e} ELSE inv

\* approximate_median_ip_score and approximate_median_signer_score.
Medians(inv) == IF inv = {} THEN {ONE} ELSE {e[1] : e \in Roots(inv)}

\* What _forward looks up for one id: its score, or the median.
Lookups(t, id) == IF id \in Ids(t) THEN {t.score[id]} ELSE Medians(t.inverse)

-----------------------------------------------------------------------------

\* A plausible slip: the score changes before the old inverse entry is removed.
FeedbackScoreFirst(t, id) ==
  IF id \notin Ids(t) THEN t ELSE
  LET low == t.score[id] \div 100
  IN  [score |-> [t.score EXCEPT ![id] = low],
       inverse |-> (t.inverse \ {Entry(id, low)}) \cup {Entry(id, low)}]

\* ip_feedback.
Feedback(t, id) ==
  IF id \notin Ids(t) THEN t ELSE
  LET low == t.score[id] \div 100
  IN  [score |-> [t.score EXCEPT ![id] = low],
       inverse |-> (t.inverse \ {Entry(id, t.score[id])}) \cup {Entry(id, low)}]

\* add_ip_score and add_signer_score.
AddScore(t, id, s, cap) ==
  LET score == [i \in Ids(t) \ {id} |-> t.score[i]]
      inverse == IF id \in Ids(t) THEN t.inverse \ {Entry(id, t.score[id])}
                                  ELSE t.inverse
  IN  [score |-> InsertScore(score, id, s, cap),
       inverse |-> InsertInverse(inverse, Entry(id, s), cap)]

-----------------------------------------------------------------------------
(* update_model, for one table.  cand maps the ids seen in the batch to    *)
(* the average value and the number of their transactions.                 *)

\* A plausible slip: the weights do not add up to one.
EmaOverweight(old, new) == (100 * old + 5 * new) \div 100

Ema(old, new) == (95 * old + 5 * new) \div 100

\* The score a tabled id drifts to: its average, or the median if it was seen
\* too rarely.
Target(cand, id, median, min) ==
  IF id \in DOMAIN cand /\ cand[id].count >= min THEN cand[id].average ELSE median

Drift(t, cand, median, min) ==
  [id \in Ids(t) |-> Ema(t.score[id], Target(cand, id, median, min))]

Learnable(t, cand, min) ==
  {id \in DOMAIN cand \ Ids(t) : cand[id].count >= min}

\* A plausible slip: the capacity of the trees is not respected.
AdmittedAll(ids, room) == ids

\* The first of the learnable ids, in key order, that still find room.
Admitted(ids, room) == {id \in ids : Cardinality({j \in ids : j < id}) < room}

Update(t, cand, median, min, cap) ==
  LET drift == Drift(t, cand, median, min)
      learnable == Learnable(t, cand, min)
      inScore == Admitted(learnable, cap - Cardinality(Ids(t)))
      inInverse == Admitted(learnable, cap - Cardinality(t.inverse))
  IN  [score |-> [id \in Ids(t) \cup inScore |->
                    IF id \in Ids(t) THEN drift[id] ELSE cand[id].average],
       inverse |-> (t.inverse \ {Entry(id, t.score[id]) : id \in Ids(t)})
                     \cup {Entry(id, drift[id]) : id \in Ids(t)}
                     \cup {Entry(id, cand[id].average) : id \in inInverse}]

\* A plausible slip: prune removes the last entry instead of the root.
PrunesLast(t) ==
  {[score |-> [id \in Ids(t) \ {e[2]} |-> t.score[id]], inverse |-> t.inverse \ {e}] :
     e \in {e \in t.inverse : \A f \in t.inverse \ {e} : Below(f, e)}}

\* One iteration of prune: the root leaves the inverse, its id the scores.
Prunes(t) ==
  {[score |-> [id \in Ids(t) \ {e[2]} |-> t.score[id]], inverse |-> t.inverse \ {e}] :
     e \in Roots(t.inverse)}

-----------------------------------------------------------------------------

\* The inverse tree holds exactly the entries of the score tree.
Mirrored(t) == t.inverse = {Entry(id, t.score[id]) : id \in Ids(t)}
=============================================================================
