---------------------------- MODULE DurableQueue ----------------------------
(***************************************************************************)
(* What the offline store promises UIF, without media, files or an index:  *)
(* a set of held records.  A record leaves the set because it was          *)
(* discarded on request or because it was given up, and every record given *)
(* up is charged to the data-loss metric; a reset may cost the record      *)
(* being written and the one evicted to make room for it.  A record may be *)
(* held incomplete, but only since it was accepted.                        *)
(*                                                                         *)
(* `owed' is the ledger that makes this a statement about the metric: the  *)
(* records accepted since the reset (or found by it) that were neither     *)
(* discarded nor charged.                                                  *)
(***************************************************************************)
CONSTANTS Seqs,   \* sequence identifiers
          None    \* no sequence identifier, and not one of Seqs

VARIABLES held,   \* records that a replay can still send
          flawed, \* those of them that are incomplete
          owed    \* records the data-loss metric does not cover

Init == held = {} /\ flawed = {} /\ owed = {}

\* A record offered to the store is kept; up to two others may be given up.
\* A record given up is gone, or a copy of it stays behind out of reach.  The
\* new record may be incomplete; no other becomes so.
Accept(s) ==
  \E x, y \in held \cup {None} : \E gone \in SUBSET {x, y} :
    /\ held' = (held \ gone) \cup {s}
    /\ owed' = (owed \ {x, y}) \cup {s}
    /\ flawed' \subseteq flawed \cup {s}

\* It is given up itself, and charged, perhaps with two others.
GiveUp(s) ==
  \E x, y \in held \cup {None} : \E gone \in SUBSET {x, y, s} :
    /\ held' = held \ gone
    /\ owed' = owed \ {x, y, s}
    /\ flawed' \subseteq flawed

\* The caller is done with a record; a copy out of reach may stay behind.
Discard(s) ==
  /\ held' \in {held, held \ {s}}
  /\ owed' = owed \ {s}
  /\ flawed' \subseteq flawed

\* A power cut, perhaps inside a put that had made room for its record.
PowerCut ==
  /\ \E x, y \in held \cup {None} : held' = held \ {x, y}
  /\ owed' = {}
  /\ flawed' \subseteq flawed

\* Start-up: the ledger starts from what is found, less what is pruned.
Restart ==
  /\ held' \subseteq held
  /\ owed' = held'
  /\ flawed' \subseteq flawed

Next ==
  \/ \E s \in Seqs : Accept(s) \/ GiveUp(s) \/ Discard(s)
  \/ PowerCut
  \/ Restart

Spec == Init /\ [][Next]_<<held, flawed, owed>>
=============================================================================
