------------------------------- MODULE Arrays -------------------------------
(***************************************************************************)
(* Arrays with a count, as the code keeps its tables: s_mapping_table of   *)
(* the AMM, the rules of the automation engine, s_devices and the          *)
(* registers of a device of the discovery.                                 *)
(***************************************************************************)
EXTENDS Integers, Sequences

\* the entries of t at the places S, moved together
Compacted(t, S) ==
  LET upTo[n \in 0..Len(t)] ==
        IF n = 0 THEN <<>>
        ELSE IF n \in S THEN Append(upTo[n - 1], t[n]) ELSE upTo[n - 1]
  IN upTo[Len(t)]

\* the entries behind place i moved up by one
Without(t, i) == SubSeq(t, 1, i - 1) \o SubSeq(t, i + 1, Len(t))
=============================================================================
