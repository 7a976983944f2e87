----------------------------- MODULE StreamTable -----------------------------
(***************************************************************************)
(* What the stream detector of cpu.cpp promises, without slots and ages:   *)
(* the table lists the streams by recency, most recent first.  A demand    *)
(* miss either advances a stream it matches and moves it to the front, or, *)
(* when it matches none, replaces the least recent one by a new stream.    *)
(***************************************************************************)
EXTENDS Naturals, Sequences

CONSTANTS
  Misses,              (* the line numbers a demand miss can name          *)
  Matches(_, _),       (* Matches(stream, miss)                            *)
  Advanced(_, _),      (* the stream after it matched the miss             *)
  Started(_)           (* the stream a miss without a match starts         *)

VARIABLE table

Front(stream, i) ==
  <<stream>> \o SubSeq(table, 1, i - 1) \o SubSeq(table, i + 1, Len(table))

Advance(miss) ==
  \E i \in DOMAIN table :
    /\ Matches(table[i], miss)
    /\ table' = Front(Advanced(table[i], miss), i)

Start(miss) ==
  /\ \A i \in DOMAIN table : ~Matches(table[i], miss)
  /\ table' = Front(Started(miss), Len(table))

Next == \E miss \in Misses : Advance(miss) \/ Start(miss)

\* The initial table is the implementation's to choose.
Spec == [][Next]_table
=============================================================================
