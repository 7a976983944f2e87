---------------------------- MODULE VirtualMemory ----------------------------
(***************************************************************************)
(* What os.cpp, page_walk and the TLBs promise together: every process has *)
(* a mapping from its pages to frames, no frame is given out twice, and an *)
(* access on any core sees the mapping of the active process.              *)
(*                                                                         *)
(* Two things weaken the promise.  A page mapped again may be seen at its  *)
(* old frames until the next switch: the code does not tell the TLBs.  And *)
(* when the frame allocator may hand out the last frame of the memory,     *)
(* once, for one process, a table may come to lie there which page_walk    *)
(* refuses to enter: pages not mapped before are then cut off, and fault   *)
(* for ever although mapping them is answered with a frame.                *)
(***************************************************************************)
CONSTANTS
  Procs, Pages, Frames, NoFrame,
  TablesFit   (* every frame that is handed out has room for a table       *)

VARIABLES
  mapping,    (* mapping[p][v]: the frame of page v of process p, or NoFrame *)
  cut_off,    (* the <<p, v>> below a table that does not fit the memory   *)
  active,
  stale,      (* stale[v]: the frames page v of the active process had     *)
              (* since the last switch and has no more                     *)
  answer      (* what the last operation answered                          *)

vars == <<mapping, cut_off, active, stale, answer>>

used == {mapping[p][v] : p \in Procs, v \in Pages} \cup UNION {stale[v] : v \in Pages}

\* The frame a walk of the tables finds.
found(p, v) == IF <<p, v>> \in cut_off THEN NoFrame ELSE mapping[p][v]

NoneStale == [v \in Pages |-> {}]

Init ==
  /\ mapping = [p \in Procs |-> [v \in Pages |-> NoFrame]]
  /\ cut_off = {}
  /\ active \in Procs
  /\ stale = NoneStale
  /\ answer = <<>>

\* A table for page v, and for some others not mapped before, does not fit.
CutOff(p, v) ==
  /\ ~TablesFit
  /\ cut_off = {}
  /\ \E S \in SUBSET {u \in Pages : mapping[p][u] = NoFrame} :
       v \in S /\ cut_off' = {p} \X S

\* A page is mapped to a fresh frame when and only when the answer says so.
Map(p, v) ==
  /\ \/ \E f \in Frames :
          /\ answer' = <<p, v, f>>
          /\ f \notin used
          /\ mapping' = [mapping EXCEPT ![p][v] = f]
          /\ stale' = IF p = active
                        THEN [stale EXCEPT ![v] = @ \cup ({found(p, v)} \ {NoFrame})]
                        ELSE stale
     \/ answer' = <<p, v, NoFrame>> /\ UNCHANGED <<mapping, stale>>
  /\ UNCHANGED cut_off \/ CutOff(p, v)
  /\ UNCHANGED active

Switch(p) ==
  /\ answer' = <<>>
  /\ active' = p
  /\ stale' = NoneStale
  /\ UNCHANGED <<mapping, cut_off>>

\* An access to a page that is not mapped, or cut off, faults.
Access(v) ==
  /\ \E f \in {found(active, v)} \cup stale[v] : answer' = <<v, f>>
  /\ UNCHANGED <<mapping, cut_off, active, stale>>

Next ==
  \/ \E p \in Procs, v \in Pages : Map(p, v)
  \/ \E p \in Procs : Switch(p)
  \/ \E v \in Pages : Access(v)

Spec == Init /\ [][Next]_vars
=============================================================================
