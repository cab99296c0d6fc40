--------------------------- MODULE TraceTimeline ---------------------------
(***************************************************************************)
(* How a stored trace is read back and drawn.  A recording is what the     *)
(* collector kept of one execution (see TraceCollector): its spans by      *)
(* sequence number, each opened and closed at an instant of the real time. *)
(* The database holds what the wall clock showed, which may be too coarse  *)
(* to tell instants apart, and not the sequence; durations come from the   *)
(* performance counter, which is exact.                                    *)
(***************************************************************************)
EXTENDS Integers, Sequences, FiniteSets

\* Orders in which the ids of S may be listed.
Listings(S) ==
  {l \in [1..Cardinality(S) -> S] : \A i, j \in DOMAIN l : l[i] = l[j] => i = j}

(* Recordings of n stages.  Stages open and close in 2n events; the k-th to*)
(* open has sequence number k, and the innermost open stage is the parent  *)
(* of the next (recorder.py:126-153).                                      *)
Encloses(r, p, s) == r[p].open < r[s].open /\ r[s].close < r[p].close

Nested(r) ==
  \A i, j \in DOMAIN r : i < j =>
    /\ r[i].open < r[j].open
    /\ r[i].close < r[j].open \/ r[j].close < r[i].close
    /\ r[i].close # r[j].close /\ r[i].close # r[j].open

\* The innermost stage around s, 0 for none: those that opened later are further in.
Parent(r, s) ==
  LET around == {p \in DOMAIN r : Encloses(r, p, s)}
  IN IF around = {} THEN 0 ELSE CHOOSE p \in around : \A q \in around : q <= p

Intervals(n) == {i \in [open : 1..2*n, close : 1..2*n] : i.open < i.close}

Recordings(n, stages) ==
  {[s \in 1..n |-> [open |-> r[s].open, close |-> r[s].close, stage |-> stage[s],
                    parent |-> Parent(r, s)]] :
     r \in {f \in [1..n -> Intervals(n)] : Nested(f)}, stage \in [1..n -> stages]}

Finish(r) == 2 * Cardinality(DOMAIN r) + 1
-----------------------------------------------------------------------------
\* What the wall clock shows at an instant, when it ticks once in a grain of them.
Wall(grain, t) == (t \div grain) * grain

Duration(r, s) == r[s].close - r[s].open

\* The rows of the trace_spans table, by id; deleting one deletes those under it.
SpanRows(r, grain) ==
  [s \in DOMAIN r |-> [parent |-> r[s].parent, stage |-> r[s].stage,
                       started_at |-> Wall(grain, r[s].open), duration |-> Duration(r, s)]]

\* Variant: the rows come back in the order in which the stages ended.
AsEnded(rows) ==
  {l \in Listings(DOMAIN rows) :
     \A i, j \in DOMAIN l :
       i < j => rows[l[i]].started_at + rows[l[i]].duration
                  <= rows[l[j]].started_at + rows[l[j]].duration}

\* ORDER BY started_at leaves rows of one timestamp in any order.
ReadBack(rows) ==
  {l \in Listings(DOMAIN rows) :
     \A i, j \in DOMAIN l : i < j => rows[l[i]].started_at <= rows[l[j]].started_at}

(* The first span of a stage: by sequence where the collector still has it *)
(* (the query's own response), and as read back (the trace viewer).        *)
FirstOf(order, rows, stage) ==
  LET at == {i \in DOMAIN order : rows[order[i]].stage = stage}
  IN IF at = {} THEN 0 ELSE order[CHOOSE i \in at : \A j \in at : i <= j]

latency_of(r, stage) ==
  LET first == FirstOf([s \in DOMAIN r |-> s], r, stage)
  IN IF first = 0 THEN -1 ELSE Duration(r, first)

stage_latency(rows, order, stage) ==
  LET first == FirstOf(order, rows, stage)
  IN IF first = 0 THEN -1 ELSE rows[first].duration

\* Where a walk from a row to parents is after k steps; at 0 it has left the rows.
WalkUp(rows, s) ==
  LET Up[k \in 0..Cardinality(DOMAIN rows)] ==
        IF k = 0 THEN s
        ELSE IF Up[k - 1] \in DOMAIN rows THEN rows[Up[k - 1]].parent ELSE 0
  IN Up

\* depth_of walks up as long as the parent is among the rows and was not met before.
DepthOf(rows, s) ==
  LET up == WalkUp(rows, s)
      Goes(k) == up[k] \in DOMAIN rows /\ \A i \in 0..k - 1 : up[i] # up[k]
  IN Cardinality({k \in 1..Cardinality(DOMAIN rows) : \A i \in 1..k : Goes(i)})

Bar(rows, start, s) ==
  [span |-> s, stage |-> rows[s].stage, depth |-> DepthOf(rows, s),
   offset |-> rows[s].started_at - start, duration |-> rows[s].duration]

\* The bars a viewer gets of a trace that began at instant 0, in the order it draws them.
Timeline(rows, order, start) == [i \in DOMAIN order |-> Bar(rows, start, order[i])]
-----------------------------------------------------------------------------
(* "so a viewer can indent nested stages without reconstructing the tree - *)
(* and cannot get it wrong" (timeline.py:30-33): a bar is as deep as stages*)
(* ran around it, though a coarse clock may show all of them, their ends   *)
(* included, at the wrong side of each other and in any order.             *)
DepthsShowNesting(recordings, grains) ==
  \A r \in recordings, g \in grains :
    LET rows == SpanRows(r, g) IN
    \A order \in ReadBack(rows) :
      \A i \in DOMAIN order :
        Timeline(rows, order, 0)[i].depth =
          Cardinality({p \in DOMAIN r : Encloses(r, p, order[i])})

(* What is drawn is what happened, as far as the clock tells: no bar starts*)
(* before the trace, none ends later than a tick after it, bars are in the *)
(* order in which the stages began when the clock separates them, and what *)
(* the viewer calls the latency of a stage is what the query answered with,*)
(* unless the stage ran twice at one timestamp (recorder.py:186-189 keeps  *)
(* the order the database then loses).                                     *)
TimelineIsFaithful(recordings, grains) ==
  \A r \in recordings, g \in grains :
    LET rows == SpanRows(r, g) IN
    \A order \in ReadBack(rows) :
      LET bars == Timeline(rows, order, 0) IN
      /\ \A i \in DOMAIN bars :
           bars[i].offset >= 0 /\ bars[i].offset + bars[i].duration <= Finish(r) + g
      /\ \A i, j \in DOMAIN bars :
           i < j => order[i] < order[j] \/ bars[i].offset = bars[j].offset
      /\ \A s \in DOMAIN r :
           \/ stage_latency(rows, order, r[s].stage) = latency_of(r, r[s].stage)
           \/ \E p, q \in DOMAIN r : /\ p < q /\ {r[p].stage, r[q].stage} = {r[s].stage}
                                    /\ rows[p].started_at = rows[q].started_at
=============================================================================
