----------------------------- MODULE Correction ------------------------------
(***************************************************************************)
(* Checked and opportunistic correction (lib/phase/correction.cpp): the    *)
(* nodes form a ring, and every coloured node sends to its neighbours in   *)
(* both directions, near ones first.                                       *)
(***************************************************************************)
EXTENDS Phase

(* Mutant of CorrectionInit: uncoloured nodes take part. *)
CorrectionInitAll(n, s) == Outcome("ONGOING", <<IdleRequest(n)>>, s)

(* Correction::dispatch(InitTask) *)
CorrectionInit(n, s) ==
  Outcome("ONGOING", IF s.reached THEN <<IdleRequest(n)>> ELSE <<>>, s)

-----------------------------------------------------------------------------
(* CheckedCorrection: go on in a direction until we have sent past the     *)
(* nearest node that sent to us from there.                                *)

Active(ring) == ring.offset < ring.minRecv

(* Mutant of Dir: right first. *)
DirRight(ph, s) ==
  IF ph.throttled
  THEN IF s.nowLeft THEN "left" ELSE "right"
  ELSE IF Active(s.left) /\ (Active(s.right) => s.left.offset < s.right.offset)
       THEN "left" ELSE "right"

(* get_dir: throttled, alternate; otherwise the less advanced active one. *)
Dir(ph, s) ==
  IF ph.throttled
  THEN IF s.nowLeft THEN "left" ELSE "right"
  ELSE IF Active(s.left) /\ (Active(s.right) => s.left.offset <= s.right.offset)
       THEN "left" ELSE "right"

Turned(ph, s) == IF ph.throttled THEN [s EXCEPT !.nowLeft = ~ @] ELSE s

(* Mutant of Exhausted: the directions pass each other. *)
ExhaustedLate(c, s) ==
  \/ ~ Active(s.left) /\ ~ Active(s.right)
  \/ s.left.offset + s.right.offset > c.P

(* Mutant of Exhausted: each direction counts the node itself. *)
ExhaustedEarly(c, s) ==
  \/ ~ Active(s.left) /\ ~ Active(s.right)
  \/ (s.left.offset + 1) + (s.right.offset + 1) >= c.P

Exhausted(c, s) ==
  \/ ~ Active(s.left) /\ ~ Active(s.right)
  \/ s.left.offset + s.right.offset >= c.P

Neighbour(c, n, dir, offset) ==
  (n + (IF dir = "left" THEN - offset ELSE offset) + c.P) % c.P

(***************************************************************************)
(* post_message finds that the next message would cross the root: that     *)
(* direction ends here, and it starts over with the other one.             *)
(***************************************************************************)
CrossesRoot(c, ph, n, s) ==
  LET dir == Dir(ph, s)
  IN /\ ~ ph.overRoot /\ ~ Exhausted(c, s) /\ Active(s[dir])
     /\ Neighbour(c, n, dir, s[dir].offset + 1) = IF dir = "left" THEN c.P - 1 ELSE 0

Barred(c, ph, n, s) ==
  IF CrossesRoot(c, ph, n, s)
  THEN [Turned(ph, s) EXCEPT ![Dir(ph, s)] = [offset |-> @.offset + 1, minRecv |-> 1]]
  ELSE s

(* What post_message sends once no direction is barred any more. *)
Post(c, ph, n, s, at, dir) ==
  LET sent == [Turned(ph, s) EXCEPT ![dir].offset = @ + 1]
  IN IF ~ Active(s[dir]) \* should_skip: wait for the other direction's turn
     THEN Outcome("ONGOING", <<TimerRequest("INTERNAL", at + c.o, n)>>, Turned(ph, s))
     ELSE Outcome("ONGOING",
                  <<SendRequest(IF dir = "left" THEN "RING_LEFT" ELSE "RING_RIGHT", at, n,
                                Neighbour(c, n, dir, sent[dir].offset))>>,
                  sent)

PostOpen(c, ph, n, s, at) ==
  IF Exhausted(c, s) THEN Outcome("DONE_PHASE", <<>>, s) ELSE Post(c, ph, n, s, at, Dir(ph, s))

(* At most both directions are barred, so the recursion is two deep. *)
PostMessage(c, ph, n, s, at) == PostOpen(c, ph, n, Barred(c, ph, n, Barred(c, ph, n, s)), at)

(* A message that travels right comes from our left, and bounds that ring. *)
Heard(ring, dist) == [ring EXCEPT !.minRecv = IF dist < @ THEN dist ELSE @]

CheckedRecvEnd(c, n, s, t) ==
  LET heard == CASE t.tag = "RING_RIGHT" ->
                      [s EXCEPT !.left = Heard(@, (c.P + n - t.sender) % c.P)]
                 [] t.tag = "RING_LEFT" ->
                      [s EXCEPT !.right = Heard(@, (c.P + t.sender - n) % c.P)]
                 [] OTHER -> s
  IN Outcome(IF s.reached THEN "ONGOING" ELSE "DONE_PHASE", <<>>,
             [heard EXCEPT !.reached = TRUE])

CheckedDispatch(c, ph, n, s, t, at) ==
  CASE t.type = "Init"                 -> CorrectionInit(n, s)
    [] t.type \in {"Timer", "SendEnd"} -> Outcome("ONGOING", <<IdleRequest(n)>>, s)
    [] t.type = "Idle"                 -> PostMessage(c, ph, n, s, at)
    [] t.type = "RecvEnd"              -> CheckedRecvEnd(c, n, s, t)
    [] OTHER                           -> Ongoing(s)

-----------------------------------------------------------------------------
(* OpportunisticCorrection: cover c.d neighbours, half of them to the left. *)

LeftDist(c) == c.d \div 2
RightDist(c) == c.d - LeftDist(c)

(* Mutant of Covered: one direction is enough. *)
CoveredOneWay(c, s) == s.sentLeft >= LeftDist(c) \/ s.sentRight >= RightDist(c)

Covered(c, s) == s.sentLeft >= LeftDist(c) /\ s.sentRight >= RightDist(c)

(* Finish the phase once everything is covered, else wait for a free slot. *)
CoverOrWait(c, n, reqs, s) ==
  IF Covered(c, s) THEN Outcome("DONE_PHASE", reqs, s)
  ELSE Outcome("ONGOING", Append(reqs, IdleRequest(n)), s)

OpportunisticIdle(c, ph, n, s, at) ==
  LET goLeft == s.sentLeft < s.sentRight
      next   == IF goLeft THEN [s EXCEPT !.sentLeft = @ + 1] ELSE [s EXCEPT !.sentRight = @ + 1]
      direct == IF goLeft THEN n - next.sentLeft ELSE n + next.sentRight
      m      == IF ph.overRoot THEN (direct + c.P) % c.P ELSE direct
      send   == IF m \in 0 .. c.P - 1
                THEN <<SendRequest(IF goLeft THEN "RING_LEFT" ELSE "RING_RIGHT", at, n, m)>>
                ELSE <<>>
  IN IF s.reached THEN CoverOrWait(c, n, send, next) ELSE Ongoing(s)

AtLeast(a, b) == IF a < b THEN b ELSE a

(* Optimised: leave out what the sender covers.  left_dist and right_dist  *)
(* are used as the code uses them.                                         *)
OpportunisticRecvEnd(c, ph, n, s, t) ==
  LET r == [s EXCEPT !.reached = TRUE]
      trimmed ==
        CASE t.tag = "RING_RIGHT" ->
               [r EXCEPT !.sentRight = AtLeast(@, LeftDist(c) - ((n - t.sender + c.P) % c.P)),
                         !.sentLeft = LeftDist(c)]
          [] t.tag = "RING_LEFT" ->
               [r EXCEPT !.sentLeft = AtLeast(@, RightDist(c) - ((t.sender - n + c.P) % c.P)),
                         !.sentRight = RightDist(c)]
          [] OTHER -> r
  IN IF ph.optimised THEN CoverOrWait(c, n, <<>>, trimmed)
     ELSE Outcome("ONGOING", <<IdleRequest(n)>>, r)

OpportunisticDispatch(c, ph, n, s, t, at) ==
  CASE t.type = "Init"    -> CorrectionInit(n, s)
    [] t.type = "Idle"    -> OpportunisticIdle(c, ph, n, s, at)
    [] t.type = "RecvEnd" -> OpportunisticRecvEnd(c, ph, n, s, t)
    [] OTHER              -> Ongoing(s)
=============================================================================
