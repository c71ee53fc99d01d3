----------------------------- MODULE GameFrame -----------------------------
(***************************************************************************)
(* A browser game's frame: the document inside the iframe, its board, the  *)
(* balls in the air, and the two postMessage channels that join it to the  *)
(* page (games/<title>/web/js).  Drawing, sound and the camera are left    *)
(* out; what remains is what the page can observe: which messages a frame  *)
(* answers, where a ball comes down and that it comes down once.           *)
(***************************************************************************)
EXTENDS Integers, Sequences, FiniteSets

CONSTANTS
    ROWS,       \* rows of pegs, so ROWS + 1 slots
    Results,    \* the slot the server settles each round in: nothing the page does depends on it
    Titles,     \* the titles on offer
    NoBoard     \* a frame that has not been configured

ASSUME FrameAssumption ==
    /\ ROWS \in Nat \ {0}
    /\ \A round \in DOMAIN Results : Results[round] \in 0 .. ROWS
    /\ "plinko" \in Titles /\ Titles \subseteq {"plinko", "billiards", "tropical"}

VARIABLES
    frame,      \* the document: phase, title, board, sound, balls
    toFrame,    \* messages the page has posted, oldest first
    toHost      \* messages the frame has posted, oldest first

frameVars == <<frame, toFrame, toHost>>

Slots == 0 .. ROWS

(***************************************************************************)
(* Flights.  A turn is 0 (left) or 1 (right); x counts half peg spacings   *)
(* from the middle of the board.                                           *)
(***************************************************************************)

\* Mutant: the left turns are counted.
planLeftTurns(slot) ==
    {turns \in [1 .. ROWS -> {0, 1}] :
        Cardinality({r \in 1 .. ROWS : turns[r] = 0}) = slot}

\* Any order of `slot` right turns among the rows.
planTurns(slot) ==
    {turns \in [1 .. ROWS -> {0, 1}] :
        Cardinality({r \in 1 .. ROWS : turns[r] = 1}) = slot}

Rights(turns, r) == Cardinality({i \in 1 .. r : turns[i] = 1})
XAfter(turns, r) == 2 * Rights(turns, r) - r

NoPeg == <<>>

\* The peg in the middle of row 0, then one peg of every row below it.
Fall(ms) == [kind |-> "fall", x |-> 0, peg |-> <<0, 1>>, ms |-> ms]
Bounces(turns, ms) ==
    [r \in 1 .. ROWS - 1 |->
        [kind |-> "bounce", x |-> XAfter(turns, r), peg |-> <<r, 1 + Rights(turns, r)>>, ms |-> ms]]
Exit(turns, kind, ms) == [kind |-> kind, x |-> XAfter(turns, ROWS), peg |-> NoPeg, ms |-> ms]

\* Over the slot, counted in half bays, which is where its cup stands.
slotX(slot) == 2 * slot - ROWS
Over(slot, kind, ms) == [kind |-> kind, x |-> slotX(slot), peg |-> NoPeg, ms |-> ms]

PlinkoFlight(slot, turns) ==
    <<Fall(450)>> \o Bounces(turns, 250)
        \o <<Exit(turns, "bounce", 225), Over(slot, "arc", 420), Over(slot, "sink", 630)>>

BilliardsFlight(slot, turns) ==
    <<Fall(510)>> \o Bounces(turns, 255)
        \o <<Exit(turns, "bounce", 240), Over(slot, "arc", 450), Over(slot, "sink", 480)>>

TropicalFlight(slot, turns) ==
    <<Fall(480)>> \o Bounces(turns, 250)
        \o <<Exit(turns, "exit", 240), Over(slot, "sink", 390)>>

\* Row r stands r + 3 pegs about the middle; peg i of it is at this x.
Pegs == {peg \in (0 .. ROWS - 1) \X (0 .. ROWS + 1) : peg[2] < peg[1] + 3}
PegX(peg) == 2 * peg[2] - (peg[1] + 2)

(***************************************************************************)
(* The document.                                                           *)
(***************************************************************************)

Booting(title) ==
    [phase |-> "booting", title |-> title, board |-> NoBoard, sound |-> TRUE,
     balls |-> <<>>]

NoFrame == [Booting("plinko") EXCEPT !.phase = "none"]

Landed(round, slot) == [type |-> "landed", round |-> round, slot |-> slot]

\* dropBall: one more ball in the air.  Which of its title's flights it takes is drawn at
\* random and tells the host nothing, so the ball keeps its result only.
DropBall(f, m) == [f EXCEPT !.balls = Append(@, [round |-> m.round, slot |-> m.slot])]

FramePost(m) == toHost' = Append(toHost, m)

\* boot: modules and fonts are in, the listener is up, and the host is told.
FrameBoots ==
    /\ frame.phase = "booting"
    /\ frame' = [frame EXCEPT !.phase = "up"]
    /\ FramePost([type |-> "ready"])
    /\ UNCHANGED toFrame

\* boot throws: the host is told, and no message is ever answered.
FrameBreaks ==
    /\ frame.phase = "booting"
    /\ frame' = [frame EXCEPT !.phase = "broken"]
    /\ FramePost([type |-> "error", code |-> "runtime"])
    /\ UNCHANGED toFrame

\* A message reaches the document.  Before boot nobody listens and it is lost.
FrameReceives ==
    /\ toFrame # <<>>
    /\ toFrame' = Tail(toFrame)
    /\ LET m == Head(toFrame) IN
       \/ /\ frame.phase # "up"
          /\ UNCHANGED <<frame, toHost>>
       \/ /\ frame.phase = "up" /\ m.type = "configure"
          /\ frame' = [frame EXCEPT !.board = m.board, !.sound = m.sound]
          /\ UNCHANGED toHost
       \/ /\ frame.phase = "up" /\ m.type = "set_sound"
          /\ frame' = [frame EXCEPT !.sound = m.enabled]
          /\ UNCHANGED toHost
       \* A drop that cannot be drawn, or that reduced motion leaves undrawn, is already
       \* settled: it is reported at once.
       \/ /\ frame.phase = "up" /\ m.type = "drop"
          /\ FramePost(Landed(m.round, m.slot))
          /\ UNCHANGED frame
       \/ /\ frame.phase = "up" /\ m.type = "drop" /\ frame.board # NoBoard
          /\ frame' = DropBall(frame, m)
          /\ UNCHANGED toHost

\* The animation frame (tick, stepBall) in which a ball finishes its last segment: it is
\* taken off the board and the host is told.  The frames before it only move what is drawn.
LandBall(b) ==
    /\ frame.phase = "up"
    /\ frame' = [frame EXCEPT !.balls = SubSeq(@, 1, b - 1) \o SubSeq(@, b + 1, Len(@))]
    /\ FramePost(Landed(frame.balls[b].round, frame.balls[b].slot))
    /\ UNCHANGED toFrame

FrameNext == FrameBoots \/ FrameBreaks \/ FrameReceives \/ \E b \in DOMAIN frame.balls : LandBall(b)

(***************************************************************************)
(* Properties                                                              *)
(***************************************************************************)

\* Whatever turns are drawn for it, and in each of the three titles, a ball in the air
\* strikes only pegs that stand where it is, leaves the last row over the slot the server
\* settled and comes down there: the path is invented for a result that is already decided
\* (board/flight.js).
LandsOver(flight, slot) ==
    LET exit == CHOOSE i \in DOMAIN flight :
                    flight[i].peg = NoPeg /\ \A j \in 1 .. i - 1 : flight[j].peg # NoPeg
        struck == 1 .. exit - 1
    IN  /\ flight[Len(flight)].x = slotX(slot) /\ flight[exit].x = slotX(slot)
        /\ {flight[i].peg[1] : i \in struck} = 0 .. ROWS - 1
        /\ \A i \in struck : flight[i].peg \in Pegs /\ PegX(flight[i].peg) = flight[i].x
FlightsLand ==
    \A b \in DOMAIN frame.balls : LET slot == frame.balls[b].slot IN
        \A turns \in planTurns(slot) :
            /\ LandsOver(PlinkoFlight(slot, turns), slot)
            /\ LandsOver(BilliardsFlight(slot, turns), slot)
            /\ LandsOver(TropicalFlight(slot, turns), slot)
=============================================================================
