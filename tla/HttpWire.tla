------------------------------ MODULE HttpWire ------------------------------
(***************************************************************************)
(* The TCP connections between HttpClient and HttpServer, as their code    *)
(* uses them: a connection carries pieces of a request up and pieces of a  *)
(* response down.  A piece is a message head, one unit of body, the last   *)
(* chunk, or something that breaks the protocol; bytes of a piece that is  *)
(* incomplete change nothing in either parser.                             *)
(***************************************************************************)
EXTENDS Integers, Sequences, FiniteSets

CONSTANTS
  Links,    \* the connections ever made, 1..n
  WireCap,  \* bound on the pieces on their way in one direction
  None

(* What a response says of itself, as far as client and server tell apart.  *)
Statuses == {"ok", "nobody", "redirect", "preserve", "failure"}

ASSUME WireAssumption ==
  /\ Links \subseteq Nat /\ IsFiniteSet(Links)
  /\ None \notin Nat /\ None \notin Statuses
  /\ WireCap \in Nat \ {0}

VARIABLE wire  \* connection -> its two ends, what is on its way, whether it is lost

NewLink == [c |-> "none", s |-> "none", up |-> <<>>, down |-> <<>>, lost |-> FALSE]

WireInit == wire = [l \in Links |-> NewLink]

(* Pieces.                                                                  *)
RequestHead(method, len) == [op |-> "request", method |-> method, len |-> len]
ResponseHead(status, frame, len, loc) ==
  [op |-> "head", status |-> status, frame |-> frame, len |-> len, loc |-> loc]
Body(n)  == [op |-> "body", n |-> n]
Last     == [op |-> "last"]
Of(op)   == [op |-> op]
Units(n) == [i \in 1..n |-> Body(i)]

BodyPiece  == [op : {"body"}, n : Nat]
AskPiece   == [op : {"request"}, method : {"GET", "POST"}, len : Nat]
                \cup BodyPiece \cup [op : {"longline", "bighead", "junk"}]
HeadPiece  == [op : {"head"}, status : Statuses,
               frame : {"length", "chunked", "close", "bad"}, len : Nat,
               loc : {None, "ok", "bad"}]
ReplyPiece == HeadPiece \cup BodyPiece \cup [op : {"last", "interim", "junk"}]

(* The ends of a connection, and what the calls on a socket see of it.      *)
Unused  == {l \in Links : wire[l].c = "none"}
NextLink == CHOOSE l \in Unused : \A m \in Unused : l <= m

Gone(x) == x.c = "closed" /\ x.s \in {"closed", "none"}
Settled(x) == IF Gone(x) THEN [x EXCEPT !.up = <<>>, !.down = <<>>, !.lost = FALSE] ELSE x

CloseClientEnd(x) == Settled([x EXCEPT !.c = "closed", !.down = <<>>])
CloseServerEnd(x) == Settled([x EXCEPT !.s = "closed", !.up = <<>>])

ClientSeesEnd(x) == ~x.lost /\ x.down = <<>> /\ x.s = "closed"
ServerSeesEnd(x) == ~x.lost /\ x.up = <<>> /\ x.c = "closed"

(* A reset, also one that answers data sent to a closed end: what was on    *)
(* its way is lost and every later call on the socket fails.                *)
LinkBreaks(l) ==
  /\ ~wire[l].lost /\ wire[l].c = "up"
  /\ wire' = [wire EXCEPT ![l].lost = TRUE, ![l].up = <<>>, ![l].down = <<>>]
=============================================================================
