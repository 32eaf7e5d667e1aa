--------------------------- MODULE MC_WebSockets ---------------------------
(* Worlds of WebSocketSession: a client and a server of the library, a     *)
(* client alone with a foreign server, a foreign client, and two of them   *)
(* that compete for the one place of a server.                             *)
EXTENDS WebSocketSession, TLC

CONSTANTS c0, k0, c, c1, k, k1, k2

MCWorlds == {c0 :> k0 @@ k0 :> c0, c :> None, c1 :> None,
             k :> None, k1 :> None @@ k2 :> None}

(* What a foreign peer sends: handshake heads, whole and split messages,    *)
(* some too long or not UTF-8, and frames that break the protocol.          *)
Of(op, fin, len) == [Plain(op, 0) EXCEPT !.fin = fin, !.len = len]
Frames ==
  {Of("data", TRUE, 1), Of("data", FALSE, 2), Of("data", FALSE, 0),
   Of("data", FALSE, 1), Of("cont", TRUE, 0), Of("cont", TRUE, 1), Of("cont", FALSE, 0),
   [Of("data", TRUE, 1) EXCEPT !.utf8 = FALSE],
   [Of("data", TRUE, 1) EXCEPT !.clean = FALSE],
   Of("reserved", TRUE, 1), Plain("ping", 0), Plain("pong", 0),
   CloseFrame(None), CloseFrame("normal"), CloseFrame("malformed")}

MCForeign ==
  (c :> {Plain("accept", 0), Plain("refusal", 0), Of("data", TRUE, 1),
         Of("reserved", TRUE, 1), CloseFrame(None), CloseFrame("malformed")}) @@
  (k :> Frames \cup {Plain("request", 0), Plain("refusal", 0)}) @@
  (c1 :> {Plain("accept", 0), Plain("ping", 0), Plain("pong", 0), CloseFrame("normal")}) @@
  [s \in {c0, k0, k1, k2} |-> {Plain("request", 0), CloseFrame(None)}]

MCMaxSends == [s \in Sessions |-> IF s \in {k1, k2} THEN 0 ELSE 1]
=============================================================================
