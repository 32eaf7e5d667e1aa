------------------------------- MODULE MC_Http -------------------------------
(* Small instances of HttpSystem.                                           *)
EXTENDS HttpSystem

Ask1(method, len, stream, redirects) ==
  [method |-> method, len |-> len, stream |-> stream, redirects |-> redirects]
MCRequests ==
  <<{Ask1("POST", 1, FALSE, 1), Ask1("GET", 0, TRUE, 1)}, 
    {Ask1("GET", 0, FALSE, 0), Ask1("GET", 0, TRUE, 0)}>>

MCMaxAsks == [w \in Worlds |-> IF w = "pair" THEN 2 ELSE 1]

Fixed(status, len, loc) ==
  [how |-> "fixed", status |-> status, frame |-> "length", len |-> len, loc |-> loc]
Stream(status, frame, len) ==
  [how |-> "stream", status |-> status, frame |-> frame, len |-> len, loc |-> None]
MCReplies ==
  {Fixed("ok", 0, None), Fixed("ok", 2, None), Fixed("nobody", 1, None),
   Fixed("redirect", 1, "ok"), Fixed("preserve", 0, "ok"), Fixed("redirect", 0, "bad"),
   Stream("ok", "chunked", 0), Stream("ok", "length", 1), Stream("nobody", "chunked", 0)}

MCForeignReplies ==
  {ResponseHead("ok", "length", 1, None), ResponseHead("ok", "length", 2, None),
   ResponseHead("ok", "close", 0, None), ResponseHead("ok", "chunked", 0, None),
   ResponseHead("ok", "bad", 0, None), ResponseHead("redirect", "length", 1, "ok"),
   Of("interim"), Of("junk"), Body(1), Last}

(* What no later step reads is left out of the fingerprint: the histories   *)
(* of foreign clients, and what became of a request once the next one runs. *)
Past(i) == handles[i].phase = "done" /\ handles[i].buf = <<>> /\ i + 1 \in Ids
           /\ handles[i + 1].phase # "unused"
Seen(h) == [i \in Ids |-> IF Past(i) THEN h[i].phase ELSE h[i]]
Known(f) == [l \in Links |-> IF wire[l].c = "closed" /\ conn[l].state = None
                             /\ (\A i \in Ids : Past(i) \/ handles[i].resp # l)
                             THEN None ELSE f[l]]
MCView == <<world, client, Seen(handles), wire, listening, table, conn,
            IF Asked THEN <<Known(heard), Known(said)>> ELSE <<>>>>

MCForeignAsks == {RequestHead("GET", 0), RequestHead("POST", 1), RequestHead("POST", 2),
                  Of("longline"), Of("junk"), Body(1)}
=============================================================================
