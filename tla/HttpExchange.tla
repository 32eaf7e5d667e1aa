---------------------------- MODULE HttpExchange ----------------------------
(* What the application of an HttpClient may rely on: requests run one at a *)
(* time; each is answered once, with its response, an error or a notice of  *)
(* an oversized body that was dropped, and on_done is called once, then.    *)
(* The response of a streamed request is there before its body is, stays    *)
(* the same, and the stream then ends well or in an error.                  *)
EXTENDS Naturals

CONSTANTS Ids, Links, None

VARIABLE exchange

Fresh == [phase |-> "unused", stream |-> FALSE, result |-> None, resp |-> None, told |-> 0]

Init == exchange = [i \in Ids |-> Fresh]

Ask(i) ==
  /\ exchange[i].phase = "unused"
  /\ \A j \in Ids : exchange[j].phase \in {"unused", "done"}
  /\ \E b \in BOOLEAN :
       exchange' = [exchange EXCEPT ![i].phase = "pending", ![i].stream = b]

Publish(i) ==
  /\ exchange[i].phase = "pending" /\ exchange[i].stream
  /\ \E l \in Links :
       exchange' = [exchange EXCEPT ![i].phase = "published", ![i].resp = l]

Finish(i, result, resp) ==
  exchange' = [exchange EXCEPT ![i].phase = "done", ![i].result = result,
                               ![i].resp = resp, ![i].told = @ + 1]

Answer(i) ==
  /\ exchange[i].phase = "pending"
  /\ \/ Finish(i, "error", None)
     \/ Finish(i, "dropped", None)
     \/ \E l \in Links : Finish(i, "ok", l)

EndStream(i) ==
  /\ exchange[i].phase = "published"
  /\ \E result \in {"ok", "error"} : Finish(i, result, exchange[i].resp)

Next == \E i \in Ids : Ask(i) \/ Publish(i) \/ Answer(i) \/ EndStream(i)

Spec == Init /\ [][Next]_exchange
=============================================================================
