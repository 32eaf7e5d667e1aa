------------------------------ MODULE NtpClient ------------------------------
(***************************************************************************)
(* NTPClient of chumicro_ntp: one query at a time over a datagram socket,   *)
(* and a network that loses, delays and repeats the answers.  Handles of    *)
(* past queries stay with the application.                                  *)
(***************************************************************************)
EXTENDS Integers, Sequences

CONSTANTS
  MaxQueries,  \* bound on the queries ever made
  DrainLimit,  \* _DRAIN_LIMIT
  InboxDepth,  \* how many datagrams the socket keeps
  Nothing,
  NoBytes      \* a datagram of no bytes

ASSUME NtpAssumption ==
  /\ MaxQueries \in Nat \ {0} /\ DrainLimit \in Nat /\ InboxDepth \in Nat
  /\ Nothing \notin Nat /\ NoBytes \notin Nat

Queries == 1..MaxQueries

VARIABLES
  ntp,      \* socket; reopens: there is a transport_factory; result: the query of _result
  results,  \* query -> its NTPResult; taken: when the answer it took had arrived;
            \* cut: its drain met what ends it before the socket is empty
  inbox,    \* what the socket has received: how many queries there were by then, or NoBytes
  onWay     \* the answers under way

ntpVars == <<ntp, results, inbox, onWay>>

NtpInit ==
  /\ \E reopens \in BOOLEAN :
       ntp = [socket |-> IF reopens THEN "unopened" ELSE "open", reopens |-> reopens,
              result |-> Nothing]
  /\ results = [q \in Queries |-> [state |-> "unasked", taken |-> Nothing, cut |-> FALSE]]
  /\ inbox = <<>> /\ onWay = 0

Asked == {q \in Queries : results[q].state # "unasked"}
Latest == IF Asked = {} THEN 0 ELSE CHOOSE q \in Asked : \A p \in Asked : p <= q
Busy  == ntp.result # Nothing /\ results[ntp.result].state = "pending"

Ended(state) == results' = [results EXCEPT ![ntp.result].state = state]

-----------------------------------------------------------------------------
(* query(): the socket is drained before the request goes out, so that what *)
(* came too late for the last query is not taken for an answer to this one. *)
(* The drain is over when there is nothing more, at an empty datagram, at a *)
(* read that raises, and when it has done DrainLimit reads.                 *)
DrainSocket_OneOnly(reads) ==                 \* mutant: a read in place of the loop
  inbox' = IF inbox = <<>> \/ reads = 0 THEN inbox ELSE Tail(inbox)
DrainSocket(reads) ==                         \* reads that do not raise
  \E n \in 0..Len(inbox) :
    /\ n <= reads /\ \A i \in 1..(n - 1) : inbox[i] # NoBytes
    /\ n \in {reads, Len(inbox)} \/ (n > 0 /\ inbox[n] = NoBytes)
    /\ inbox' = SubSeq(inbox, n + 1, Len(inbox))

CutShort(reads) == reads < Len(inbox) \/ \E i \in 1..(Len(inbox) - 1) : inbox[i] = NoBytes

Query ==
  /\ ~Busy /\ Latest < MaxQueries
  /\ ntp.socket = "open" \/ ntp.reopens
  /\ ntp' = [ntp EXCEPT !.socket = "open", !.result = Latest + 1]
  /\ \E reads \in 0..DrainLimit, state \in {"pending", "failed"} :
       /\ DrainSocket(reads)
       /\ results' = [results EXCEPT ![Latest + 1].state = state,
                                     ![Latest + 1].cut = CutShort(reads)]
  /\ onWay' \in IF results'[Latest + 1].state = "pending" THEN {onWay, onWay + 1, onWay + 2}
                ELSE {onWay}

(* handle(): any datagram that parses is an answer, an empty one only lets  *)
(* the deadline be looked at.  A client whose socket was closed under its   *)
(* query raises here at every turn.                                         *)
CheckTimeout_Never == FALSE                   \* mutant: no deadline
CheckTimeout == Ended("failed")

Receive ==
  /\ Busy /\ ntp.socket = "open" /\ inbox # <<>>
  /\ inbox' = Tail(inbox)
  /\ IF Head(inbox) = NoBytes THEN UNCHANGED results \/ CheckTimeout
     ELSE \/ results' = [results EXCEPT ![ntp.result].state = "answered",
                                        ![ntp.result].taken = Head(inbox)]
          \/ Ended("failed")
  /\ UNCHANGED <<ntp, onWay>>

ReceiveRaises == Busy /\ ntp.socket = "open" /\ Ended("failed") /\ UNCHANGED <<ntp, inbox, onWay>>

NothingReceived ==
  /\ Busy /\ ntp.socket = "open" /\ inbox = <<>>
  /\ CheckTimeout /\ UNCHANGED <<ntp, inbox, onWay>>

NtpHandle == Receive \/ ReceiveRaises \/ NothingReceived

Cancel == Busy /\ Ended("failed") /\ UNCHANGED <<ntp, inbox, onWay>>

CloseSocket ==
  /\ ntp.socket = "open" /\ ntp' = [ntp EXCEPT !.socket = "closed"]
  /\ inbox' = <<>> /\ onWay' = 0 /\ UNCHANGED results

(* The network.                                                             *)
Arrives ==
  /\ onWay > 0 /\ onWay' = onWay - 1
  /\ \E datagram \in {Latest, NoBytes} :
       inbox' = IF Len(inbox) < InboxDepth THEN Append(inbox, datagram) ELSE inbox
  /\ UNCHANGED <<ntp, results>>

NtpNext == Query \/ NtpHandle \/ Cancel \/ CloseSocket \/ Arrives

NtpSpec == NtpInit /\ [][NtpNext]_ntpVars

-----------------------------------------------------------------------------
(* An answer that had arrived before its query was asked, to one that was   *)
(* cancelled or timed out, is not its time.  A query only takes one if its  *)
(* drain met a datagram of no bytes, a read that raised, or more than it    *)
(* reads; a drain that meets none of them keeps out whatever came before.   *)
AnswersAfterAsking ==
  \A q \in Queries : results[q].taken \in {Nothing, q} \/ results[q].cut

(* Every query ends, unless its socket is closed under it.                  *)
QueriesEnd ==
  \A q \in Queries : results[q].state = "pending" ~>
                       results[q].state # "pending" \/ ntp.socket = "closed"
=============================================================================
