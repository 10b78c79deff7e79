----------------------------- MODULE MCProcess -----------------------------
(***************************************************************************)
(* The parts of a server process around the services: start and stop, the  *)
(* client address, the middleware.                                         *)
(*                                                                         *)
(* No part reads a variable of another one here, so a step of one changes  *)
(* nothing for the others, and a behaviour that moves a single part (the   *)
(* value of part) shows all that this part can do: the states of the three *)
(* add up instead of multiplying.                                          *)
(***************************************************************************)
EXTENDS Server, ClientAddress, HttpStack, SequencesExt

CONSTANTS edge, inner, odd, client, q1, q2, q3

\* Two trusted proxies, one listed by a network and one by its mapped address,
\* a third listed by a mapped network (which matches nothing), and clients.
AllHosts == {edge, inner, odd, client}
Listing == {[cidr |-> TRUE, net |-> {edge}, mapped |-> FALSE],
            [cidr |-> FALSE, host |-> inner, mapped |-> TRUE],
            [cidr |-> TRUE, net |-> {odd}, mapped |-> TRUE]}

VARIABLE part

processVars == <<part, serverVars, addressVars, httpVars>>

\* The part that moves starts in all of its initial states, the others in one.
Varied(p, S) == IF part = p THEN S ELSE {CHOOSE x \in S : TRUE}

InitProcess ==
  /\ part \in {"server", "address", "http"}
  /\ req \in Varied("http", Request)
  /\ route \in Varied("address", {<<h>> : h \in Hosts})
  /\ header \in Varied("address", BoundedSeq(Entry, MaxOwn))
  /\ realIP \in Varied("address", Entry)
  /\ InitServer /\ InitAddress /\ InitHttp

MoveServer ==
  part = "server" /\ NextServer /\ UNCHANGED <<part, addressVars, httpVars>>
MoveAddress ==
  part = "address" /\ NextAddress /\ UNCHANGED <<part, serverVars, httpVars>>
MoveHttp ==
  part = "http" /\ NextHttp /\ UNCHANGED <<part, serverVars, addressVars>>

\* The only states without a step: the process has ended, the address is known,
\* the response is out.
Over ==
  /\ \/ part = "server" /\ phase \in {"exited", "killed"}
     \/ part = "address" /\ stage = "done"
     \/ part = "http" /\ going = "done"
  /\ UNCHANGED processVars

NextProcess == MoveServer \/ MoveAddress \/ MoveHttp \/ Over

\* FairServer, for the behaviours in which the server moves.
FairProcess ==
  /\ WF_processVars(MoveServer /\ StartUp)
  /\ WF_processVars(MoveServer /\ Stop)
  /\ \A q \in Requests : WF_processVars(MoveServer /\ GiveBack(q))

SpecProcess == InitProcess /\ [][NextProcess]_processVars /\ FairProcess
=============================================================================
