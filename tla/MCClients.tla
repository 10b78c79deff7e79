----------------------------- MODULE MCClients -----------------------------
(***************************************************************************)
(* Programs that use the API: a client that reads the list of events, and  *)
(* the two tools of the load test that make several requests in a row.     *)
(*                                                                         *)
(* They share no variable, so a behaviour that moves a single one (the     *)
(* value of part) shows all that this one can do: the states of the three  *)
(* add up instead of multiplying.                                          *)
(***************************************************************************)
EXTENDS EventList, FairnessClient, SetupUsers, TLC

CONSTANTS w1, w2

TwoWorkers == {w1, w2}
WorkerSymmetry == Permutations(TwoWorkers)

VARIABLE part

clientsVars == <<part, listVars, clientVars, setupVars>>

\* The tool that moves starts in all of its initial states, otherwise in one.
InitClients ==
  /\ part \in {"list", "draw", "setup"}
  /\ accounts \in IF part = "setup" THEN SUBSET Jobs ELSE {{}}
  /\ InitList /\ InitClient /\ InitSetup

MoveList == part = "list" /\ NextList /\ UNCHANGED <<part, clientVars, setupVars>>
MoveDraw == part = "draw" /\ NextClient /\ UNCHANGED <<part, listVars, setupVars>>
MoveSetup == part = "setup" /\ NextSetup /\ UNCHANGED <<part, listVars, clientVars>>

\* The only states without a step: a tool that has ended.
Over ==
  /\ \/ part = "draw" /\ ~Calling
     \/ part = "setup" /\ main \in {"failed", "printed"}
  /\ UNCHANGED clientsVars

NextClients == MoveList \/ MoveDraw \/ MoveSetup \/ Over

SpecClients == InitClients /\ [][NextClients]_clientsVars
=============================================================================
