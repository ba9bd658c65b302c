------------------------------- MODULE OneCall -------------------------------
(***************************************************************************)
(* What a handler may rely on when it makes one call to Outline: the       *)
(* outcomes that Call gives it in ScimGroups and ScimUsers.  The call is   *)
(* carried out at most once.  Success means it was, "notFound" that it was *)
(* not, an error leaves it open: Outline may even carry it out later.      *)
(***************************************************************************)
VARIABLES
  busy,       \* the caller waits for the call
  done,       \* how often Outline has carried it out
  outcome     \* what the caller was told: "none" until then

onceVars == <<busy, done, outcome>>

OInit == ~ busy /\ done = 0 /\ outcome = "none"

Start ==
  /\ ~ busy
  /\ busy' /\ done' = 0 /\ outcome' = "none"

CarryOut ==
  /\ done = 0 /\ (busy \/ outcome = "error")
  /\ done' = 1
  /\ UNCHANGED <<busy, outcome>>

Tell(o) ==
  /\ busy /\ ~ busy'
  /\ outcome' = o
  /\ UNCHANGED done
  /\ o = "ok" => done = 1
  /\ o = "notFound" => done = 0

ONext == Start \/ CarryOut \/ \E o \in {"ok", "notFound", "error"} : Tell(o)

OSpec == OInit /\ [][ONext]_onceVars
=============================================================================
